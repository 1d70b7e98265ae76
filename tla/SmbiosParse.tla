----------------------------- MODULE SmbiosParse -----------------------------
(***************************************************************************)
(* The managed SMBIOS parser (SmbiosParser.cs): TryParseWindowsRaw takes   *)
(* the RAW_SMBIOS_DATA envelope off and calls TryParse, which reads        *)
(* structures until the data ends, until one has the end-of-table type, or *)
(* until one is malformed.  It is all or nothing: the caller gets a table  *)
(* only with Success.                                                      *)
(*                                                                         *)
(* An input is how the caller calls ("bare" for TryParse, "raw" for        *)
(* TryParseWindowsRaw, "short" for fewer bytes than the raw header), the   *)
(* Payload (the bytes after the envelope, or all of them) and Declared,    *)
(* the length the envelope claims, a uint.  Offsets are C# ints, which     *)
(* wrap to negative values; SizeMax stands for int.MaxValue.               *)
(*                                                                         *)
(* A definition marked "a bug" is no part of the specification: it is a    *)
(* mistake the code could contain in place of the definition after it.     *)
(***************************************************************************)
EXTENDS SmbiosFormat, Sequences

CONSTANTS
  Inputs,     \* what a caller may pass
  EndType     \* the type of the end-of-table structure, 127

(* A ReadOnlyMemory is never NULL.  An array has at most 0x7FFFFFC7 bytes: *)
(* index + 1 in FindStringSetEnd needs a length below int.MaxValue.        *)
Memory(b) == b.Size \in 0 .. SizeMax - 1 /\ b \in Buffer(b.Size) /\ b.Valid

Input(in) ==
  /\ in.Call \in {"bare", "raw", "short"}
  /\ Memory(in.Payload)
  /\ in.Declared \in 0 .. 2 * SizeMax + 1

VARIABLES
  input,        \* the caller's arguments
  data,         \* the structure table: the parameter data of TryParse
  offset, index,
  structures,   \* the list being built, in source order
  table,        \* out table: NoTable is null
  status,
  reads,        \* the indices of data the last step read
  pc            \* "enter", "loop", "scan" or "returned"

vars == <<input, data, offset, index, structures, table, status, reads, pc>>

NoTable == [Null |-> TRUE, Size |-> 0, Structures |-> << >>]

IntPlus(a, b) ==
  IF a + b <= SizeMax THEN a + b ELSE a + b - 2 * (SizeMax + 1)

Slice(b, n) ==
  [Data |-> [i \in 0 .. n-1 |-> ByteAt(b, i)], Size |-> n, Valid |-> b.Valid]

InitWith(in) ==
  /\ input = in
  /\ data = Slice(in.Payload, 0)
  /\ offset = 0 /\ index = 0
  /\ structures = << >>
  /\ table = NoTable
  /\ status = "Success"
  /\ reads = {}
  /\ pc = "enter"

Init == \E in \in Inputs : Input(in) /\ InitWith(in)

Return(result, out, read) ==
  /\ status' = result
  /\ table' = out
  /\ reads' = read
  /\ pc' = "returned"
  /\ UNCHANGED <<input, data, offset, index, structures>>

Fail(result, read) == Return(result, NoTable, read)

-----------------------------------------------------------------------------
Entering == pc = "enter"

StartParse(bytes) ==
  /\ data' = bytes
  /\ pc' = "loop"
  /\ reads' = {}
  /\ UNCHANGED <<input, offset, index, structures, table, status>>

ShortEnvelope == Entering /\ input.Call = "short" /\ Fail("TruncatedHeader", {})

SignedFits == IntPlus(input.Declared, 0) <= input.Payload.Size    \* a bug
LengthFits == input.Declared <= input.Payload.Size

LongEnvelope ==
  Entering /\ input.Call = "raw" /\ ~LengthFits /\ Fail("TruncatedData", {})

(* The bytes after the declared length are dropped.                        *)
TryParseWindowsRaw ==
  /\ Entering
  /\ input.Call = "raw"
  /\ LengthFits
  /\ StartParse(Slice(input.Payload, input.Declared))

TryParseBare == Entering /\ input.Call = "bare" /\ StartParse(input.Payload)

-----------------------------------------------------------------------------
Looping == pc = "loop" /\ ~(structures # << >> /\ structures[Len(structures)].Final)
HeaderFits == data.Size - offset >= HeaderSize
Length == LengthAt(data, offset)
Room == data.Size - offset
HeaderReads == {offset, IntPlus(offset, 1)}

NoHeader ==
  Looping /\ offset < data.Size /\ ~HeaderFits /\ Fail("TruncatedHeader", {})

ShortLength ==
  /\ Looping /\ offset < data.Size /\ HeaderFits
  /\ Length < HeaderSize
  /\ Fail("InvalidLength", HeaderReads)

LongLength ==
  /\ Looping /\ offset < data.Size /\ HeaderFits
  /\ Length >= HeaderSize
  /\ Length > Room
  /\ Fail("TruncatedData", HeaderReads)

ScanStart == IntPlus(offset, Length)

BeginScan ==
  /\ Looping /\ offset < data.Size /\ HeaderFits
  /\ Length >= HeaderSize
  /\ Length <= Room
  /\ index' = ScanStart
  /\ reads' = HeaderReads
  /\ pc' = "scan"
  /\ UNCHANGED <<input, data, offset, structures, table, status>>

(* FindStringSetEnd: the second byte is read only after a zero.            *)
Scanning == pc = "scan"
MoreToScanEarly == IntPlus(index, 2) < data.Size        \* a bug
MoreToScanLate == index < data.Size                     \* a bug
MoreToScan == IntPlus(index, 1) < data.Size
AtDoubleNul == ByteAt(data, index) = 0 /\ ByteAt(data, IntPlus(index, 1)) = 0
ScanReads ==
  {index} \cup (IF ByteAt(data, index) = 0 THEN {IntPlus(index, 1)} ELSE {})

SkipTwo == IntPlus(index, 2)                            \* a bug
NextIndex == IntPlus(index, 1)

ScanByte ==
  /\ Scanning /\ MoreToScan /\ ~AtDoubleNul
  /\ index' = NextIndex
  /\ reads' = ScanReads
  /\ UNCHANGED <<input, data, offset, structures, table, status, pc>>

NoTerminator == Scanning /\ ~MoreToScan /\ Fail("MissingTerminator", {})

IsAnyType == FALSE                                      \* a bug
IsEndType == TypeAt(data, offset) = EndType

InsideTerminator == IntPlus(index, 1)                   \* a bug
Ending == IntPlus(index, 2)

HandleReads == offset .. offset + HeaderSize - 1    \* the rest of the header

AddStructure ==
  /\ Scanning /\ MoreToScan /\ AtDoubleNul
  /\ structures' =
       Append(structures, [ Offset    |-> offset,
                            Size      |-> IntPlus(index, 2) - offset,
                            Formatted |-> Length,
                            Final     |-> IsEndType ])
  /\ offset' = Ending
  /\ reads' = ScanReads \cup HandleReads
  /\ pc' = "loop"
  /\ UNCHANGED <<input, data, index, table, status>>

WholeData == data.Size                                  \* a bug
TableSize == offset

(* The loop ends at the end of the data, or after the end-of-table type.   *)
Finish ==
  /\ pc = "loop"
  /\ offset >= data.Size \/ ~Looping
  /\ Return("Success", [ Null |-> FALSE, Size |-> TableSize,
                         Structures |-> structures ], {})

Next ==
  \/ ShortEnvelope \/ LongEnvelope \/ TryParseWindowsRaw \/ TryParseBare
  \/ NoHeader \/ ShortLength \/ LongLength \/ BeginScan
  \/ ScanByte \/ NoTerminator \/ AddStructure \/ Finish

Spec == Init /\ [][Next]_vars

-----------------------------------------------------------------------------
Structure == [Offset : Nat, Size : Nat, Formatted : Nat, Final : BOOLEAN]

TypeOK ==
  /\ Input(input)
  /\ Memory(data)
  /\ offset \in 0 .. SizeMax
  /\ index \in 0 .. SizeMax
  /\ structures \in Seq(Structure)
  /\ table \in [Null : BOOLEAN, Size : Nat, Structures : Seq(Structure)]
  /\ status \in Statuses
  /\ reads \subseteq Int
  /\ pc \in {"enter", "loop", "scan", "returned"}

(* No offset wraps, no index leaves the data and no slice leaves the       *)
(* payload: neither a length byte nor the length the envelope declares     *)
(* makes the parser throw.                                                 *)
NeverThrows ==
  /\ TypeOK
  /\ data.Size <= input.Payload.Size
  /\ \A i \in reads : i \in 0 .. data.Size - 1

(* Every structure of the list is one the format defines at that offset,   *)
(* with its true extent, and is final exactly when its type says so.       *)
StructuresExact ==
  \A i \in 1 .. Len(structures) :
    LET s == structures[i]
    IN  /\ WellFormed(data, s.Offset)
        /\ StructureSize(data, s.Offset, s.Size)
        /\ s.Formatted = LengthAt(data, s.Offset)
        /\ s.Final <=> TypeAt(data, s.Offset) = EndType

(* All or nothing: a table comes with Success and nothing else, its Data   *)
(* is exactly the bytes of its structures, it stops short of the data only *)
(* after an end-of-table structure, and its structures are those the       *)
(* format defines.                                                         *)
TableExact ==
  /\ StructuresExact
  /\ pc = "returned" =>
       /\ table.Null <=> status # "Success"
       /\ ~table.Null =>
            /\ table.Structures = structures
            /\ table.Size = offset
            /\ \/ table.Size = data.Size
               \/ structures # << >> /\ structures[Len(structures)].Final

(* A call is refused for the reason the format gives at the first byte no  *)
(* structure could be read from, or because of its envelope.               *)
VerdictExact ==
  pc = "returned" /\ status # "Success" =>
    \/ input.Call = "short" /\ status = "TruncatedHeader"
    \/ input.Call = "raw" /\ status = "TruncatedData"
       /\ input.Declared > input.Payload.Size
    \/ Refusal(data, offset, status) /\ status # "End"

(* The bytes the caller asks to have parsed.                               *)
Region(in) ==
  IF in.Call = "raw" /\ in.Declared <= in.Payload.Size
  THEN in.Declared ELSE in.Payload.Size

Stream == INSTANCE RecordStream WITH
  limit   <- Region(input),
  cursor  <- offset,
  records <- [ i \in 1 .. Len(structures) |->
                 [ Offset |-> structures[i].Offset, Size |-> structures[i].Size,
                   Final  |-> structures[i].Final ] ],
  verdict <- IF pc # "returned" THEN "open"
             ELSE IF status = "Success" THEN "End" ELSE status

(* The list is built by adding adjacent structures inside the payload, and *)
(* nothing is added after the end-of-table structure.                      *)
ImplementsStream == Stream!Spec

=============================================================================
