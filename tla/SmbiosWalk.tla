----------------------------- MODULE SmbiosWalk -----------------------------
(***************************************************************************)
(* SmbiosNextStructure (SMBIOS.Decode.h) and the loop that calls it        *)
(* (main of SmbiosDecode.c, FirmwareSpecTest.c): one call is the checks on *)
(* the header followed by a byte-by-byte scan for the double NUL, and the  *)
(* caller calls again while it gets Success.  The loop starts at any       *)
(* offset of Starts: 0 in main, SIZE_MAX in the tests.                     *)
(*                                                                         *)
(* A definition marked "a bug" is no part of the specification: it is a    *)
(* mistake the code could contain in place of the definition after it, and *)
(* one of the properties below rejects it.                                 *)
(***************************************************************************)
EXTENDS SmbiosFormat, Sequences

CONSTANTS
  Tables,    \* the buffers a caller may pass
  Starts     \* the offsets a caller may start at

IsTable(t) == t.Size \in 0 .. SizeMax /\ t \in Buffer(t.Size)

ASSUME WalkAssumption ==
  /\ \A t \in Tables : IsTable(t)
  /\ Starts \subseteq 0 .. SizeMax

VARIABLES
  Table,     \* the caller's buffer; no call writes it
  Offset,    \* *Offset, advanced by a call that succeeds
  View,      \* *View: where the structure and its two regions are
  End,       \* the scan position of the call that is running
  Status,    \* what the last call returned
  reads,     \* the indices of Table the last step dereferenced
  walked,    \* history: the structures delivered, as RecordStream records
  pc         \* "call", "scan" or "done"

vars == <<Table, Offset, View, End, Status, reads, walked, pc>>

Region == [Start : Nat, Size : Nat]
Views == [Formatted : Region, Strings : Region, Offset : Nat, TotalSize : Nat]

(* What walked remembers of a structure; no SMBIOS structure ends the walk *)
(* of native code by its type.                                             *)
Structure == [Offset : Nat, Size : Nat, Final : {FALSE}]

(* The caller's View before any call succeeds: its content is never used.  *)
NoView == [ Formatted |-> [Start |-> 0, Size |-> 0],
            Strings   |-> [Start |-> 0, Size |-> 0],
            Offset    |-> 0, TotalSize |-> 0 ]

Init ==
  /\ Table \in Tables
  /\ Offset \in Starts
  /\ View = NoView
  /\ End = 0
  /\ Status = "Success"
  /\ reads = {}
  /\ walked = << >>
  /\ pc = "call"

(* A call that does not succeed writes neither Offset nor View, and ends   *)
(* the caller's loop.                                                      *)
Return(status, read) ==
  /\ Status' = status
  /\ reads' = read
  /\ pc' = "done"
  /\ UNCHANGED <<Table, Offset, View, End, walked>>

Calling == pc = "call"
GotHeader == Offset # Table.Size /\ FirmwareBuffer_Get(Table, Offset, HeaderSize)
Length == LengthAt(Table, Offset)
LengthRead == {Plus(Offset, 1)}

(* Table, Offset or View is NULL.                                          *)
NullArgument == Calling /\ Return("InvalidArgument", {})

AtEnd == Calling /\ Offset = Table.Size /\ Return("End", {})

NoHeader ==
  /\ Calling
  /\ Offset # Table.Size
  /\ ~FirmwareBuffer_Get(Table, Offset, HeaderSize)
  /\ Return("TruncatedHeader", {})

ShortLength ==
  /\ Calling
  /\ GotHeader
  /\ Length < HeaderSize
  /\ Return("InvalidLength", LengthRead)

LongLength ==
  /\ Calling
  /\ GotHeader
  /\ Length >= HeaderSize
  /\ ~FirmwareBuffer_Get(Table, Offset, Length)
  /\ Return("TruncatedData", LengthRead)

(* The scan starts after the formatted area, not after the header.         *)
ScanStart == Plus(Offset, Length)

BeginScan ==
  /\ Calling
  /\ GotHeader
  /\ Length >= HeaderSize
  /\ FirmwareBuffer_Get(Table, Offset, Length)
  /\ End' = ScanStart
  /\ reads' = LengthRead
  /\ pc' = "scan"
  /\ UNCHANGED <<Table, Offset, View, Status, walked>>

Scanning == pc = "scan"
MoreToScan == End < Table.Size
PairAssumed == TRUE                                     \* a bug
PairFits == Plus(End, 1) < Table.Size
AtDoubleNul ==
  ByteAt(Table, End) = 0 /\ PairFits /\ ByteAt(Table, Plus(End, 1)) = 0

(* && short-circuits: the second byte is read only after a zero, in bounds. *)
ScanReads ==
  IF ByteAt(Table, End) = 0 /\ PairFits THEN {End, Plus(End, 1)} ELSE {End}

SkipTwo == Plus(End, 2)                                 \* a bug
Stuck == End                                            \* a bug
NextEnd == Plus(End, 1)

ScanByte ==
  /\ Scanning
  /\ MoreToScan
  /\ ~AtDoubleNul
  /\ End' = NextEnd
  /\ reads' = ScanReads
  /\ UNCHANGED <<Table, Offset, View, Status, walked, pc>>

StringStart == Plus(Offset, Length)

StringsAfterAdvance == Plus(End, 2) - (Plus(End, 2) + Length)  \* a bug
StringsWithoutNul == Plus(End, 1) - StringStart         \* a bug
StringsSize == Plus(End, 2) - StringStart

InsideTerminator == Plus(End, 1)                        \* a bug
NextOffset == Plus(End, 2)

Found ==
  /\ Scanning
  /\ MoreToScan
  /\ AtDoubleNul
  /\ View' = [ Formatted |-> [Start |-> Offset, Size |-> Length],
               Strings   |-> [Start |-> StringStart,
                              Size  |-> StringsSize],
               Offset    |-> Offset,
               TotalSize |-> Plus(End, 2) - Offset ]
  /\ walked' = Append(walked, [ Offset |-> Offset,
                                Size   |-> Plus(End, 2) - Offset,
                                Final  |-> FALSE ])
  /\ Offset' = NextOffset
  /\ Status' = "Success"
  /\ reads' = ScanReads
  /\ pc' = "call"
  /\ UNCHANGED <<Table, End>>

Exhausted == Scanning /\ ~MoreToScan /\ Return("MissingTerminator", {})

SmbiosNextStructure ==
  \/ NullArgument \/ AtEnd \/ NoHeader \/ ShortLength \/ LongLength \/ BeginScan
  \/ ScanByte \/ Found \/ Exhausted

Next == SmbiosNextStructure

Spec == Init /\ [][Next]_vars

-----------------------------------------------------------------------------
TypeOK ==
  /\ IsTable(Table)
  /\ Offset \in 0 .. SizeMax
  /\ View \in Views
  /\ End \in 0 .. SizeMax
  /\ Status \in Statuses
  /\ reads \subseteq Nat
  /\ walked \in Seq(Structure)
  /\ pc \in {"call", "scan", "done"}

(* No step reads past the buffer, whatever the length bytes and the offset *)
(* the caller starts at say: the bounds checks and the short circuits of   *)
(* SmbiosNextStructure are enough, and no offset wraps (TypeOK).           *)
ReadsInside == \A i \in reads : i < Table.Size
MemorySafe == TypeOK /\ ReadsInside

(* While a call scans, it has passed over no terminator and stands in the  *)
(* buffer: what makes the double NUL it stops at the first one.            *)
ScanInv ==
  pc = "scan" =>
    /\ HasFormatted(Table, Offset)
    /\ End \in Offset + Length .. Table.Size
    /\ \A d \in Offset + Length .. End - 1 :
         ~Terminator(Table, Offset + Length, d)

(* The View of the last call that succeeded describes the structure there  *)
(* exactly: the formatted area is as long as the header says, the strings  *)
(* begin where it ends and end with the FIRST double NUL after it, the two *)
(* regions make up the structure, and a structure that failed later leaves *)
(* the View alone.                                                         *)
ViewExact ==
  walked # << >> =>
    LET last == walked[Len(walked)]
    IN  /\ View.Offset = last.Offset
        /\ View.TotalSize = last.Size
        /\ WellFormed(Table, View.Offset)
        /\ StructureSize(Table, View.Offset, View.TotalSize)
        /\ View.Formatted = [ Start |-> View.Offset,
                              Size  |-> LengthAt(Table, View.Offset) ]
        /\ View.Strings.Start = View.Offset + View.Formatted.Size
        /\ View.Formatted.Size + View.Strings.Size = View.TotalSize

(* The status that ends the loop is the one the bytes at Offset deserve:   *)
(* no well-formed structure is refused, and none is refused for another    *)
(* reason than the first that applies.                                     *)
VerdictExact ==
  pc = "done" /\ Status # "InvalidArgument" => Refusal(Table, Offset, Status)

(* The loop delivers adjacent structures from Offset on and then one       *)
(* verdict, and reports End only where the table ends.                     *)
Stream == INSTANCE RecordStream WITH
  limit   <- Table.Size,
  cursor  <- Offset,
  records <- walked,
  verdict <- IF pc = "done" THEN Status ELSE "open"

ImplementsStream == Stream!Spec

=============================================================================
