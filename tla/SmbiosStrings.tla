---------------------------- MODULE SmbiosStrings ----------------------------
(***************************************************************************)
(* The string set of one SMBIOS structure and the three pieces of code     *)
(* that find the string a one-based index names: SmbiosGetString           *)
(* (SMBIOS.Decode.h), TryGetString (SmbiosParser.cs) and the array that    *)
(* PrintSmbiosTable (SmbiosDecode.c) builds before it prints.  They run    *)
(* one after the other on the same bytes and the same index; none sees     *)
(* the others.  A string is its first byte's offset and its length.        *)
(*                                                                         *)
(* The lookups take any bytes, because an application can make a view of   *)
(* its own; the printer gets only what SmbiosNextStructure delivers.       *)
(*                                                                         *)
(* A definition marked "a bug" is no part of the specification: it is a    *)
(* mistake the code could contain in place of the definition after it.     *)
(***************************************************************************)
EXTENDS FirmwareDecode, Sequences, FiniteSets

CONSTANTS
  Regions,    \* the string regions looked at
  ByteMax     \* UCHAR_MAX, the largest index and counter, 255

(* No object in memory is as large as SIZE_MAX.                            *)
IsRegion(r) == r.Size \in 0 .. SizeMax - 1 /\ r \in Buffer(r.Size) /\ r.Valid

ASSUME RegionAssumption == \A r \in Regions : IsRegion(r)
ASSUME WidthAssumption == ByteMax \in Nat \ {0}

VARIABLES
  Strings, Index,               \* the region, and the index to resolve
  Offset, Current, Answer,      \* SmbiosGetString
  start, current, answer,       \* TryGetString
  psz, array, reads,            \* PrintSmbiosTable: scan, array, indices read
  turn                          \* who runs, then "done"

arguments == <<Strings, Index>>
native  == <<Offset, Current, Answer>>
managed == <<start, current, answer>>
printer == <<psz, array, reads>>
vars == <<arguments, native, managed, printer, turn>>

Byte1(i) == ByteAt(Strings, i)

(* strnlen, IndexOf and the inner loop of SmbiosGetString: the number of   *)
(* bytes from i to the next zero, or to the end.                           *)
LengthFrom(i) ==
  LET zeroes == { z \in i .. Strings.Size - 1 : Byte1(z) = 0 }
  IN  IF zeroes = {} THEN Strings.Size - i
      ELSE (CHOOSE z \in zeroes : \A y \in zeroes : z <= y) - i
Ends(i) == i + LengthFrom(i) < Strings.Size

Text(i) == [Start |-> i, Length |-> LengthFrom(i)]
NoText == [Start |-> 0, Length |-> 0]

(* The printer's precondition: the region ends with its first double NUL.  *)
DoubleNul(r, i) == ByteAt(r, i) = 0 /\ ByteAt(r, i + 1) = 0
StringSet(r) ==
  /\ r.Size >= 2
  /\ \A i \in 0 .. r.Size - 2 : DoubleNul(r, i) <=> i = r.Size - 2

Init ==
  /\ Strings \in Regions
  /\ Index \in 0 .. ByteMax
  /\ Offset = 0 /\ Current = 1 /\ Answer = [Status |-> "Success", Text |-> NoText]
  /\ start = 0 /\ current = 1 /\ answer = [Ok |-> FALSE, Text |-> NoText]
  /\ psz = 0 /\ array = << >> /\ reads = {}
  /\ turn = "native"

-----------------------------------------------------------------------------
(* SmbiosGetString                                                         *)
Return(status, text) ==
  /\ Answer' = [Status |-> status, Text |-> text]
  /\ turn' = "managed"
  /\ UNCHANGED <<arguments, Offset, Current, managed, printer>>

NullArgument == turn = "native" /\ Return("InvalidArgument", NoText)
EmptyText == turn = "native" /\ Index = 0 /\ Return("Success", NoText)

Searching == turn = "native" /\ Index # 0
WithoutEmptyCheck == Offset + 1 < Strings.Size          \* a bug
MoreStrings == Plus(Offset, 1) < Strings.Size /\ Byte1(Offset) # 0

NoSuchString == Searching /\ ~MoreStrings /\ Return("InvalidLength", NoText)

Unterminated ==
  /\ Searching /\ MoreStrings
  /\ ~Ends(Offset)
  /\ Return("MissingTerminator", NoText)

SmbiosGetString ==
  /\ Searching /\ MoreStrings /\ Ends(Offset)
  /\ Current = Index
  /\ Return("Success", Text(Offset))

Counted == (Current + 1) % (ByteMax + 1)
OntoTerminator == Offset + LengthFrom(Offset)           \* a bug
NextString == Offset + LengthFrom(Offset) + 1

SkipString ==
  /\ Searching /\ MoreStrings /\ Ends(Offset)
  /\ Current # Index
  /\ Current' = Counted
  /\ Offset' = NextString
  /\ UNCHANGED <<arguments, Answer, managed, printer, turn>>

-----------------------------------------------------------------------------
(* TryGetString, and what PrintSmbiosTable is called with.                 *)
ReturnManaged(ok, text) ==
  /\ answer' = [Ok |-> ok, Text |-> text]
  /\ turn' = IF StringSet(Strings) THEN "printer" ELSE "done"
  /\ UNCHANGED <<arguments, native, start, current, printer>>

NullText == turn = "managed" /\ Index = 0 /\ ReturnManaged(TRUE, NoText)

Resolving == turn = "managed" /\ Index # 0
NoMore == start >= Strings.Size \/ Byte1(start) = 0 \/ ~Ends(start)

NotFound == Resolving /\ NoMore /\ ReturnManaged(FALSE, NoText)

ZeroBased == current = Index + 1                        \* a bug
IsCurrent == current = Index

TryGetString ==
  Resolving /\ ~NoMore /\ IsCurrent /\ ReturnManaged(TRUE, Text(start))

SkipManaged ==
  /\ Resolving /\ ~NoMore /\ ~IsCurrent
  /\ start' = start + LengthFrom(start) + 1
  /\ current' = current + 1
  /\ UNCHANGED <<arguments, native, answer, printer, turn>>

-----------------------------------------------------------------------------
(* PrintSmbiosTable                                                        *)
Unbounded == FALSE                                      \* a bug
ArrayFull == Len(array) = ByteMax

Stops == \/ Strings.Size - psz < 2
         \/ DoubleNul(Strings, psz)
         \/ ~Ends(psz)
         \/ ArrayFull

PairReads == IF Strings.Size - psz < 2 THEN {} ELSE {psz, psz + 1}

PrintStrings ==
  /\ turn = "printer" /\ Stops
  /\ reads' = PairReads
  /\ turn' = "done"
  /\ UNCHANGED <<arguments, native, managed, psz, array>>

Following == psz + LengthFrom(psz) + 1

AddString ==
  /\ turn = "printer" /\ ~Stops
  /\ array' = Append(array, psz)
  /\ psz' = Following
  /\ reads' = PairReads \cup {Following}
  /\ turn' = IF Byte1(Following) = 0 THEN "done" ELSE "printer"
  /\ UNCHANGED <<arguments, native, managed>>

Next ==
  \/ NullArgument \/ EmptyText \/ NoSuchString \/ Unterminated
  \/ SmbiosGetString \/ SkipString
  \/ NullText \/ NotFound \/ TryGetString \/ SkipManaged
  \/ PrintStrings \/ AddString

Spec == Init /\ [][Next]_vars

-----------------------------------------------------------------------------
Texts == [Start : Nat, Length : Nat]

TypeOK ==
  /\ IsRegion(Strings) /\ Index \in 0 .. ByteMax
  /\ Offset \in 0 .. SizeMax /\ Current \in 0 .. ByteMax
  /\ Answer \in [Status : Statuses, Text : Texts]
  /\ start \in 0 .. SizeMax /\ current \in Nat \ {0}
  /\ answer \in [Ok : BOOLEAN, Text : Texts]
  /\ psz \in Nat /\ array \in Seq(Nat) /\ Len(array) <= ByteMax
  /\ reads \subseteq Nat
  /\ turn \in {"native", "managed", "printer", "done"}

(* The strings by definition: what starts the region, or follows a zero,   *)
(* and is not empty, up to the first empty one.                            *)
IsString(i) ==
  /\ i \in 0 .. Strings.Size - 1
  /\ i # 0 => Byte1(i - 1) = 0
  /\ \A j \in 0 .. i : (j = 0 \/ Byte1(j - 1) = 0) => Byte1(j) # 0
  /\ Ends(i)

Number(i) == Cardinality({ j \in 0 .. i : IsString(j) })

(* SmbiosGetString finds the string its index names and none where there   *)
(* is none; its counter meets an index before it could wrap.               *)
LookupExact ==
  turn # "native" /\ Answer.Status # "InvalidArgument" /\ Index # 0 =>
    IF Answer.Status = "Success"
    THEN /\ IsString(Answer.Text.Start)
         /\ Number(Answer.Text.Start) = Index
         /\ Answer.Text.Length = LengthFrom(Answer.Text.Start)
    ELSE \A i \in 0 .. Strings.Size - 1 : ~(IsString(i) /\ Number(i) = Index)

(* Native and managed code resolve every index of every region, well       *)
(* formed or not, to the same string or to none.                           *)
LookupsAgree ==
  turn \in {"printer", "done"} /\ Answer.Status # "InvalidArgument" =>
    /\ answer.Ok <=> Answer.Status = "Success"
    /\ answer.Text = Answer.Text

(* What the printer shows for the index is what the lookup finds, in every *)
(* string set whose first byte is not a lone zero.                         *)
PrinterAgrees ==
  /\ turn = "done" /\ StringSet(Strings) /\ Answer.Status # "InvalidArgument"
  /\ Index # 0
  /\ Byte1(0) # 0 \/ Strings.Size = 2
  => IF Index <= Len(array)
     THEN Answer.Status = "Success" /\ Answer.Text = Text(array[Index])
     ELSE Answer.Status # "Success"

(* The printer compares against the end of the structure only before it    *)
(* reads a pair, and then reads the byte after a string unchecked: that    *)
(* byte is still inside, because the region ends with two zeroes.  Nor     *)
(* does it write more strings than its array has room for (TypeOK).        *)
PrinterStaysInside ==
  /\ TypeOK
  /\ \A i \in reads : i < Strings.Size

=============================================================================
