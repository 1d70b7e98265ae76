------------------------------ MODULE AcpiWalk ------------------------------
(***************************************************************************)
(* AcpiNextSubtable and AcpiNextFixedEntry (ACPI.Decode.h): the two        *)
(* walkers of a validated table's body.  The caller keeps one cursor,      *)
(* *Offset, and calls until it gets no Success.  The value 0 of the cursor *)
(* means "at Start", so a cursor that ever came back to 0 would walk the   *)
(* table again; and AcpiNextSubtable replaces it by Start before it knows  *)
(* whether the call succeeds.  Callers may call again after a call that    *)
(* did not succeed, as the tests do after End.                             *)
(*                                                                         *)
(* A definition marked "a bug" is no part of the specification: it is a    *)
(* mistake the code could contain in place of the definition after it.     *)
(***************************************************************************)
EXTENDS FirmwareDecode, Sequences

CONSTANTS
  HeaderSize,    \* sizeof(ACPI_SUBTABLE_HEADER): Type and Length, 2
  Calls,         \* the walks a caller may make: function and arguments
  Offsets        \* what a caller may set its cursor to: 0 to start

IsTable(t) == t.Size \in 0 .. SizeMax /\ t \in Buffer(t.Size)

Call(c) ==
  /\ c.Walker \in {"subtable", "fixed"}
  /\ c.Null \in BOOLEAN
  /\ IsTable(c.Table)
  /\ c.Start \in 0 .. SizeMax
  /\ c.EntrySize \in 0 .. SizeMax

ASSUME HeaderAssumption == HeaderSize \in Nat /\ HeaderSize >= 2
ASSUME CallerAssumption ==
  /\ \A c \in Calls : Call(c)
  /\ Offsets \subseteq 0 .. SizeMax

VARIABLES
  Walker,               \* the function the caller calls
  Null,                 \* one of the pointers it passes is NULL
  Table,                \* the data of the validated table
  Start,                \* where the caller says the entries begin
  EntrySize,            \* their size, for the fixed entries
  Offset,               \* *Offset
  Status,               \* what the last call returned
  reads,                \* the indices of Table the last call dereferenced
  walked,               \* history: what was delivered; the last is *View
  verdict               \* history: "open", then the first status not Success

args == <<Walker, Null, Table, Start, EntrySize>>
vars == <<args, Offset, Status, reads, walked, verdict>>

Entry == [Offset : Nat, Size : Nat, Final : {FALSE}]

Init ==
  /\ \E c \in Calls : /\ Walker = c.Walker /\ Null = c.Null
                      /\ Table = c.Table
                      /\ Start = c.Start /\ EntrySize = c.EntrySize
  /\ Offset \in Offsets
  /\ Status = "Success"
  /\ reads = {}
  /\ walked = << >>
  /\ verdict = "open"

Position == IF Offset = 0 THEN Start ELSE Offset

LengthAt(t, o) == ByteAt(t, o + 1)
Length == ByteAt(Table, Plus(Position, 1))

(* The cursor after a call that fails.                                     *)
Rewound == 0                                            \* a bug
PastEntry == Position + Length                          \* a bug
CursorKept == IF Walker = "subtable" THEN Position ELSE Offset

Return(status, offset, read) ==
  /\ Status' = status
  /\ Offset' = offset
  /\ reads' = read
  /\ verdict' = IF verdict = "open" THEN status ELSE verdict
  /\ UNCHANGED <<args, walked>>

Deliver(size, read) ==
  /\ Status' = "Success"
  /\ Offset' = Plus(Position, size)
  /\ reads' = read
  /\ walked' = Append(walked, [ Offset |-> Position, Size |-> size,
                                Final  |-> FALSE ])
  /\ UNCHANGED <<args, verdict>>

StartUnchecked == Null \/ (Walker = "fixed" /\ EntrySize = 0)   \* a bug
BadArgument ==
  Null \/ Start > Table.Size \/ (Walker = "fixed" /\ EntrySize = 0)

InvalidArgument == BadArgument /\ Return("InvalidArgument", Offset, {})

AtEnd ==
  ~BadArgument /\ Position = Table.Size /\ Return("End", CursorKept, {})

-----------------------------------------------------------------------------
Subtable == Walker = "subtable" /\ ~BadArgument /\ Position # Table.Size
HeaderAssumed == TRUE                                   \* a bug
HasHeader == FirmwareBuffer_Get(Table, Position, HeaderSize)
LengthRead == {Plus(Position, 1)}

NoHeader ==
  Subtable /\ ~HasHeader /\ Return("TruncatedHeader", CursorKept, {})

AnyLength == FALSE                                      \* a bug
TooShort == Length < HeaderSize

ShortLength ==
  /\ Subtable /\ HasHeader
  /\ TooShort
  /\ Return("InvalidLength", CursorKept, LengthRead)

LengthWithinTable == Length <= Table.Size               \* a bug
LengthFits == FirmwareBuffer_Get(Table, Position, Length)

LongLength ==
  /\ Subtable /\ HasHeader /\ ~TooShort
  /\ ~LengthFits
  /\ Return("TruncatedData", CursorKept, LengthRead)

AcpiNextSubtable ==
  /\ Subtable /\ HasHeader /\ ~TooShort
  /\ LengthFits
  /\ Deliver(Length, LengthRead)

-----------------------------------------------------------------------------
Fixed == Walker = "fixed" /\ ~BadArgument /\ Position # Table.Size
EntryFits == FirmwareBuffer_Get(Table, Position, EntrySize)

NoEntry == Fixed /\ ~EntryFits /\ Return("TruncatedData", CursorKept, {})

AcpiNextFixedEntry == Fixed /\ EntryFits /\ Deliver(EntrySize, {})

Next ==
  \/ InvalidArgument \/ AtEnd
  \/ NoHeader \/ ShortLength \/ LongLength \/ AcpiNextSubtable
  \/ NoEntry \/ AcpiNextFixedEntry

Spec == Init /\ [][Next]_vars

-----------------------------------------------------------------------------
TypeOK ==
  /\ Call([ Walker |-> Walker, Null |-> Null, Table |-> Table,
            Start |-> Start, EntrySize |-> EntrySize ])
  /\ Offset \in 0 .. SizeMax
  /\ Status \in Statuses
  /\ reads \subseteq Nat
  /\ walked \in Seq(Entry)
  /\ verdict \in Statuses \cup {"open"}

(* No call reads past the table, whatever the length bytes, the start and  *)
(* the cursor say, and no cursor leaves size_t (TypeOK).                   *)
ReadsInside == \A i \in reads : i < Table.Size
MemorySafe == TypeOK /\ ReadsInside

(* Every entry delivered is in the table and is as long as it says, or as  *)
(* the caller says: a subtable holds at least its header; the fixed        *)
(* entries and the cursor stand at multiples of their size from the first. *)
Whole(e) == Table.Valid /\ e.Offset + e.Size <= Table.Size
Nth(i) == walked[1].Offset + (i - 1) * EntrySize

EntriesExact ==
  /\ \A i \in 1 .. Len(walked) : Whole(walked[i])
  /\ Walker = "subtable" =>
       \A i \in 1 .. Len(walked) :
         /\ walked[i].Size = LengthAt(Table, walked[i].Offset)
         /\ walked[i].Size >= HeaderSize
  /\ Walker = "fixed" /\ walked # << >> =>
       /\ \A i \in 1 .. Len(walked) : walked[i].Offset = Nth(i)
       /\ Position = Nth(Len(walked) + 1)

(* Why nothing can be delivered at o.                                      *)
CannotWalk == Null \/ Start > Table.Size \/ (Walker = "fixed" /\ EntrySize = 0)
HeaderThere(o) == Table.Valid /\ o + HeaderSize <= Table.Size

Refusal(o, status) ==
  \/ status = "InvalidArgument" /\ CannotWalk
  \/ status = "End" /\ ~CannotWalk /\ o = Table.Size
  \/ /\ status = "TruncatedData" /\ Walker = "fixed"
     /\ ~CannotWalk /\ o # Table.Size
     /\ ~Table.Valid \/ o + EntrySize > Table.Size
  \/ /\ Walker = "subtable" /\ ~CannotWalk /\ o # Table.Size
     /\ \/ status = "TruncatedHeader" /\ ~HeaderThere(o)
        \/ /\ status = "InvalidLength"
           /\ HeaderThere(o) /\ LengthAt(Table, o) < HeaderSize
        \/ /\ status = "TruncatedData"
           /\ HeaderThere(o) /\ LengthAt(Table, o) >= HeaderSize
           /\ o + LengthAt(Table, o) > Table.Size

(* The verdict on the walk is the one the bytes at the cursor deserve.     *)
VerdictExact == verdict # "open" => Refusal(Position, verdict)

(* Calling again after the walk is over gives the same answer, whatever    *)
(* the failing call left in the cursor: no walk resumes or starts over.    *)
VerdictRepeats == [][verdict # "open" => Status' = verdict]_vars

(* Read through the sentinel, the cursor only moves forward over adjacent, *)
(* non-empty entries of the table: it never comes back to 0, not even by   *)
(* wrapping at SIZE_MAX, so every walk ends.                               *)
Stream == INSTANCE RecordStream WITH
  limit   <- Table.Size,
  cursor  <- Position,
  records <- walked,
  verdict <- verdict

ImplementsStream == Stream!Spec

=============================================================================
