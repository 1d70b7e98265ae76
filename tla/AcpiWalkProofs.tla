--------------------------- MODULE AcpiWalkProofs ---------------------------
(***************************************************************************)
(* The ACPI walkers never read outside the table, deliver exact entries,   *)
(* give the verdict the bytes deserve and give it again when called again, *)
(* and implement RecordStream: for every table, start, entry size, cursor, *)
(* SIZE_MAX and header size.                                               *)
(*                                                                         *)
(* The invariant is the conjunction of the checked ones.  VerdictExact     *)
(* carries VerdictRepeats: a call at a cursor that deserves a status       *)
(* returns it, at most one status is deserved, and a call that fails keeps *)
(* Position, although it may write the cursor.                             *)
(***************************************************************************)
EXTENDS AcpiWalk, TLAPS

IInv == TypeOK /\ ReadsInside /\ EntriesExact /\ VerdictExact

-----------------------------------------------------------------------------
(* The primitives: buffers and size_t arithmetic.                          *)
(* A read, in bounds or not, gives a natural number.                       *)
LEMMA ByteType ==
  ASSUME NEW n \in Nat, NEW t \in Buffer(n), NEW i
  PROVE  ByteAt(t, i) \in Nat
<1>1. t.Size = n /\ t.Data \in [0 .. n-1 -> Byte]
  BY DEF Buffer
<1>2. CASE i \in 0 .. n-1
  BY <1>1, <1>2, FirmwareAssumption DEF ByteAt
<1>3. CASE ~(i \in 0 .. n-1)
  BY <1>1, <1>3 DEF ByteAt
<1> QED
  BY <1>2, <1>3

(* An addition that stays below SizeMax does not wrap.                     *)
LEMMA PlusFits ==
  ASSUME NEW a \in Nat, NEW b \in Nat, a + b <= SizeMax
  PROVE  Plus(a, b) = a + b
  BY DEF Plus

(* The check of FirmwareBuffer_Get, written without an addition, says that *)
(* the range lies inside the buffer; nothing in it wraps.                  *)
LEMMA GetFits ==
  ASSUME NEW t, NEW o \in Nat, NEW n \in Nat, t.Size \in Nat
  PROVE  FirmwareBuffer_Get(t, o, n) <=> t.Valid /\ o + n <= t.Size
  BY DEF FirmwareBuffer_Get

-----------------------------------------------------------------------------
LEMMA ArgumentFacts ==
  ASSUME TypeOK
  PROVE  /\ Table.Size \in 0 .. SizeMax
         /\ Table \in Buffer(Table.Size)
         /\ SizeMax \in Nat
         /\ HeaderSize \in Nat /\ HeaderSize >= 2
         /\ Start \in Nat /\ EntrySize \in Nat
         /\ Position \in 0 .. SizeMax
         /\ Walker \in {"subtable", "fixed"}
<1>1. /\ IsTable(Table) /\ Start \in 0 .. SizeMax /\ EntrySize \in 0 .. SizeMax
      /\ Offset \in 0 .. SizeMax /\ Walker \in {"subtable", "fixed"}
  BY DEF TypeOK, Call
<1> QED
  BY <1>1, FirmwareAssumption, HeaderAssumption DEF IsTable, Position

(* After the header check the length byte can be read.                     *)
LEMMA HeaderFacts ==
  ASSUME TypeOK, HasHeader
  PROVE  /\ HeaderThere(Position)
         /\ Position + 1 < Table.Size
         /\ Plus(Position, 1) = Position + 1
         /\ Length = LengthAt(Table, Position)
         /\ Length \in Nat
<1>1. Table.Valid /\ Position + HeaderSize <= Table.Size
  BY ArgumentFacts, GetFits DEF HasHeader
<1>2. Position + 1 < Table.Size
  BY <1>1, ArgumentFacts
<1>3. Plus(Position, 1) = Position + 1
  BY <1>2, ArgumentFacts, PlusFits
<1>4. Length \in Nat
  BY ArgumentFacts, ByteType DEF Length
<1> QED
  BY <1>1, <1>2, <1>3, <1>4 DEF HeaderThere, Length, LengthAt

(* At most one verdict is deserved, and none where an entry can be         *)
(* delivered.                                                              *)
LEMMA RefusalUnique ==
  ASSUME TypeOK, NEW o \in Nat, NEW s, NEW t, Refusal(o, s), Refusal(o, t)
  PROVE  s = t
<1>1. /\ HeaderSize \in Nat /\ Table.Size \in Nat /\ LengthAt(Table, o) \in Nat
      /\ Walker \in {"subtable", "fixed"}
  BY ArgumentFacts, ByteType DEF LengthAt
<1> QED
  BY <1>1 DEF Refusal

LEMMA SubtableNotRefused ==
  ASSUME TypeOK, AcpiNextSubtable
  PROVE  \A s : ~Refusal(Position, s)
<1>1. HeaderThere(Position) /\ Length = LengthAt(Table, Position) /\ Length \in Nat
  BY HeaderFacts DEF AcpiNextSubtable
<1>2. Position + Length <= Table.Size
  BY <1>1, ArgumentFacts, GetFits DEF AcpiNextSubtable, LengthFits
<1>3. HeaderSize \in Nat /\ Length >= HeaderSize
  BY <1>1, ArgumentFacts DEF AcpiNextSubtable, TooShort
<1> QED
  BY <1>1, <1>2, <1>3, ArgumentFacts
     DEF AcpiNextSubtable, Subtable, BadArgument, CannotWalk, Refusal

LEMMA FixedNotRefused ==
  ASSUME TypeOK, AcpiNextFixedEntry
  PROVE  \A s : ~Refusal(Position, s)
<1>1. Table.Valid /\ Position + EntrySize <= Table.Size
  BY ArgumentFacts, GetFits DEF AcpiNextFixedEntry, EntryFits
<1> QED
  BY <1>1, ArgumentFacts
     DEF AcpiNextFixedEntry, Fixed, BadArgument, CannotWalk, Refusal

-----------------------------------------------------------------------------
LEMMA InitIInv == Init => IInv
<1> SUFFICES ASSUME Init PROVE IInv
  OBVIOUS
<1>1. Call([ Walker |-> Walker, Null |-> Null, Table |-> Table,
             Start |-> Start, EntrySize |-> EntrySize ])
  BY CallerAssumption DEF Init, Call
<1>2. Offset \in 0 .. SizeMax
  BY CallerAssumption DEF Init
<1>3. TypeOK
  BY <1>1, <1>2 DEF Init, TypeOK, Statuses
<1> QED
  BY <1>3 DEF Init, IInv, ReadsInside, EntriesExact, VerdictExact

(* Every way to fail: the arguments Return gets.  A failing call keeps     *)
(* Position whether it writes the cursor or not.                           *)
Failing(s, offset, r) ==
  /\ Return(s, offset, r)
  /\ s \in Statuses \ {"Success"}
  /\ offset \in {Offset, CursorKept}
  /\ r \in SUBSET Nat
  /\ \A i \in r : i < Table.Size
  /\ Refusal(Position, s)

LEMMA FailKeepsPosition ==
  ASSUME TypeOK, NEW s, NEW offset, NEW r, Failing(s, offset, r)
  PROVE  Position' = Position /\ Offset' \in 0 .. SizeMax
<1>1. Offset' = offset /\ Start' = Start
  BY DEF Failing, Return, args
<1>2. CASE offset = Offset
  BY <1>1, <1>2 DEF TypeOK, Position
<1>3. CASE offset = Position
  BY <1>1, <1>3, ArgumentFacts DEF Position
<1> QED
  BY <1>2, <1>3 DEF Failing, CursorKept

LEMMA FailIInv ==
  ASSUME IInv, NEW s, NEW offset, NEW r, Failing(s, offset, r)
  PROVE  IInv'
<1>1. /\ Position' = Position /\ Offset' \in 0 .. SizeMax
  BY FailKeepsPosition DEF IInv
<1>2. /\ UNCHANGED <<Walker, Null, Table, Start, EntrySize, walked>>
      /\ Status' = s /\ reads' = r
      /\ verdict' = IF verdict = "open" THEN s ELSE verdict
      /\ s \in Statuses /\ r \in SUBSET Nat /\ \A i \in r : i < Table.Size
      /\ Refusal(Position, s)
  BY DEF Failing, Return, args
<1>3. TypeOK'
  <2>1. /\ Call([ Walker |-> Walker, Null |-> Null, Table |-> Table,
                  Start |-> Start, EntrySize |-> EntrySize ])'
    BY <1>2 DEF IInv, TypeOK, Call
  <2> QED
    BY <1>1, <1>2, <2>1 DEF IInv, TypeOK
<1>4. ReadsInside'
  BY <1>2 DEF ReadsInside
<1>5. EntriesExact'
  BY <1>1, <1>2 DEF IInv, EntriesExact, Whole, Nth
<1>6. VerdictExact'
  <2>1. Refusal(Position, verdict')
    BY <1>2 DEF IInv, VerdictExact
  <2>2. Refusal(Position, verdict')  = Refusal(Position', verdict')
    BY <1>1
  <2> QED
    BY <1>1, <1>2, <2>1
       DEF VerdictExact, Refusal, CannotWalk, HeaderThere, LengthAt
<1> QED
  BY <1>3, <1>4, <1>5, <1>6 DEF IInv

(* Which calls fail, each with the status its bytes deserve.               *)
LEMMA InvalidArgumentFails ==
  ASSUME IInv, InvalidArgument
  PROVE  Failing("InvalidArgument", Offset, {})
  BY DEF InvalidArgument, Failing, Statuses, Refusal, BadArgument, CannotWalk

LEMMA AtEndFails ==
  ASSUME IInv, AtEnd
  PROVE  Failing("End", CursorKept, {})
  BY DEF AtEnd, Failing, Statuses, Refusal, BadArgument, CannotWalk

LEMMA NoHeaderFails ==
  ASSUME IInv, NoHeader
  PROVE  Failing("TruncatedHeader", CursorKept, {})
<1>1. ~HeaderThere(Position)
  BY ArgumentFacts, GetFits DEF IInv, NoHeader, HasHeader, HeaderThere
<1> QED
  BY <1>1 DEF NoHeader, Subtable, Failing, Statuses, Refusal, BadArgument, CannotWalk

LEMMA LengthReadSafe ==
  ASSUME TypeOK, HasHeader
  PROVE  LengthRead \in SUBSET Nat /\ \A i \in LengthRead : i < Table.Size
  BY HeaderFacts, ArgumentFacts DEF LengthRead

LEMMA ShortLengthFails ==
  ASSUME IInv, ShortLength
  PROVE  Failing("InvalidLength", CursorKept, LengthRead)
<1>1. TypeOK /\ HasHeader /\ Length < HeaderSize
  BY DEF IInv, ShortLength, TooShort
<1>2. Refusal(Position, "InvalidLength")
  BY <1>1, HeaderFacts DEF ShortLength, Subtable, Refusal, BadArgument, CannotWalk
<1> QED
  BY <1>1, <1>2, LengthReadSafe DEF ShortLength, Failing, Statuses

LEMMA LongLengthFails ==
  ASSUME IInv, LongLength
  PROVE  Failing("TruncatedData", CursorKept, LengthRead)
<1>1. TypeOK /\ HasHeader
  BY DEF IInv, LongLength
<1>2. /\ HeaderThere(Position) /\ Length = LengthAt(Table, Position)
      /\ Length \in Nat /\ HeaderSize \in Nat /\ Length >= HeaderSize
  BY <1>1, HeaderFacts, ArgumentFacts DEF LongLength, TooShort
<1>3. Position + Length > Table.Size
  BY <1>1, <1>2, ArgumentFacts, GetFits DEF LongLength, LengthFits, HeaderThere
<1>4. Refusal(Position, "TruncatedData")
  BY <1>2, <1>3 DEF LongLength, Subtable, Refusal, BadArgument, CannotWalk
<1> QED
  BY <1>1, <1>4, LengthReadSafe DEF LongLength, Failing, Statuses

LEMMA NoEntryFails ==
  ASSUME IInv, NoEntry
  PROVE  Failing("TruncatedData", CursorKept, {})
<1>1. ~Table.Valid \/ Position + EntrySize > Table.Size
  BY ArgumentFacts, GetFits DEF IInv, NoEntry, EntryFits
<1> QED
  BY <1>1 DEF NoEntry, Fixed, Failing, Statuses, Refusal, BadArgument, CannotWalk

Fails == \E s, offset, r : Failing(s, offset, r)

LEMMA NextCases ==
  ASSUME IInv, Next
  PROVE  Fails \/ AcpiNextSubtable \/ AcpiNextFixedEntry
  BY InvalidArgumentFails, AtEndFails, NoHeaderFails, ShortLengthFails,
     LongLengthFails, NoEntryFails DEF Next, Fails

-----------------------------------------------------------------------------
(* Every way to deliver: a non-empty entry that lies inside the table and  *)
(* is the one its walker describes.  The sum that moves the cursor does    *)
(* not wrap, so the cursor is not 0 afterwards.                            *)
Delivering(size, r) ==
  /\ Deliver(size, r)
  /\ size \in Nat /\ size > 0
  /\ Table.Valid
  /\ Position + size <= Table.Size
  /\ r \in SUBSET Nat
  /\ \A i \in r : i < Table.Size
  /\ Walker = "subtable" => size = LengthAt(Table, Position) /\ size >= HeaderSize
  /\ Walker = "fixed" => size = EntrySize
  /\ \A s : ~Refusal(Position, s)

LEMMA SubtableDelivers ==
  ASSUME TypeOK, AcpiNextSubtable
  PROVE  Delivering(Length, LengthRead)
<1>1. /\ HeaderThere(Position) /\ Length = LengthAt(Table, Position)
      /\ Length \in Nat
  BY HeaderFacts DEF AcpiNextSubtable
<1>2. Table.Valid /\ Position + Length <= Table.Size
  BY <1>1, ArgumentFacts, GetFits DEF AcpiNextSubtable, LengthFits
<1>3. Length >= HeaderSize /\ Length > 0
  BY <1>1, ArgumentFacts DEF AcpiNextSubtable, TooShort
<1>4. Walker = "subtable"
  BY DEF AcpiNextSubtable, Subtable
<1>5. LengthRead \in SUBSET Nat /\ \A i \in LengthRead : i < Table.Size
  BY LengthReadSafe DEF AcpiNextSubtable
<1> QED
  BY <1>1, <1>2, <1>3, <1>4, <1>5, SubtableNotRefused
     DEF AcpiNextSubtable, Delivering

LEMMA FixedDelivers ==
  ASSUME TypeOK, AcpiNextFixedEntry
  PROVE  Delivering(EntrySize, {})
<1>1. Table.Valid /\ Position + EntrySize <= Table.Size
  BY ArgumentFacts, GetFits DEF AcpiNextFixedEntry, EntryFits
<1>2. EntrySize \in Nat /\ EntrySize > 0 /\ Walker = "fixed"
  BY ArgumentFacts DEF AcpiNextFixedEntry, Fixed, BadArgument
<1> QED
  BY <1>1, <1>2, FixedNotRefused DEF AcpiNextFixedEntry, Delivering

Delivers == \E size, r : Delivering(size, r)

LEMMA DeliverFacts ==
  ASSUME TypeOK, NEW size, NEW r, Delivering(size, r)
  PROVE  /\ Offset' = Position + size
         /\ Offset' \in 0 .. SizeMax
         /\ Position' = Position + size
         /\ UNCHANGED <<Walker, Null, Table, Start, EntrySize, verdict>>
<1>1. /\ Position \in Nat /\ size \in Nat /\ size > 0
      /\ Position + size <= SizeMax /\ SizeMax \in Nat
  BY ArgumentFacts DEF Delivering
<1>2. Offset' = Position + size /\ Offset' \in 0 .. SizeMax
  BY <1>1, PlusFits DEF Delivering, Deliver
<1>3. Position' = Offset'
  BY <1>1, <1>2 DEF Position
<1> QED
  BY <1>2, <1>3 DEF Delivering, Deliver, args

LEMMA DeliverIInv ==
  ASSUME IInv, NEW size, NEW r, Delivering(size, r)
  PROVE  IInv'
<1> DEFINE e == [Offset |-> Position, Size |-> size, Final |-> FALSE]
           n == Len(walked)
<1>1. /\ Offset' = Position + size /\ Offset' \in 0 .. SizeMax
      /\ Position' = Position + size
      /\ UNCHANGED <<Walker, Null, Table, Start, EntrySize, verdict>>
  BY DeliverFacts DEF IInv
<1>2. /\ Status' = "Success" /\ reads' = r /\ walked' = Append(walked, e)
      /\ size \in Nat /\ r \in SUBSET Nat /\ \A i \in r : i < Table.Size
  BY DEF Delivering, Deliver
<1>3. /\ walked \in Seq(Entry) /\ Position \in Nat /\ EntrySize \in Nat
      /\ Walker \in {"subtable", "fixed"}
  BY ArgumentFacts DEF IInv, TypeOK
<1>4. e \in Entry
  BY <1>2, <1>3 DEF Entry
<1>5. /\ n \in Nat /\ Len(walked') = n + 1
      /\ walked'[n + 1] = e
      /\ \A i \in 1 .. n : walked'[i] = walked[i]
  BY <1>2, <1>3, <1>4
<1>6. TypeOK'
  <2>1. walked' \in Seq(Entry)
    BY <1>2, <1>3, <1>4
  <2>2. /\ Call([ Walker |-> Walker, Null |-> Null, Table |-> Table,
                  Start |-> Start, EntrySize |-> EntrySize ])'
    BY <1>1 DEF IInv, TypeOK, Call
  <2>3. reads' \subseteq Nat /\ Status' \in Statuses
        /\ verdict' \in Statuses \cup {"open"}
    BY <1>1, <1>2 DEF IInv, TypeOK, Statuses
  <2> QED
    BY <1>1, <2>1, <2>2, <2>3 DEF TypeOK
<1>7. ReadsInside'
  BY <1>1, <1>2 DEF ReadsInside
<1>8. EntriesExact'
  <2>1. \A i \in 1 .. n + 1 :
          Table'.Valid /\ walked'[i].Offset + walked'[i].Size <= Table'.Size
    <3>1. Table'.Valid /\ e.Offset + e.Size <= Table'.Size
      BY <1>1 DEF Delivering
    <3>2. \A i \in 1 .. n :
            Table'.Valid /\ walked[i].Offset + walked[i].Size <= Table'.Size
      BY <1>1 DEF IInv, EntriesExact, Whole
    <3> QED
      BY <1>5, <3>1, <3>2
  <2>2. ASSUME Walker' = "subtable"
        PROVE  \A i \in 1 .. n + 1 :
                 /\ walked'[i].Size = LengthAt(Table', walked'[i].Offset)
                 /\ walked'[i].Size >= HeaderSize
    <3>1. e.Size = LengthAt(Table', e.Offset) /\ e.Size >= HeaderSize
      BY <1>1, <2>2 DEF Delivering
    <3>2. \A i \in 1 .. n :
            /\ walked[i].Size = LengthAt(Table', walked[i].Offset)
            /\ walked[i].Size >= HeaderSize
      BY <1>1, <2>2 DEF IInv, EntriesExact
    <3> QED
      BY <1>5, <3>1, <3>2
  <2>3. ASSUME Walker' = "fixed"
        PROVE  /\ \A i \in 1 .. n + 1 :
                    walked'[i].Offset = walked'[1].Offset + (i - 1) * EntrySize'
               /\ Position' = walked'[1].Offset + (n + 1) * EntrySize'
    <3>1. size = EntrySize /\ EntrySize' = EntrySize
      BY <1>1, <2>3 DEF Delivering
    <3>2. CASE n = 0
      BY <1>1, <1>3, <1>5, <3>1, <3>2
    <3>3. CASE n # 0
      <4> DEFINE f == walked[1].Offset
      <4>1. walked # << >> /\ 1 \in 1 .. n
        BY <1>3, <1>5, <3>3
      <4>2. f \in Nat
        <5>1. walked[1] \in Entry
          BY <1>3, <4>1
        <5> QED
          BY <5>1 DEF Entry
      <4>3. /\ \A i \in 1 .. n : walked[i].Offset = f + (i - 1) * EntrySize
            /\ Position = f + n * EntrySize
        BY <1>1, <1>3, <1>5, <2>3, <4>1 DEF IInv, EntriesExact, Nth
      <4>4. Position + EntrySize = f + (n + 1) * EntrySize
        BY <1>3, <1>5, <4>2, <4>3
      <4>5. walked'[1].Offset = f
        BY <1>5, <4>1
      <4> QED
        BY <1>1, <1>5, <3>1, <4>3, <4>4, <4>5
    <3> QED
      BY <3>2, <3>3
  <2> QED
    BY <1>5, <2>1, <2>2, <2>3 DEF EntriesExact, Whole, Nth
<1>9. VerdictExact'
  <2>1. verdict = "open"
    BY DEF Delivering, IInv, VerdictExact
  <2> QED
    BY <1>1, <2>1 DEF VerdictExact
<1> QED
  BY <1>6, <1>7, <1>8, <1>9 DEF IInv

LEMMA NextIInv == IInv /\ [Next]_vars => IInv'
<1> SUFFICES ASSUME IInv, [Next]_vars PROVE IInv'
  OBVIOUS
<1>1. CASE Next
  BY <1>1, NextCases, FailIInv, DeliverIInv, SubtableDelivers, FixedDelivers
     DEF Fails, IInv
<1>2. CASE UNCHANGED vars
  BY <1>2 DEF vars, args, IInv, TypeOK, Call, ReadsInside, EntriesExact, Whole,
              Nth, VerdictExact, Refusal, CannotWalk, HeaderThere, LengthAt,
              Position
<1> QED
  BY <1>1, <1>2

-----------------------------------------------------------------------------
(* The variables keep their types: no sum that moves the cursor leaves     *)
(* size_t.                                                                 *)
THEOREM AcpiTypeCorrect == Spec => []TypeOK
<1>1. IInv => TypeOK
  BY DEF IInv
<1> QED
  BY InitIInv, NextIInv, <1>1, PTL DEF Spec

(* No call of either walker reads past the table.                          *)
THEOREM AcpiNeverReadsOutside == Spec => []MemorySafe
<1>1. IInv => MemorySafe
  BY DEF IInv, MemorySafe
<1> QED
  BY InitIInv, NextIInv, <1>1, PTL DEF Spec

(* Subtables are as long as they say and fixed entries stand at multiples  *)
(* of their size.                                                          *)
THEOREM EntriesAreExact == Spec => []EntriesExact
<1>1. IInv => EntriesExact
  BY DEF IInv
<1> QED
  BY InitIInv, NextIInv, <1>1, PTL DEF Spec

(* The status that ends a walk is the one the bytes at the cursor deserve. *)
THEOREM AcpiVerdictsAreExact == Spec => []VerdictExact
<1>1. IInv => VerdictExact
  BY DEF IInv
<1> QED
  BY InitIInv, NextIInv, <1>1, PTL DEF Spec

(* A call after the end, or after an error, returns the same status again: *)
(* the cursor a failing call leaves is good for that, 0 or not.            *)
THEOREM VerdictsRepeat == Spec => VerdictRepeats
<1>1. ASSUME IInv, [Next]_vars
      PROVE  [verdict # "open" => Status' = verdict]_vars
  <2> SUFFICES ASSUME Next, verdict # "open" PROVE Status' = verdict
    BY <1>1
  <2>1. Refusal(Position, verdict) /\ TypeOK
    BY <1>1 DEF IInv, VerdictExact
  <2>2. Fails
    BY <1>1, <2>1, NextCases, SubtableNotRefused, FixedNotRefused
  <2>3. PICK s, offset, r : Failing(s, offset, r)
    BY <2>2 DEF Fails
  <2>4. Position \in Nat
    BY <2>1, ArgumentFacts
  <2>5. s = verdict
    BY <2>1, <2>3, <2>4, RefusalUnique DEF Failing
  <2> QED
    BY <2>3, <2>5 DEF Failing, Return
<1> QED
  BY InitIInv, NextIInv, <1>1, PTL DEF Spec, VerdictRepeats

-----------------------------------------------------------------------------
LEMMA NoneFinal == TypeOK => ~Stream!HasFinal
<1> SUFFICES ASSUME TypeOK PROVE ~Stream!HasFinal
  OBVIOUS
<1>1. walked \in Seq(Entry)
  BY DEF TypeOK
<1>2. walked # << >> => walked[Len(walked)] \in Entry
  BY <1>1
<1> QED
  BY <1>2 DEF Entry, Stream!HasFinal

LEMMA StepRefines == IInv /\ [Next]_vars => [Stream!Next]_(Stream!vars)
<1> SUFFICES ASSUME IInv, [Next]_vars PROVE [Stream!Next]_(Stream!vars)
  OBVIOUS
<1>1. ASSUME NEW size, NEW r, Delivering(size, r)
      PROVE  Stream!Deliver
  <2>1. verdict = "open"
    BY <1>1 DEF Delivering, IInv, VerdictExact
  <2>2. /\ Position' = Position + size /\ Table' = Table /\ verdict' = verdict
    BY <1>1, DeliverFacts DEF IInv
  <2>3. /\ size \in Nat /\ size > 0 /\ Position \in Nat /\ Table.Size \in Nat
        /\ Position + size <= Table.Size
    BY <1>1, ArgumentFacts DEF Delivering, IInv
  <2>4. Position' \in Position + 1 .. Table.Size /\ Position' - Position = size
    BY <2>2, <2>3
  <2>5. walked' = Append(walked, [ Offset |-> Position,
                                   Size   |-> Position' - Position,
                                   Final  |-> FALSE ])
    BY <1>1, <2>4 DEF Delivering, Deliver
  <2> QED
    BY <2>1, <2>2, <2>4, <2>5, NoneFinal DEF IInv, Stream!Deliver
<1>2. ASSUME NEW s, NEW offset, NEW r, Failing(s, offset, r)
      PROVE  Stream!Stop \/ UNCHANGED Stream!vars
  <2>1. Position' = Position /\ Table' = Table /\ walked' = walked
    BY <1>2, FailKeepsPosition DEF IInv, Failing, Return, args
  <2>2. CASE verdict # "open"
    BY <1>2, <2>1, <2>2 DEF Failing, Return, Stream!vars
  <2>3. CASE verdict = "open"
    <3>1. verdict' = s /\ s # "open"
      BY <1>2, <2>3 DEF Failing, Return, Statuses
    <3>2. s = "End" => Position = Table.Size
      BY <1>2 DEF Failing, Refusal
    <3> QED
      BY <2>1, <2>3, <3>1, <3>2, NoneFinal DEF IInv, Stream!Stop
  <2> QED
    BY <2>2, <2>3
<1>3. CASE Next
  BY <1>1, <1>2, <1>3, NextCases, SubtableDelivers, FixedDelivers
     DEF Fails, IInv, Stream!Next
<1>4. CASE UNCHANGED vars
  BY <1>4 DEF vars, args, Position, Stream!vars
<1> QED
  BY <1>3, <1>4

(* Both walkers implement the abstract stream: the cursor, read through    *)
(* the sentinel, moves forward over adjacent entries and never restarts.   *)
THEOREM AcpiWalkImplementsStream == Spec => ImplementsStream
<1>1. Init => Stream!Init
  BY InitIInv, ArgumentFacts DEF Init, IInv, Stream!Init
<1> QED
  BY InitIInv, NextIInv, StepRefines, <1>1, PTL
     DEF Spec, ImplementsStream, Stream!Spec

=============================================================================
