----------------------- MODULE SmbiosAgreementProofs -----------------------
(***************************************************************************)
(* The native walker never reads outside the table, its View is exact, its *)
(* verdict is the one the bytes deserve, and it implements RecordStream.   *)
(* The managed parser never throws, is all or nothing, refuses for the     *)
(* right reason and gives the walker's answer.  All this for every table,  *)
(* every envelope, every byte value, every SIZE_MAX and int.MaxValue and   *)
(* every header size.                                                      *)
(*                                                                         *)
(* The first half is about Spec, the walker alone.  Its invariant IInv is  *)
(* the conjunction of the checked ones and ScanInv.  That the double NUL   *)
(* found is the first one, and that MissingTerminator is returned only     *)
(* when there is none, needs ScanInv: what the scan has passed over.       *)
(*                                                                         *)
(* The second half is about BothSpec, the walker and then the parser on    *)
(* the same bytes.  It has three layers: ManagedInv is about the parser    *)
(* alone and follows the argument for the walker; Chained is about the     *)
(* structures of the walker; Follows relates the two.  Follows is where    *)
(* the induction over the structures is: the parser runs after the walker  *)
(* and adds one structure at a time, so its list is, after every step, the *)
(* beginning of the list of the walker.                                    *)
(***************************************************************************)
EXTENDS SmbiosAgreement, SequenceTheorems, TLAPS

IInv == TypeOK /\ ReadsInside /\ ScanInv /\ ViewExact /\ VerdictExact

-----------------------------------------------------------------------------
(* The primitives: buffers and size_t arithmetic.                          *)
(* A read, in bounds or not, gives a natural number.                       *)
LEMMA ByteType ==
  ASSUME NEW n \in Nat, NEW t \in Buffer(n), NEW i
  PROVE  ByteAt(t, i) \in Nat
<1>1. t.Size = n /\ t.Data \in [0 .. n-1 -> Byte]
  BY DEF Buffer
<1>2. CASE i \in 0 .. n-1
  BY <1>1, <1>2, FirmwareAssumption DEF ByteAt
<1>3. CASE ~(i \in 0 .. n-1)
  BY <1>1, <1>3 DEF ByteAt
<1> QED
  BY <1>2, <1>3

(* An addition that stays below SizeMax does not wrap.                     *)
LEMMA PlusFits ==
  ASSUME NEW a \in Nat, NEW b \in Nat, a + b <= SizeMax
  PROVE  Plus(a, b) = a + b
  BY DEF Plus

(* The check of FirmwareBuffer_Get, written without an addition, says that *)
(* the range lies inside the buffer; nothing in it wraps.                  *)
LEMMA GetFits ==
  ASSUME NEW t, NEW o \in Nat, NEW n \in Nat, t.Size \in Nat
  PROVE  FirmwareBuffer_Get(t, o, n) <=> t.Valid /\ o + n <= t.Size
  BY DEF FirmwareBuffer_Get

-----------------------------------------------------------------------------
(* The table is a buffer whose size a size_t can hold.                     *)
LEMMA TableFacts ==
  ASSUME TypeOK
  PROVE  /\ Table.Size \in 0 .. SizeMax
         /\ Table \in Buffer(Table.Size)
         /\ SizeMax \in Nat
         /\ HeaderSize \in Nat
         /\ HeaderSize >= 2
  BY FirmwareAssumption, HeaderAssumption DEF TypeOK, IsTable

(* After the header check the length byte can be read.                     *)
LEMMA HeaderFacts ==
  ASSUME TypeOK, GotHeader
  PROVE  /\ HasHeader(Table, Offset)
         /\ Offset + 1 < Table.Size
         /\ Plus(Offset, 1) = Offset + 1
         /\ Length \in Nat
<1>1. Offset \in 0 .. SizeMax
  BY DEF TypeOK
<1>2. Offset + HeaderSize <= Table.Size /\ Table.Valid
  BY <1>1, TableFacts, GetFits DEF GotHeader
<1>3. Length \in Nat
  BY TableFacts, ByteType DEF Length, LengthAt
<1>4. Offset + 1 < Table.Size
  BY <1>1, <1>2, TableFacts
<1>5. Plus(Offset, 1) = Offset + 1
  BY <1>1, <1>4, TableFacts, PlusFits
<1> QED
  BY <1>2, <1>3, <1>4, <1>5 DEF HasHeader

-----------------------------------------------------------------------------
LEMMA InitIInv == Init => IInv
<1> SUFFICES ASSUME Init PROVE IInv
  OBVIOUS
<1>1. TypeOK
  <2>1. NoView \in Views
    BY DEF NoView, Views, Region
  <2>2. << >> \in Seq(Structure)
    OBVIOUS
  <2>3. 0 \in 0 .. SizeMax
    BY FirmwareAssumption
  <2> QED
    BY <2>1, <2>2, <2>3, WalkAssumption DEF Init, TypeOK, Statuses
<1> QED
  BY <1>1 DEF IInv, Init, ReadsInside, ScanInv, ViewExact, VerdictExact

(* A call that does not succeed keeps everything but the verdict: it needs *)
(* reads in bounds and the status that the bytes deserve.                  *)
LEMMA ReturnIInv ==
  ASSUME NEW s \in Statuses, NEW r \in SUBSET Nat, IInv, Return(s, r),
         \A i \in r : i < Table.Size,
         s = "InvalidArgument" \/ Refusal(Table, Offset, s)
  PROVE  IInv'
<1>1. TypeOK'
  BY DEF IInv, TypeOK, Return
<1>2. ReadsInside' /\ ScanInv'
  BY DEF Return, ReadsInside, ScanInv
<1>3. ViewExact'
  BY DEF IInv, ViewExact, Return
<1>4. VerdictExact'
  BY DEF Return, VerdictExact
<1> QED
  BY <1>1, <1>2, <1>3, <1>4 DEF IInv

(* One step per action of SmbiosNextStructure.                             *)
LEMMA NullArgumentIInv == IInv /\ NullArgument => IInv'
  BY ReturnIInv DEF NullArgument, Statuses

LEMMA AtEndIInv == IInv /\ AtEnd => IInv'
  BY ReturnIInv DEF AtEnd, Statuses, Refusal

LEMMA NoHeaderIInv == IInv /\ NoHeader => IInv'
<1> SUFFICES ASSUME IInv, NoHeader PROVE IInv'
  OBVIOUS
<1>1. ~HasHeader(Table, Offset)
  BY TableFacts, GetFits DEF NoHeader, HasHeader, IInv, TypeOK
<1> QED
  BY <1>1, ReturnIInv DEF NoHeader, Statuses, Refusal

LEMMA LengthReadSafe ==
  ASSUME TypeOK, GotHeader
  PROVE  LengthRead \in SUBSET Nat /\ \A i \in LengthRead : i < Table.Size
  BY HeaderFacts DEF LengthRead, TypeOK

LEMMA ShortLengthIInv == IInv /\ ShortLength => IInv'
<1> SUFFICES ASSUME IInv, ShortLength PROVE IInv'
  OBVIOUS
<1>1. HasHeader(Table, Offset)
  BY HeaderFacts DEF ShortLength, IInv
<1>2. Refusal(Table, Offset, "InvalidLength")
  BY <1>1 DEF ShortLength, Refusal, Length
<1> QED
  BY <1>2, ReturnIInv, LengthReadSafe DEF ShortLength, Statuses, IInv

LEMMA LongLengthIInv == IInv /\ LongLength => IInv'
<1> SUFFICES ASSUME IInv, LongLength PROVE IInv'
  OBVIOUS
<1>1. HasHeader(Table, Offset) /\ Length \in Nat /\ Offset \in Nat
  BY HeaderFacts DEF LongLength, IInv, TypeOK
<1>2. ~HasFormatted(Table, Offset)
  BY <1>1, TableFacts, GetFits DEF LongLength, HasFormatted, HasHeader, Length, IInv
<1>3. Refusal(Table, Offset, "TruncatedData")
  BY <1>1, <1>2 DEF LongLength, Refusal, Length
<1> QED
  BY <1>3, ReturnIInv, LengthReadSafe DEF LongLength, Statuses, IInv

LEMMA BeginScanIInv == IInv /\ BeginScan => IInv'
<1> SUFFICES ASSUME IInv, BeginScan PROVE IInv'
  OBVIOUS
<1>1. /\ HasHeader(Table, Offset) /\ Length \in Nat /\ Offset \in Nat
      /\ Table.Size \in Nat /\ Table.Size <= SizeMax /\ SizeMax \in Nat
  BY HeaderFacts, TableFacts DEF BeginScan, IInv, TypeOK
<1>2. Offset + Length <= Table.Size
  BY <1>1, GetFits DEF BeginScan
<1>3. End' = Offset + Length
  BY <1>1, <1>2, PlusFits DEF BeginScan, ScanStart
<1>4. LengthRead \in SUBSET Nat /\ \A i \in LengthRead : i < Table.Size
  BY LengthReadSafe DEF BeginScan, IInv
<1>5. TypeOK'
  BY <1>1, <1>2, <1>3, <1>4 DEF BeginScan, IInv, TypeOK
<1>6. ReadsInside'
  BY <1>4 DEF BeginScan, ReadsInside
<1>7. HasFormatted(Table, Offset)
  BY <1>1, <1>2 DEF BeginScan, HasFormatted, Length
<1>8. ScanInv'
  BY <1>1, <1>2, <1>3, <1>7 DEF BeginScan, ScanInv, Length
<1>9. ViewExact'
  BY DEF BeginScan, IInv, ViewExact
<1>10. VerdictExact'
  BY DEF BeginScan, VerdictExact
<1> QED
  BY <1>5, <1>6, <1>8, <1>9, <1>10 DEF IInv

(* What a scan step knows: the position is in the table, so that neither   *)
(* it nor the two positions after it wrap.                                 *)
LEMMA ScanFacts ==
  ASSUME IInv, Scanning, MoreToScan
  PROVE  /\ Offset \in Nat /\ Length \in Nat /\ Length >= 2
         /\ Table.Size \in Nat /\ Table.Size <= SizeMax /\ SizeMax \in Nat
         /\ HasFormatted(Table, Offset)
         /\ End \in Offset + Length .. Table.Size - 1
         /\ Plus(End, 1) = End + 1
         /\ StringStart = Offset + Length
<1>1. /\ Offset \in Nat /\ Table.Size \in Nat /\ Table.Size <= SizeMax
      /\ SizeMax \in Nat /\ HeaderSize \in Nat /\ HeaderSize >= 2
  BY TableFacts DEF IInv, TypeOK
<1>2. Length \in Nat
  BY TableFacts, ByteType DEF Length, LengthAt, IInv
<1>3. HasFormatted(Table, Offset)
  BY DEF IInv, ScanInv, Scanning
<1>4. Length >= 2 /\ Offset + Length <= Table.Size
  BY <1>1, <1>2, <1>3 DEF HasFormatted, Length
<1>5. End \in Offset + Length .. Table.Size - 1
  BY <1>1, <1>2 DEF IInv, ScanInv, Scanning, MoreToScan
<1>6. Plus(End, 1) = End + 1
  BY <1>1, <1>2, <1>5, PlusFits
<1>7. StringStart = Offset + Length
  BY <1>1, <1>2, <1>4, PlusFits DEF StringStart
<1> QED
  BY <1>1, <1>2, <1>3, <1>4, <1>5, <1>6, <1>7

(* The test of the scan, short circuit included, is the definition of a    *)
(* terminator at the scan position.                                        *)
LEMMA DoubleNulIsTerminator ==
  ASSUME IInv, Scanning, MoreToScan
  PROVE  AtDoubleNul <=> Terminator(Table, Offset + Length, End)
<1>1. End \in Offset + Length .. Table.Size - 1 /\ Table.Size \in Nat
      /\ Offset + Length \in Nat /\ Plus(End, 1) = End + 1
  BY ScanFacts
<1>2. PairFits <=> End \in Offset + Length .. Table.Size - 2
  BY <1>1 DEF PairFits
<1> QED
  BY <1>1, <1>2 DEF AtDoubleNul, Terminator

LEMMA ScanReadsSafe ==
  ASSUME IInv, Scanning, MoreToScan
  PROVE  ScanReads \in SUBSET Nat /\ \A i \in ScanReads : i < Table.Size
<1>1. /\ End \in Nat /\ End < Table.Size /\ Table.Size \in Nat
      /\ Plus(End, 1) \in Nat
  BY ScanFacts
<1> QED
  BY <1>1 DEF ScanReads, PairFits

LEMMA ScanByteIInv == IInv /\ ScanByte => IInv'
<1> SUFFICES ASSUME IInv, ScanByte PROVE IInv'
  OBVIOUS
<1>1. Scanning /\ MoreToScan /\ ~AtDoubleNul
  BY DEF ScanByte
<1>2. /\ Offset + Length \in Nat /\ Table.Size \in Nat /\ Table.Size <= SizeMax
      /\ SizeMax \in Nat
      /\ End \in Offset + Length .. Table.Size - 1
      /\ End' = End + 1
  BY <1>1, ScanFacts DEF ScanByte, NextEnd
<1>3. ScanReads \in SUBSET Nat /\ \A i \in ScanReads : i < Table.Size
  BY <1>1, ScanReadsSafe
<1>4. TypeOK'
  BY <1>2, <1>3 DEF ScanByte, IInv, TypeOK
<1>5. ReadsInside'
  BY <1>3 DEF ScanByte, ReadsInside
<1>6. \A d \in Offset + Length .. End : ~Terminator(Table, Offset + Length, d)
  <2>1. ~Terminator(Table, Offset + Length, End)
    BY <1>1, DoubleNulIsTerminator
  <2>2. \A d \in Offset + Length .. End - 1 : ~Terminator(Table, Offset + Length, d)
    BY <1>1 DEF IInv, ScanInv, Scanning
  <2> QED
    BY <1>2, <2>1, <2>2
<1>7. ScanInv'
  BY <1>1, <1>2, <1>6 DEF ScanByte, ScanInv, IInv, Length, Scanning
<1>8. ViewExact'
  BY DEF ScanByte, IInv, ViewExact
<1>9. VerdictExact'
  BY DEF ScanByte, VerdictExact, Scanning
<1> QED
  BY <1>4, <1>5, <1>7, <1>8, <1>9 DEF IInv

(* The position found is the first terminator, so that the three sizes of  *)
(* the View are those of the structure there.                              *)
LEMMA FoundIInv == IInv /\ Found => IInv'
<1> SUFFICES ASSUME IInv, Found PROVE IInv'
  OBVIOUS
<1> DEFINE size == Plus(End, 2) - Offset
           rec  == [Offset |-> Offset, Size |-> size, Final |-> FALSE]
<1>1. Scanning /\ MoreToScan /\ AtDoubleNul
  BY DEF Found
<1>2. /\ Offset \in Nat /\ Length \in Nat /\ Length >= 2
      /\ Table.Size \in Nat /\ Table.Size <= SizeMax /\ SizeMax \in Nat
      /\ HasFormatted(Table, Offset)
      /\ StringStart = Offset + Length
  BY <1>1, ScanFacts
<1>3. Terminator(Table, Offset + Length, End)
  BY <1>1, DoubleNulIsTerminator
<1>4. End \in Nat /\ Offset + Length <= End /\ End + 2 <= Table.Size
  BY <1>2, <1>3 DEF Terminator
<1>5. Plus(End, 2) = End + 2
  BY <1>2, <1>4, PlusFits
<1>6. /\ size = End + 2 - Offset /\ size \in Nat
      /\ Plus(End, 2) - StringStart = End + 2 - (Offset + Length)
      /\ Plus(End, 2) - StringStart \in Nat
  BY <1>2, <1>4, <1>5
<1>7. /\ View' = [ Formatted |-> [Start |-> Offset, Size |-> Length],
                   Strings   |-> [ Start |-> StringStart,
                                   Size  |-> Plus(End, 2) - StringStart ],
                   Offset    |-> Offset,
                   TotalSize |-> size ]
      /\ walked' = Append(walked, rec)
      /\ Offset' = Plus(End, 2)
      /\ Table' = Table /\ pc' = "call" /\ Status' = "Success"
      /\ reads' = ScanReads /\ End' = End
  BY DEF Found, StringsSize, NextOffset
<1>8. ScanReads \in SUBSET Nat /\ \A i \in ScanReads : i < Table.Size
  BY <1>1, ScanReadsSafe
<1>9. walked \in Seq(Structure)
  BY DEF IInv, TypeOK
<1>10. TypeOK'
  <2>1. View' \in Views
    BY <1>2, <1>6, <1>7 DEF Views, Region
  <2>2. rec \in Structure
    BY <1>2, <1>6 DEF Structure
  <2>3. walked' \in Seq(Structure)
    BY <1>7, <1>9, <2>2
  <2>4. Offset' \in 0 .. SizeMax
    BY <1>2, <1>4, <1>5, <1>7
  <2> QED
    BY <1>7, <1>8, <2>1, <2>3, <2>4 DEF IInv, TypeOK, Statuses
<1>11. ReadsInside'
  BY <1>7, <1>8 DEF ReadsInside
<1>12. ScanInv' /\ VerdictExact'
  BY <1>7 DEF ScanInv, VerdictExact
<1>13. ViewExact'
  <2>1. Len(walked') = Len(walked) + 1 /\ walked'[Len(walked')] = rec
    BY <1>7, <1>9
  <2>2. Terminated(Table, Offset)
    BY <1>2, <1>3, <1>4 DEF Terminated, Length
  <2>3. StructureSize(Table, Offset, size)
    <3>1. Offset + size - 2 = End
      BY <1>2, <1>4, <1>6
    <3>2. \A d \in Offset + Length .. End - 1 :
            ~Terminator(Table, Offset + Length, d)
      BY <1>1 DEF IInv, ScanInv, Scanning
    <3> QED
      BY <1>3, <3>1, <3>2 DEF StructureSize, Length
  <2>4. Length + (Plus(End, 2) - StringStart) = size
    BY <1>2, <1>4, <1>6
  <2> QED
    BY <1>2, <1>7, <2>1, <2>2, <2>3, <2>4 DEF ViewExact, WellFormed, Length
<1> QED
  BY <1>10, <1>11, <1>12, <1>13 DEF IInv

(* The scan has passed the whole table without a terminator: there is none.*)
LEMMA ExhaustedIInv == IInv /\ Exhausted => IInv'
<1> SUFFICES ASSUME IInv, Exhausted PROVE IInv'
  OBVIOUS
<1>1. /\ HasFormatted(Table, Offset)
      /\ End \in Offset + Length .. Table.Size
      /\ \A d \in Offset + Length .. End - 1 :
           ~Terminator(Table, Offset + Length, d)
  BY DEF Exhausted, IInv, ScanInv, Scanning
<1>2. Table.Size \in Nat /\ Offset \in Nat /\ Length \in Nat
  BY TableFacts, ByteType DEF IInv, TypeOK, Length, LengthAt
<1>3. End = Table.Size
  BY <1>1, <1>2 DEF Exhausted, MoreToScan
<1>4. ~Terminated(Table, Offset)
  <2> SUFFICES ASSUME NEW e \in 0 .. Table.Size - 2,
                      Terminator(Table, Offset + Length, e)
               PROVE  FALSE
    BY DEF Terminated, Length
  <2>1. e \in Offset + Length .. End - 1
    BY <1>2, <1>3 DEF Terminator
  <2> QED
    BY <1>1, <2>1
<1>5. Refusal(Table, Offset, "MissingTerminator")
  BY <1>1, <1>4 DEF Refusal
<1> QED
  BY <1>5, ReturnIInv DEF Exhausted, Statuses

LEMMA NextIInv == IInv /\ [Next]_vars => IInv'
<1> SUFFICES ASSUME IInv, [Next]_vars PROVE IInv'
  OBVIOUS
<1>1. CASE UNCHANGED vars
  BY <1>1 DEF vars, IInv, TypeOK, ReadsInside, ScanInv, ViewExact, VerdictExact, Length
<1> QED
  BY <1>1, NullArgumentIInv, AtEndIInv, NoHeaderIInv, ShortLengthIInv,
     LongLengthIInv, BeginScanIInv, ScanByteIInv, FoundIInv, ExhaustedIInv
     DEF Next, SmbiosNextStructure

-----------------------------------------------------------------------------
(* Every value stays in its type, and so Offset and End never wrap.        *)
THEOREM TypeCorrect == Spec => []TypeOK
<1>1. IInv => TypeOK
  BY DEF IInv
<1> QED
  BY InitIInv, NextIInv, <1>1, PTL DEF Spec

(* No call reads outside the table, however long it says its structures    *)
(* are and wherever the caller starts.                                     *)
THEOREM NeverReadsOutside == Spec => []MemorySafe
<1>1. IInv => MemorySafe
  BY DEF IInv, MemorySafe
<1> QED
  BY InitIInv, NextIInv, <1>1, PTL DEF Spec

(* The View describes the structure delivered last, which the first double *)
(* NUL after its formatted area ends.                                      *)
THEOREM ViewsAreExact == Spec => []ViewExact
<1>1. IInv => ViewExact
  BY DEF IInv
<1> QED
  BY InitIInv, NextIInv, <1>1, PTL DEF Spec

(* The loop stops with the status the bytes at Offset deserve.             *)
THEOREM VerdictsAreExact == Spec => []VerdictExact
<1>1. IInv => VerdictExact
  BY DEF IInv
<1> QED
  BY InitIInv, NextIInv, <1>1, PTL DEF Spec

-----------------------------------------------------------------------------
(* Each delivered structure is a record of the stream, at least two bytes  *)
(* longer than its header, that ends inside the table; each failed check   *)
(* is its verdict; the rest of a scan is invisible.                        *)
LEMMA FoundDelivers == IInv /\ Found => Stream!Deliver
<1> SUFFICES ASSUME IInv, Found PROVE Stream!Deliver
  OBVIOUS
<1>1. Scanning /\ MoreToScan /\ AtDoubleNul
  BY DEF Found
<1>2. /\ Offset \in Nat /\ Length \in Nat /\ Length >= HeaderSize
      /\ Table.Size \in Nat /\ Table.Size <= SizeMax /\ SizeMax \in Nat
      /\ HeaderSize \in Nat
  BY <1>1, ScanFacts, TableFacts DEF HasFormatted, Length, IInv
<1>3. End \in Nat /\ Offset + Length <= End /\ End + 2 <= Table.Size
  BY <1>1, <1>2, DoubleNulIsTerminator DEF Terminator
<1>4. Plus(End, 2) = End + 2
  BY <1>2, <1>3, PlusFits
<1>5. Offset' = End + 2 /\ Table' = Table /\ pc = "scan" /\ pc' = "call"
  BY <1>4 DEF Found, Scanning, NextOffset
<1>6. Offset' \in Offset + 1 .. Table.Size
  BY <1>2, <1>3, <1>5
<1>7. walked' = Append(walked, [ Offset |-> Offset,
                                 Size   |-> Offset' - Offset,
                                 Final  |-> FALSE ])
  BY DEF Found, NextOffset
<1>8. ~Stream!HasFinal
  <2>1. walked \in Seq(Structure)
    BY DEF IInv, TypeOK
  <2>2. walked # << >> => Len(walked) \in 1 .. Len(walked)
    BY <2>1
  <2>3. \A i \in 1 .. Len(walked) :
          walked[i] \in Structure
    BY <2>1
  <2>4. walked # << >> => walked[Len(walked)].Final = FALSE
    BY <2>2, <2>3 DEF Structure
  <2> QED
    BY <2>4 DEF Stream!HasFinal
<1> QED
  BY <1>5, <1>6, <1>7, <1>8 DEF Stream!Deliver

LEMMA ReturnStops ==
  ASSUME NEW s \in Statuses, NEW r, IInv, pc # "done", Return(s, r),
         s = "End" => Offset = Table.Size
  PROVE  Stream!Stop
<1>1. pc' = "done" /\ Status' = s /\ s # "open"
      /\ Table' = Table /\ Offset' = Offset /\ walked' = walked
  BY DEF Return, Statuses
<1>2. ~Stream!HasFinal
  <2>1. walked \in Seq(Structure)
    BY DEF IInv, TypeOK
  <2>2. walked # << >> => Len(walked) \in 1 .. Len(walked)
    BY <2>1
  <2>3. \A i \in 1 .. Len(walked) : walked[i] \in Structure
    BY <2>1
  <2>4. walked # << >> => walked[Len(walked)].Final = FALSE
    BY <2>2, <2>3 DEF Structure
  <2> QED
    BY <2>4 DEF Stream!HasFinal
<1> QED
  BY <1>1, <1>2 DEF Stream!Stop

LEMMA StepRefines == IInv /\ [Next]_vars => [Stream!Next]_(Stream!vars)
<1> SUFFICES ASSUME IInv, [Next]_vars PROVE [Stream!Next]_(Stream!vars)
  OBVIOUS
<1>1. CASE Found
  BY <1>1, FoundDelivers DEF Stream!Next
<1>2. CASE BeginScan \/ ScanByte
  BY <1>2 DEF BeginScan, ScanByte, Calling, Scanning, Stream!vars
<1>3. CASE UNCHANGED vars
  BY <1>3 DEF vars, Stream!vars
<1>4. CASE NullArgument
  BY <1>4, ReturnStops DEF NullArgument, Calling, Statuses, Stream!Next
<1>5. CASE AtEnd
  BY <1>5, ReturnStops DEF AtEnd, Calling, Statuses, Stream!Next
<1>6. CASE NoHeader
  BY <1>6, ReturnStops DEF NoHeader, Calling, Statuses, Stream!Next
<1>7. CASE ShortLength
  BY <1>7, ReturnStops DEF ShortLength, Calling, Statuses, Stream!Next
<1>8. CASE LongLength
  BY <1>8, ReturnStops DEF LongLength, Calling, Statuses, Stream!Next
<1>9. CASE Exhausted
  BY <1>9, ReturnStops DEF Exhausted, Scanning, Statuses, Stream!Next
<1> QED
  BY <1>1, <1>2, <1>3, <1>4, <1>5, <1>6, <1>7, <1>8, <1>9
     DEF Next, SmbiosNextStructure

(* The walker implements the abstract stream: it delivers adjacent         *)
(* structures from where the caller starts, then one verdict.              *)
THEOREM WalkImplementsStream == Spec => ImplementsStream
<1>1. Init => Stream!Init
  BY TableFacts, InitIInv DEF Init, Stream!Init, IInv, TypeOK
<1> QED
  BY InitIInv, NextIInv, StepRefines, <1>1, PTL
     DEF Spec, ImplementsStream, Stream!Spec

-----------------------------------------------------------------------------
(* What RecordStream promises its caller: nothing here is about the        *)
(* structures, only about a stream of records.                             *)

(* Disjoint alone is not inductive: that the next record, which starts at  *)
(* the cursor, shares no index with the ones before it needs every record  *)
(* to end at or before the cursor.                                         *)
BelowCursor ==
  \A i \in 1 .. Len(walked) : walked[i].Offset + walked[i].Size <= Offset

(* Nothing follows a final record because Deliver asks whether the last    *)
(* one is final: the other ones must be known not to be.                   *)
StreamInv ==
  /\ Stream!TypeOK
  /\ Stream!Adjacent /\ Stream!Inside /\ Stream!Disjoint /\ Stream!FinalIsLast
  /\ BelowCursor

LEMMA StreamInit == Stream!Init => StreamInv
<1> SUFFICES ASSUME Stream!Init PROVE StreamInv
  OBVIOUS
<1>1. Stream!TypeOK
  <2>1. << >> \in Seq(Stream!Record)
    OBVIOUS
  <2> QED
    BY <2>1 DEF Stream!Init, Stream!TypeOK
<1>2. walked = << >> /\ Len(walked) = 0
  BY DEF Stream!Init
<1> QED
  BY <1>1, <1>2 DEF StreamInv, Stream!Adjacent, Stream!Inside, Stream!Disjoint,
                    Stream!FinalIsLast, BelowCursor

(* Delivering a record, which starts at the cursor, keeps the records      *)
(* adjacent, inside the region, disjoint and the final one last.           *)
LEMMA StreamDeliver ==
  ASSUME StreamInv, Stream!Deliver
  PROVE  StreamInv'
<1> DEFINE n == Len(walked)
<1>1. PICK final \in BOOLEAN :
        walked' = Append(walked, [ Offset |-> Offset,
                                     Size   |-> Offset' - Offset,
                                     Final  |-> final ])
  BY DEF Stream!Deliver
<1>2. /\ Table.Size \in Nat /\ Offset \in Nat /\ n \in Nat
      /\ walked \in Seq(Stream!Record)
  BY DEF StreamInv, Stream!TypeOK
<1>3. Table'.Size = Table.Size /\ Offset' <= Table.Size /\ ~Stream!HasFinal
  BY DEF Stream!Deliver
<1>4. /\ Offset' \in Nat /\ Offset' - Offset \in Nat
      /\ Offset' - Offset > 0 /\ Offset <= Offset'
      /\ Offset + (Offset' - Offset) = Offset'
  <2>1. Offset' \in Int /\ Offset' >= Offset + 1
    BY <1>2 DEF Stream!Deliver
  <2>2. ASSUME NEW a \in Int, NEW b \in Nat, a >= b + 1
        PROVE  a \in Nat /\ a - b \in Nat /\ a - b > 0 /\ b <= a /\ b + (a - b) = a
    BY <2>2
  <2> QED
    BY <1>2, <2>1, <2>2
<1>5. /\ Len(walked') = n + 1
      /\ \A i \in 1 .. n : walked'[i] = walked[i]
      /\ walked'[n + 1] = [ Offset |-> Offset,
                             Size   |-> Offset' - Offset,
                             Final  |-> final ]
  BY <1>1, <1>2
<1>6. /\ \A i \in 1 .. n : /\ walked[i].Offset \in Nat
                           /\ walked[i].Size \in Nat
                           /\ walked'[i] = walked[i]
      /\ walked'[n + 1].Offset = Offset
      /\ walked'[n + 1].Size = Offset' - Offset
  <2>1. \A i \in 1 .. n : walked[i] \in Stream!Record
    BY <1>2
  <2>2. \A r \in Stream!Record : r.Offset \in Nat /\ r.Size \in Nat
    BY DEF Stream!Record
  <2> QED
    BY <1>5, <2>1, <2>2
<1>7. Stream!TypeOK'
  <2>1. [Offset |-> Offset, Size |-> Offset' - Offset, Final |-> final]
          \in Stream!Record
    BY <1>2, <1>4 DEF Stream!Record
  <2>2. walked' \in Seq(Stream!Record)
    BY <1>1, <1>2, <2>1
  <2> QED
    BY <1>2, <1>3, <1>4, <2>2 DEF StreamInv, Stream!TypeOK
<1>8. Stream!Adjacent'
  <2> SUFFICES ASSUME NEW i \in 1 .. n + 1
               PROVE  walked'[i].Offset + walked'[i].Size =
                        IF i = n + 1 THEN Offset' ELSE walked'[i+1].Offset
    BY <1>5 DEF Stream!Adjacent
  <2>1. CASE i = n + 1
    BY <1>2, <1>4, <1>6, <2>1
  <2>2. CASE i # n + 1
    <3>1. i \in 1 .. n
      BY <1>2, <2>2
    <3>2. i # n => i + 1 \in 1 .. n
      BY <1>2, <3>1
    <3>3. walked[i].Offset + walked[i].Size =
            IF i = n THEN Offset ELSE walked[i+1].Offset
      BY <3>1 DEF StreamInv, Stream!Adjacent
    <3> QED
      BY <1>6, <2>2, <3>1, <3>2, <3>3
  <2> QED
    BY <2>1, <2>2
<1>9. Stream!Inside'
  <2> SUFFICES ASSUME NEW i \in 1 .. n + 1
               PROVE  /\ walked'[i].Size > 0
                      /\ walked'[i].Offset + walked'[i].Size <= Table'.Size
    BY <1>5 DEF Stream!Inside
  <2>1. CASE i = n + 1
    BY <1>2, <1>3, <1>4, <1>6, <2>1
  <2>2. CASE i # n + 1
    <3>1. i \in 1 .. n
      BY <1>2, <2>2
    <3> QED
      BY <1>3, <1>6, <3>1 DEF StreamInv, Stream!Inside
  <2> QED
    BY <2>1, <2>2
<1>10. Stream!Disjoint'
  <2> SUFFICES ASSUME NEW i \in 1 .. n + 1, NEW j \in 1 .. n + 1, i < j
               PROVE  walked'[i].Offset + walked'[i].Size <= walked'[j].Offset
    BY <1>5 DEF Stream!Disjoint
  <2>1. i \in 1 .. n
    BY <1>2
  <2>2. CASE j = n + 1
    BY <1>6, <2>1, <2>2 DEF StreamInv, BelowCursor
  <2>3. CASE j # n + 1
    <3>1. j \in 1 .. n
      BY <1>2, <2>3
    <3> QED
      BY <1>6, <2>1, <3>1 DEF StreamInv, Stream!Disjoint
  <2> QED
    BY <2>2, <2>3
<1>11. Stream!FinalIsLast'
  <2>1. \A i \in 1 .. n : ~walked[i].Final
    BY <1>2, <1>3 DEF StreamInv, Stream!FinalIsLast, Stream!HasFinal
  <2> QED
    BY <1>2, <1>5, <2>1 DEF Stream!FinalIsLast
<1>12. BelowCursor'
  <2> SUFFICES ASSUME NEW i \in 1 .. n + 1
               PROVE  walked'[i].Offset + walked'[i].Size <= Offset'
    BY <1>5 DEF BelowCursor
  <2>1. CASE i = n + 1
    BY <1>2, <1>4, <1>6, <2>1
  <2>2. CASE i # n + 1
    <3>1. i \in 1 .. n
      BY <1>2, <2>2
    <3>2. walked[i].Offset + walked[i].Size <= Offset
      BY <3>1 DEF StreamInv, BelowCursor
    <3>3. walked'[i].Offset + walked'[i].Size \in Nat
      BY <1>6, <3>1
    <3> QED
      BY <1>2, <1>4, <1>6, <3>1, <3>2, <3>3
  <2> QED
    BY <2>1, <2>2
<1> QED
  BY <1>7, <1>8, <1>9, <1>10, <1>11, <1>12 DEF StreamInv

(* The records a walker delivers are adjacent, lie inside the region and   *)
(* never overlap, and nothing follows a final one.                         *)
THEOREM StreamSafe ==
  Stream!Spec => [](/\ Stream!Adjacent /\ Stream!Inside
                    /\ Stream!Disjoint /\ Stream!FinalIsLast)
<1>1. StreamInv /\ [Stream!Next]_(Stream!vars) => StreamInv'
  <2> SUFFICES ASSUME StreamInv, [Stream!Next]_(Stream!vars) PROVE StreamInv'
    OBVIOUS
  <2>1. CASE Stream!Deliver
    BY <2>1, StreamDeliver
  <2>2. CASE Stream!Stop
    BY <2>2 DEF Stream!Stop, StreamInv, Stream!TypeOK, Stream!Adjacent, Stream!Inside,
               Stream!Disjoint, Stream!FinalIsLast, BelowCursor
  <2>3. CASE UNCHANGED Stream!vars
    BY <2>3 DEF Stream!vars, StreamInv, Stream!TypeOK, Stream!Adjacent, Stream!Inside,
               Stream!Disjoint, Stream!FinalIsLast, BelowCursor
  <2> QED
    BY <2>1, <2>2, <2>3 DEF Stream!Next
<1>2. StreamInv => Stream!Adjacent /\ Stream!Inside /\ Stream!Disjoint /\ Stream!FinalIsLast
  BY DEF StreamInv
<1> QED
  BY StreamInit, <1>1, <1>2, PTL DEF Stream!Spec

(* The structures of a walk are adjacent, lie inside the table and never   *)
(* overlap: no byte is decoded as part of two structures.                  *)
THEOREM StructuresTile ==
  Spec => [](Stream!Adjacent /\ Stream!Inside /\ Stream!Disjoint)
BY WalkImplementsStream, StreamSafe, PTL DEF ImplementsStream

-----------------------------------------------------------------------------
(* The invariant of the managed parser.                                    *)

HasEnd == structures # << >> /\ structures[Len(structures)].Final

(* Nothing is parsed before the envelope is off.                           *)
EnterInv ==
  mpc = "enter" =>
    /\ structures = << >>
    /\ offset = 0
    /\ data.Size = 0
    /\ status = "Success"

(* The parser works on the bytes the caller asks for, and stays in them.   *)
RegionInv ==
  /\ data.Size <= Managed!Region(input)
  /\ mpc \in {"loop", "scan"} => data.Size = Managed!Region(input)
  /\ offset <= data.Size
  /\ \A i \in mreads : i \in 0 .. data.Size - 1

(* While FindStringSetEnd runs it has passed over no terminator, and the   *)
(* structure it is to end does not follow an end-of-table structure.       *)
FindInv ==
  mpc = "scan" =>
    /\ HasFormatted(data, offset)
    /\ index \in offset + LengthAt(data, offset) .. data.Size
    /\ \A d \in offset + LengthAt(data, offset) .. index - 1 :
         ~Terminator(data, offset + LengthAt(data, offset), d)
    /\ ~HasEnd

(* Nothing follows an end-of-table structure, and none is refused.         *)
FinalInv ==
  /\ \A i \in 1 .. Len(structures) : structures[i].Final => i = Len(structures)
  /\ mpc = "returned" /\ HasEnd => status = "Success"

ManagedInv ==
  /\ Managed!TypeOK
  /\ EnterInv /\ RegionInv /\ FindInv /\ FinalInv
  /\ Managed!TableExact
  /\ Managed!VerdictExact

-----------------------------------------------------------------------------
(* What relates the two decoders.                                          *)

(* Every structure of the walk is well-formed, has the size it was given   *)
(* and ends where the next one, or the rest of the table, begins.          *)
Chained ==
  \A i \in 1 .. Len(walked) :
    /\ WellFormed(Table, walked[i].Offset)
    /\ StructureSize(Table, walked[i].Offset, walked[i].Size)
    /\ walked[i].Offset + walked[i].Size =
         IF i = Len(walked) THEN Offset ELSE walked[i + 1].Offset

(* The parser is called when the walk has ended.                           *)
InTurn == pc # "done" => mpc = "enter"

(* The parser is on the way the walker went.                               *)
Follows ==
  /\ pc = "done" /\ Status # "InvalidArgument" /\ Began = 0
  /\ data = Table \/ mpc = "enter"
  =>
    /\ Len(structures) <= Len(walked)
    /\ \A i \in 1 .. Len(structures) : Extent(structures[i]) = Extent(walked[i])
    /\ offset = IF Len(structures) < Len(walked)
                THEN walked[Len(structures) + 1].Offset ELSE Offset

BothInv == IInv /\ ManagedInv /\ Chained /\ InTurn /\ Follows

-----------------------------------------------------------------------------
(* The managed parser alone.                                               *)

(* The parser is an instance with definitions of its own of the bytes and  *)
(* of the format; they are those of the walker.                            *)
LEMMA SameBytes ==
  /\ Managed!Statuses = Statuses
  /\ \A n : Managed!Buffer(n) = Buffer(n)
  /\ \A b, i : Managed!ByteAt(b, i) = ByteAt(b, i)
BY DEF Managed!Statuses, Statuses, Managed!Buffer, Buffer, Managed!ByteAt, ByteAt

LEMMA SameFormat ==
  /\ \A b, o : /\ Managed!TypeAt(b, o) = TypeAt(b, o)
               /\ Managed!LengthAt(b, o) = LengthAt(b, o)
               /\ Managed!HasHeader(b, o) <=> HasHeader(b, o)
               /\ Managed!HasFormatted(b, o) <=> HasFormatted(b, o)
               /\ Managed!Terminated(b, o) <=> Terminated(b, o)
               /\ Managed!WellFormed(b, o) <=> WellFormed(b, o)
  /\ \A b, o, n : Managed!StructureSize(b, o, n) <=> StructureSize(b, o, n)
  /\ \A b, o, s : Managed!Refusal(b, o, s) <=> Refusal(b, o, s)
<1>1. \A b, o : /\ Managed!TypeAt(b, o) = TypeAt(b, o)
                /\ Managed!LengthAt(b, o) = LengthAt(b, o)
  BY SameBytes DEF Managed!TypeAt, TypeAt, Managed!LengthAt, LengthAt
<1>2. \A b, s, e : Managed!Terminator(b, s, e) <=> Terminator(b, s, e)
  BY SameBytes DEF Managed!Terminator, Terminator
<1>3. \A b, o : /\ Managed!HasHeader(b, o) <=> HasHeader(b, o)
                /\ Managed!HasFormatted(b, o) <=> HasFormatted(b, o)
  BY <1>1 DEF Managed!HasFormatted, HasFormatted, Managed!HasHeader, HasHeader
<1>4. \A b, o : Managed!Terminated(b, o) <=> Terminated(b, o)
  BY <1>1, <1>2 DEF Managed!Terminated, Terminated
<1>5. \A b, o, n : Managed!StructureSize(b, o, n) <=> StructureSize(b, o, n)
  BY <1>1, <1>2 DEF Managed!StructureSize, StructureSize
<1>6. \A b, o, s : Managed!Refusal(b, o, s) <=> Refusal(b, o, s)
  BY <1>1, <1>3, <1>4 DEF Managed!Refusal, Refusal
<1> QED
  BY <1>1, <1>3, <1>4, <1>5, <1>6 DEF Managed!WellFormed, WellFormed

(* The data is an array, so that an index and the two after it do not wrap.*)
LEMMA DataFacts ==
  ASSUME Managed!TypeOK
  PROVE  /\ data.Size \in Nat /\ data.Size < SizeMax /\ SizeMax \in Nat
         /\ data \in Buffer(data.Size) /\ data.Valid
         /\ offset \in Nat /\ index \in Nat
         /\ HeaderSize \in Nat /\ HeaderSize >= 2
  BY SameBytes, FirmwareAssumption, HeaderAssumption
     DEF Managed!TypeOK, Managed!Memory

LEMMA IntPlusFits ==
  ASSUME NEW a \in Nat, NEW b \in Nat, a + b <= SizeMax
  PROVE  Managed!IntPlus(a, b) = a + b
  BY DEF Managed!IntPlus

(* A slice of a memory is a memory.                                        *)
LEMMA SliceFacts ==
  ASSUME NEW b, Managed!Memory(b), NEW n \in 0 .. b.Size
  PROVE  Managed!Memory(Managed!Slice(b, n)) /\ Managed!Slice(b, n).Size = n
<1> DEFINE s == Managed!Slice(b, n)
<1>1. b.Size \in Nat /\ b.Size <= SizeMax - 1 /\ b \in Buffer(b.Size) /\ b.Valid
      /\ SizeMax \in Nat
  BY SameBytes, FirmwareAssumption DEF Managed!Memory
<1>2. \A i : ByteAt(b, i) \in Byte
  BY <1>1, FirmwareAssumption DEF Buffer, ByteAt
<1>3. /\ s.Size = n /\ s.Valid
      /\ s \in Buffer(n)
  BY <1>1, <1>2, SameBytes DEF Managed!Slice, Buffer
<1> QED
  BY <1>1, <1>3, SameBytes DEF Managed!Memory

(* A call that ends moves nothing: the table, the status and the reads are *)
(* all there is to look at.                                                *)
LEMMA ReturnKeeps ==
  ASSUME ManagedInv,
         NEW s \in Statuses,
         NEW t \in [Null : BOOLEAN, Size : Nat, Structures : Seq(Managed!Structure)],
         NEW r \in SUBSET Int,
         Managed!Return(s, t, r),
         \A i \in r : i \in 0 .. data.Size - 1,
         HasEnd => s = "Success",
         t.Null <=> s # "Success",
         ~t.Null => /\ t.Structures = structures
                    /\ t.Size = offset
                    /\ t.Size = data.Size \/ HasEnd,
         s # "Success" =>
           \/ input.Call = "short" /\ s = "TruncatedHeader"
           \/ input.Call = "raw" /\ s = "TruncatedData"
              /\ input.Declared > input.Payload.Size
           \/ Refusal(data, offset, s) /\ s # "End"
  PROVE  ManagedInv'
<1>1. /\ status' = s /\ table' = t /\ mreads' = r /\ mpc' = "returned"
      /\ UNCHANGED <<input, data, offset, index, structures>>
  BY DEF Managed!Return
<1>2. Managed!TypeOK'
  BY <1>1, SameBytes DEF ManagedInv, Managed!TypeOK
<1>3. EnterInv' /\ FindInv'
  BY <1>1 DEF EnterInv, FindInv
<1>4. RegionInv'
  BY <1>1 DEF ManagedInv, RegionInv, Managed!Region
<1>5. FinalInv'
  BY <1>1 DEF ManagedInv, FinalInv, HasEnd
<1>6. Managed!TableExact'
  BY <1>1 DEF ManagedInv, Managed!TableExact, Managed!StructuresExact, HasEnd
<1>7. Managed!VerdictExact'
  BY <1>1, SameFormat DEF ManagedInv, Managed!VerdictExact
<1> QED
  BY <1>2, <1>3, <1>4, <1>5, <1>6, <1>7 DEF ManagedInv

LEMMA FailKeeps ==
  ASSUME ManagedInv,
         NEW s \in Statuses \ {"Success"},
         NEW r \in SUBSET Int,
         Managed!Fail(s, r),
         \A i \in r : i \in 0 .. data.Size - 1,
         ~HasEnd,
         \/ input.Call = "short" /\ s = "TruncatedHeader"
         \/ input.Call = "raw" /\ s = "TruncatedData"
            /\ input.Declared > input.Payload.Size
         \/ Refusal(data, offset, s) /\ s # "End"
  PROVE  ManagedInv'
<1>1. /\ Managed!NoTable.Null
      /\ Managed!NoTable \in
           [Null : BOOLEAN, Size : Nat, Structures : Seq(Managed!Structure)]
  BY DEF Managed!NoTable
<1> QED
  BY <1>1, ReturnKeeps DEF Managed!Fail

(* One step per action of the parser, in the order of the code.            *)
LEMMA ShortEnvelopeKeeps == ManagedInv /\ Managed!ShortEnvelope => ManagedInv'
<1> SUFFICES ASSUME ManagedInv, Managed!ShortEnvelope PROVE ManagedInv'
  OBVIOUS
<1>1. ~HasEnd
  BY DEF Managed!ShortEnvelope, Managed!Entering, ManagedInv, EnterInv, HasEnd
<1> QED
  BY <1>1, FailKeeps DEF Managed!ShortEnvelope, Statuses

LEMMA LongEnvelopeKeeps == ManagedInv /\ Managed!LongEnvelope => ManagedInv'
<1> SUFFICES ASSUME ManagedInv, Managed!LongEnvelope PROVE ManagedInv'
  OBVIOUS
<1>1. ~HasEnd
  BY DEF Managed!LongEnvelope, Managed!Entering, ManagedInv, EnterInv, HasEnd
<1>2. input.Call = "raw" /\ input.Declared > input.Payload.Size
  BY DEF Managed!LongEnvelope, Managed!LengthFits, ManagedInv, Managed!TypeOK,
         Managed!Input, Managed!Memory
<1> QED
  BY <1>1, <1>2, FailKeeps DEF Managed!LongEnvelope, Statuses

(* The envelope is off: the parser sees the bytes it was asked for.        *)
LEMMA StartParseKeeps ==
  ASSUME ManagedInv, Managed!Entering,
         NEW bytes, Managed!Memory(bytes), bytes.Size = Managed!Region(input),
         Managed!StartParse(bytes)
  PROVE  ManagedInv'
<1>1. /\ data' = bytes /\ mpc' = "loop" /\ mreads' = {}
      /\ UNCHANGED <<input, offset, index, structures, table, status>>
  BY DEF Managed!StartParse
<1>2. structures = << >> /\ offset = 0
  BY DEF ManagedInv, EnterInv, Managed!Entering
<1>3. bytes.Size \in Nat
  BY FirmwareAssumption DEF Managed!Memory
<1>4. Managed!TypeOK'
  <2>1. Managed!Memory(data)'
    BY <1>1 DEF Managed!Memory, Managed!Buffer
  <2> QED
    BY <1>1, <2>1 DEF ManagedInv, Managed!TypeOK
<1>5. EnterInv' /\ FindInv'
  BY <1>1 DEF EnterInv, FindInv
<1>6. RegionInv'
  BY <1>1, <1>2, <1>3 DEF RegionInv, Managed!Region
<1>7. FinalInv' /\ Managed!TableExact' /\ Managed!VerdictExact'
  BY <1>1, <1>2 DEF FinalInv, Managed!TableExact, Managed!StructuresExact,
                    Managed!VerdictExact
<1> QED
  BY <1>4, <1>5, <1>6, <1>7 DEF ManagedInv

LEMMA RawStarts == ManagedInv /\ Managed!TryParseWindowsRaw => ManagedInv'
<1> SUFFICES ASSUME ManagedInv, Managed!TryParseWindowsRaw PROVE ManagedInv'
  OBVIOUS
<1>1. /\ Managed!Memory(input.Payload) /\ input.Payload.Size \in Nat
      /\ input.Declared \in 0 .. input.Payload.Size
      /\ Managed!Region(input) = input.Declared
  BY FirmwareAssumption
     DEF Managed!TryParseWindowsRaw, Managed!LengthFits, ManagedInv,
         Managed!TypeOK, Managed!Input, Managed!Memory, Managed!Region
<1> QED
  BY <1>1, SliceFacts, StartParseKeeps DEF Managed!TryParseWindowsRaw

LEMMA BareStarts == ManagedInv /\ Managed!TryParseBare => ManagedInv'
<1> SUFFICES ASSUME ManagedInv, Managed!TryParseBare PROVE ManagedInv'
  OBVIOUS
<1>1. /\ Managed!Memory(input.Payload)
      /\ Managed!Region(input) = input.Payload.Size
  BY DEF Managed!TryParseBare, ManagedInv, Managed!TypeOK, Managed!Input,
         Managed!Region
<1> QED
  BY <1>1, StartParseKeeps DEF Managed!TryParseBare

(* After the header check its first two bytes can be read.                 *)
LEMMA EntryFacts ==
  ASSUME ManagedInv, Managed!Looping, Managed!HeaderFits
  PROVE  /\ HasHeader(data, offset) /\ ~HasEnd
         /\ Managed!Length = LengthAt(data, offset) /\ Managed!Length \in Nat
         /\ Managed!HeaderReads \in SUBSET Int
         /\ \A i \in Managed!HeaderReads : i \in 0 .. data.Size - 1
<1>1. /\ data.Size \in Nat /\ data.Size < SizeMax /\ SizeMax \in Nat
      /\ data \in Buffer(data.Size) /\ data.Valid /\ offset \in Nat
      /\ HeaderSize \in Nat /\ HeaderSize >= 2
  BY DataFacts DEF ManagedInv
<1>2. offset + HeaderSize <= data.Size
  BY <1>1 DEF Managed!HeaderFits
<1>3. Managed!IntPlus(offset, 1) = offset + 1
  BY <1>1, <1>2, IntPlusFits
<1>4. Managed!Length = LengthAt(data, offset)
  BY SameFormat DEF Managed!Length
<1>5. Managed!Length \in Nat
  BY <1>1, <1>4, ByteType DEF LengthAt
<1>6. ~HasEnd
  BY DEF Managed!Looping, HasEnd
<1> QED
  BY <1>1, <1>2, <1>3, <1>4, <1>5, <1>6 DEF HasHeader, Managed!HeaderReads

LEMMA ManagedNoHeaderKeeps == ManagedInv /\ Managed!NoHeader => ManagedInv'
<1> SUFFICES ASSUME ManagedInv, Managed!NoHeader PROVE ManagedInv'
  OBVIOUS
<1>1. ~HasHeader(data, offset) /\ offset # data.Size
  BY DataFacts DEF Managed!NoHeader, Managed!HeaderFits, HasHeader, ManagedInv
<1>2. ~HasEnd
  BY DEF Managed!NoHeader, Managed!Looping, HasEnd
<1> QED
  BY <1>1, <1>2, FailKeeps DEF Managed!NoHeader, Statuses, Refusal

LEMMA ManagedShortLengthKeeps == ManagedInv /\ Managed!ShortLength => ManagedInv'
<1> SUFFICES ASSUME ManagedInv, Managed!ShortLength PROVE ManagedInv'
  OBVIOUS
<1>1. Managed!Looping /\ Managed!HeaderFits /\ Managed!Length < HeaderSize
      /\ Managed!Fail("InvalidLength", Managed!HeaderReads)
  BY DEF Managed!ShortLength
<1>2. Refusal(data, offset, "InvalidLength")
  BY <1>1, EntryFacts DEF Refusal
<1> QED
  BY <1>1, <1>2, EntryFacts, FailKeeps DEF Statuses

LEMMA ManagedLongLengthKeeps == ManagedInv /\ Managed!LongLength => ManagedInv'
<1> SUFFICES ASSUME ManagedInv, Managed!LongLength PROVE ManagedInv'
  OBVIOUS
<1>1. /\ Managed!Looping /\ Managed!HeaderFits
      /\ Managed!Length >= HeaderSize /\ Managed!Length > Managed!Room
      /\ Managed!Fail("TruncatedData", Managed!HeaderReads)
  BY DEF Managed!LongLength
<1>2. ~HasFormatted(data, offset)
  BY <1>1, EntryFacts, DataFacts DEF HasFormatted, Managed!Room, ManagedInv
<1>3. Refusal(data, offset, "TruncatedData")
  BY <1>1, <1>2, EntryFacts DEF Refusal
<1> QED
  BY <1>1, <1>3, EntryFacts, FailKeeps DEF Statuses

LEMMA ManagedBeginScanKeeps == ManagedInv /\ Managed!BeginScan => ManagedInv'
<1> SUFFICES ASSUME ManagedInv, Managed!BeginScan PROVE ManagedInv'
  OBVIOUS
<1>1. /\ Managed!Looping /\ Managed!HeaderFits
      /\ Managed!Length >= HeaderSize /\ Managed!Length <= Managed!Room
      /\ index' = Managed!ScanStart /\ mreads' = Managed!HeaderReads
      /\ mpc' = "scan"
      /\ UNCHANGED <<input, data, offset, structures, table, status>>
  BY DEF Managed!BeginScan
<1>2. /\ data.Size \in Nat /\ data.Size < SizeMax /\ SizeMax \in Nat
      /\ offset \in Nat /\ mpc = "loop"
  BY DataFacts DEF ManagedInv, Managed!Looping, Managed!BeginScan
<1>3. /\ HasHeader(data, offset) /\ ~HasEnd
      /\ Managed!Length = LengthAt(data, offset) /\ Managed!Length \in Nat
      /\ mreads' \in SUBSET Int
      /\ \A i \in mreads' : i \in 0 .. data.Size - 1
  BY <1>1, EntryFacts
<1>4. HasFormatted(data, offset)
  BY <1>1, <1>2, <1>3 DEF HasFormatted, Managed!Room
<1>5. index' = offset + Managed!Length /\ index' <= data.Size
  BY <1>1, <1>2, <1>3, IntPlusFits DEF Managed!ScanStart, Managed!Room
<1>6. Managed!TypeOK'
  <2>1. index' \in 0 .. SizeMax
    BY <1>2, <1>3, <1>5
  <2> QED
    BY <1>1, <1>3, <2>1 DEF ManagedInv, Managed!TypeOK
<1>7. EnterInv'
  BY <1>1 DEF EnterInv
<1>8. RegionInv'
  BY <1>1, <1>2, <1>3 DEF ManagedInv, RegionInv
<1>9. FindInv'
  BY <1>1, <1>2, <1>3, <1>4, <1>5 DEF FindInv, HasEnd
<1>10. FinalInv' /\ Managed!VerdictExact'
  BY <1>1 DEF ManagedInv, FinalInv, Managed!VerdictExact
<1>11. Managed!TableExact'
  BY <1>1 DEF ManagedInv, Managed!TableExact, Managed!StructuresExact
<1> QED
  BY <1>6, <1>7, <1>8, <1>9, <1>10, <1>11 DEF ManagedInv

(* What FindStringSetEnd knows: index and the one after it do not wrap.    *)
LEMMA FindFacts ==
  ASSUME ManagedInv, Managed!Scanning
  PROVE  /\ data.Size \in Nat /\ data.Size < SizeMax /\ SizeMax \in Nat
         /\ HeaderSize \in Nat /\ HeaderSize >= 2
         /\ offset \in Nat
         /\ Managed!Length = LengthAt(data, offset) /\ Managed!Length \in Nat
         /\ HasFormatted(data, offset) /\ ~HasEnd
         /\ index \in offset + Managed!Length .. data.Size
         /\ Managed!IntPlus(index, 1) = index + 1
         /\ \A d \in offset + Managed!Length .. index - 1 :
              ~Terminator(data, offset + Managed!Length, d)
<1>1. /\ data.Size \in Nat /\ data.Size < SizeMax /\ SizeMax \in Nat
      /\ HeaderSize \in Nat /\ HeaderSize >= 2
      /\ data \in Buffer(data.Size) /\ offset \in Nat
  BY DataFacts DEF ManagedInv
<1>2. Managed!Length = LengthAt(data, offset)
  BY SameFormat DEF Managed!Length
<1>3. Managed!Length \in Nat
  BY <1>1, <1>2, ByteType DEF LengthAt
<1>4. /\ HasFormatted(data, offset) /\ ~HasEnd
      /\ index \in offset + Managed!Length .. data.Size
      /\ \A d \in offset + Managed!Length .. index - 1 :
           ~Terminator(data, offset + Managed!Length, d)
  BY <1>2 DEF ManagedInv, FindInv, Managed!Scanning
<1>5. Managed!IntPlus(index, 1) = index + 1
  BY <1>1, <1>3, <1>4, IntPlusFits
<1> QED
  BY <1>1, <1>2, <1>3, <1>4, <1>5

(* A double NUL in the data, at an index FindStringSetEnd stands at, is a  *)
(* terminator.                                                             *)
LEMMA ManagedDoubleNul ==
  ASSUME ManagedInv, Managed!Scanning, Managed!MoreToScan
  PROVE  /\ index \in 0 .. data.Size - 2
         /\ Managed!AtDoubleNul <=>
              Terminator(data, offset + Managed!Length, index)
         /\ Managed!ScanReads \in SUBSET Int
         /\ \A i \in Managed!ScanReads : i \in 0 .. data.Size - 1
<1>1. /\ index \in offset + Managed!Length .. data.Size - 2
      /\ offset \in Nat /\ Managed!Length \in Nat /\ data.Size \in Nat
      /\ Managed!IntPlus(index, 1) = index + 1
  BY FindFacts DEF Managed!MoreToScan
<1>2. Managed!AtDoubleNul <=> Terminator(data, offset + Managed!Length, index)
  BY <1>1, SameBytes DEF Managed!AtDoubleNul, Terminator
<1>3. \A i \in Managed!ScanReads : i \in 0 .. data.Size - 1
  BY <1>1 DEF Managed!ScanReads
<1> QED
  BY <1>1, <1>2, <1>3

LEMMA ManagedScanByteKeeps == ManagedInv /\ Managed!ScanByte => ManagedInv'
<1> SUFFICES ASSUME ManagedInv, Managed!ScanByte PROVE ManagedInv'
  OBVIOUS
<1>1. /\ Managed!Scanning /\ Managed!MoreToScan /\ ~Managed!AtDoubleNul
      /\ index' = Managed!NextIndex /\ mreads' = Managed!ScanReads
      /\ UNCHANGED <<input, data, offset, structures, table, status, mpc>>
  BY DEF Managed!ScanByte
<1>2. /\ data.Size \in Nat /\ data.Size < SizeMax /\ SizeMax \in Nat
      /\ offset \in Nat /\ Managed!Length \in Nat
      /\ Managed!Length = LengthAt(data, offset)
      /\ HasFormatted(data, offset) /\ ~HasEnd
      /\ index \in offset + Managed!Length .. data.Size
  BY <1>1, FindFacts
<1>3. index \in 0 .. data.Size - 2 /\ index' = index + 1
  BY <1>1, ManagedDoubleNul, FindFacts DEF Managed!NextIndex
<1>4. mreads' \in SUBSET Int /\ \A i \in mreads' : i \in 0 .. data.Size - 1
  BY <1>1, ManagedDoubleNul
<1>5. Managed!TypeOK'
  <2>1. index' \in 0 .. SizeMax
    BY <1>2, <1>3
  <2> QED
    BY <1>1, <1>4, <2>1 DEF ManagedInv, Managed!TypeOK
<1>6. EnterInv'
  BY <1>1 DEF ManagedInv, EnterInv
<1>7. RegionInv'
  BY <1>1, <1>4 DEF ManagedInv, RegionInv
<1>8. \A d \in offset + Managed!Length .. index' - 1 :
        ~Terminator(data, offset + Managed!Length, d)
  <2>1. ~Terminator(data, offset + Managed!Length, index)
    BY <1>1, ManagedDoubleNul
  <2>2. \A d \in offset + Managed!Length .. index - 1 :
          ~Terminator(data, offset + Managed!Length, d)
    BY <1>1, FindFacts
  <2> QED
    BY <1>2, <1>3, <2>1, <2>2
<1>9. FindInv'
  BY <1>1, <1>2, <1>3, <1>8 DEF FindInv, HasEnd
<1>10. FinalInv' /\ Managed!VerdictExact'
  BY <1>1 DEF ManagedInv, FinalInv, Managed!VerdictExact, HasEnd
<1>11. Managed!TableExact'
  BY <1>1 DEF ManagedInv, Managed!TableExact, Managed!StructuresExact
<1> QED
  BY <1>5, <1>6, <1>7, <1>9, <1>10, <1>11 DEF ManagedInv

(* FindStringSetEnd has looked at every pair: there is no terminator.      *)
LEMMA NoTerminatorKeeps == ManagedInv /\ Managed!NoTerminator => ManagedInv'
<1> SUFFICES ASSUME ManagedInv, Managed!NoTerminator PROVE ManagedInv'
  OBVIOUS
<1>1. /\ Managed!Scanning /\ ~Managed!MoreToScan
      /\ Managed!Fail("MissingTerminator", {})
  BY DEF Managed!NoTerminator
<1>2. /\ data.Size \in Nat /\ offset \in Nat /\ Managed!Length \in Nat
      /\ Managed!Length = LengthAt(data, offset)
      /\ HasFormatted(data, offset) /\ ~HasEnd
      /\ index \in offset + Managed!Length .. data.Size
      /\ Managed!IntPlus(index, 1) = index + 1
      /\ \A d \in offset + Managed!Length .. index - 1 :
           ~Terminator(data, offset + Managed!Length, d)
  BY <1>1, FindFacts
<1>3. index >= data.Size - 1
  BY <1>1, <1>2 DEF Managed!MoreToScan
<1>4. ~Terminated(data, offset)
  <2> SUFFICES ASSUME NEW e \in 0 .. data.Size - 2,
                      Terminator(data, offset + Managed!Length, e)
               PROVE  FALSE
    BY <1>2 DEF Terminated
  <2>1. e \in offset + Managed!Length .. index - 1
    BY <1>2, <1>3 DEF Terminator
  <2> QED
    BY <1>2, <2>1
<1>5. Refusal(data, offset, "MissingTerminator")
  BY <1>2, <1>4 DEF Refusal
<1> QED
  BY <1>1, <1>2, <1>5, FailKeeps DEF Statuses

(* The index found is the first terminator, so that the structure added is *)
(* the one the format defines at offset; it is the last one if it is final.*)
LEMMA AddStructureFacts ==
  ASSUME ManagedInv, Managed!AddStructure
  PROVE  LET rec == [ Offset |-> offset, Size |-> index + 2 - offset,
                      Formatted |-> LengthAt(data, offset),
                      Final |-> TypeAt(data, offset) = EndType ]
         IN  /\ structures' = Append(structures, rec)
             /\ rec \in Managed!Structure
             /\ offset' = index + 2
             /\ offset' \in offset + 1 .. data.Size
             /\ WellFormed(data, offset)
             /\ StructureSize(data, offset, index + 2 - offset)
             /\ ~HasEnd
             /\ offset \in Nat /\ data.Size \in Nat
<1>1. Managed!Scanning /\ Managed!MoreToScan /\ Managed!AtDoubleNul
  BY DEF Managed!AddStructure
<1>2. /\ data.Size \in Nat /\ data.Size < SizeMax /\ SizeMax \in Nat
      /\ HeaderSize \in Nat /\ HeaderSize >= 2
      /\ offset \in Nat /\ Managed!Length \in Nat
      /\ Managed!Length = LengthAt(data, offset)
      /\ HasFormatted(data, offset) /\ ~HasEnd
      /\ index \in offset + Managed!Length .. data.Size
      /\ \A d \in offset + Managed!Length .. index - 1 :
           ~Terminator(data, offset + Managed!Length, d)
  BY <1>1, FindFacts
<1>3. /\ index \in 0 .. data.Size - 2
      /\ Terminator(data, offset + Managed!Length, index)
  BY <1>1, ManagedDoubleNul
<1>4. Managed!IntPlus(index, 2) = index + 2
  BY <1>2, <1>3, IntPlusFits
<1>5. /\ index + 2 \in offset + 1 .. data.Size
      /\ index + 2 - offset \in Nat
      /\ offset + (index + 2 - offset) - 2 = index
  BY <1>2, <1>3
<1>6. WellFormed(data, offset)
  BY <1>2, <1>3 DEF WellFormed, Terminated
<1>7. StructureSize(data, offset, index + 2 - offset)
  BY <1>2, <1>3, <1>5 DEF StructureSize
<1>8. Managed!IsEndType = (TypeAt(data, offset) = EndType)
  BY SameFormat DEF Managed!IsEndType
<1>9. structures' = Append(structures, [ Offset |-> offset,
                                         Size |-> index + 2 - offset,
                                         Formatted |-> LengthAt(data, offset),
                                         Final |-> TypeAt(data, offset) = EndType ])
  BY <1>2, <1>4, <1>8 DEF Managed!AddStructure
<1>10. [ Offset |-> offset, Size |-> index + 2 - offset,
         Formatted |-> LengthAt(data, offset),
         Final |-> TypeAt(data, offset) = EndType ] \in Managed!Structure
  BY <1>2, <1>5 DEF Managed!Structure
<1>11. offset' = index + 2
  BY <1>4 DEF Managed!AddStructure, Managed!Ending
<1> QED
  BY <1>2, <1>5, <1>6, <1>7, <1>9, <1>10, <1>11

LEMMA AddStructureKeeps == ManagedInv /\ Managed!AddStructure => ManagedInv'
<1> SUFFICES ASSUME ManagedInv, Managed!AddStructure PROVE ManagedInv'
  OBVIOUS
<1> DEFINE rec == [ Offset |-> offset, Size |-> index + 2 - offset,
                    Formatted |-> LengthAt(data, offset),
                    Final |-> TypeAt(data, offset) = EndType ]
<1>1. /\ structures' = Append(structures, rec)
      /\ rec \in Managed!Structure
      /\ offset' \in offset + 1 .. data.Size
      /\ WellFormed(data, offset)
      /\ StructureSize(data, offset, index + 2 - offset)
      /\ ~HasEnd
      /\ offset \in Nat /\ data.Size \in Nat
  BY AddStructureFacts
<1>2. /\ mreads' = Managed!ScanReads \cup Managed!HandleReads /\ mpc' = "loop"
      /\ mpc = "scan"
      /\ UNCHANGED <<input, data, index, table, status>>
  BY DEF Managed!AddStructure, Managed!Scanning
<1>3. structures \in Seq(Managed!Structure)
  BY DEF ManagedInv, Managed!TypeOK
<1>4. /\ structures' \in Seq(Managed!Structure)
      /\ Len(structures') = Len(structures) + 1
      /\ Len(structures) \in Nat
      /\ structures'[Len(structures) + 1] = rec
      /\ \A i \in 1 .. Len(structures) : structures'[i] = structures[i]
  BY <1>1, <1>3
<1>5. mreads' \in SUBSET Int /\ \A i \in mreads' : i \in 0 .. data.Size - 1
  <2>1. /\ Managed!ScanReads \in SUBSET Int
        /\ \A i \in Managed!ScanReads : i \in 0 .. data.Size - 1
    BY ManagedDoubleNul DEF Managed!AddStructure
  <2>2. HeaderSize \in Nat /\ offset + HeaderSize <= data.Size
    BY <1>1, HeaderAssumption DEF WellFormed, HasFormatted, HasHeader
  <2>3. /\ Managed!HandleReads \in SUBSET Int
        /\ \A i \in Managed!HandleReads : i \in 0 .. data.Size - 1
    BY <1>1, <2>2 DEF Managed!HandleReads
  <2>4. mreads' = Managed!ScanReads \cup Managed!HandleReads
    BY <1>2
  <2> QED
    BY <2>1, <2>3, <2>4
<1>6. Managed!TypeOK'
  <2>1. offset' \in 0 .. SizeMax
    BY <1>1, DataFacts DEF ManagedInv
  <2> QED
    BY <1>2, <1>4, <1>5, <2>1 DEF ManagedInv, Managed!TypeOK
<1>7. EnterInv' /\ FindInv' /\ Managed!VerdictExact'
  BY <1>2 DEF EnterInv, FindInv, Managed!VerdictExact
<1>8. RegionInv'
  BY <1>1, <1>2, <1>5 DEF ManagedInv, RegionInv
<1>9. FinalInv'
  <2>1. \A i \in 1 .. Len(structures) : ~structures[i].Final
    BY <1>1, <1>4 DEF ManagedInv, FinalInv, HasEnd
  <2> QED
    BY <1>2, <1>4, <2>1 DEF FinalInv
<1>10. Managed!StructuresExact'
  <2> SUFFICES ASSUME NEW i \in (1 .. Len(structures))'
               PROVE  /\ WellFormed(data, structures'[i].Offset)
                      /\ StructureSize(data, structures'[i].Offset, structures'[i].Size)
                      /\ structures'[i].Formatted = LengthAt(data, structures'[i].Offset)
                      /\ structures'[i].Final
                           <=> TypeAt(data, structures'[i].Offset) = EndType
    BY <1>2, SameFormat DEF Managed!StructuresExact
  <2>1. CASE i = Len(structures) + 1
    <3>1. structures'[i] = rec
      BY <1>4, <2>1
    <3>2. /\ rec.Offset = offset /\ rec.Size = index + 2 - offset
          /\ rec.Formatted = LengthAt(data, offset)
      OBVIOUS
    <3>3. rec.Final <=> TypeAt(data, offset) = EndType
      OBVIOUS
    <3> HIDE DEF rec
    <3> QED
      BY <1>1, <3>1, <3>2, <3>3
  <2>2. CASE i # Len(structures) + 1
    <3>1. i \in 1 .. Len(structures) /\ structures'[i] = structures[i]
      BY <1>4, <2>2
    <3> QED
      BY <3>1, SameFormat
         DEF ManagedInv, Managed!TableExact, Managed!StructuresExact
  <2> QED
    BY <2>1, <2>2
<1>11. Managed!TableExact'
  BY <1>2, <1>10 DEF Managed!TableExact
<1> QED
  BY <1>6, <1>7, <1>8, <1>9, <1>11 DEF ManagedInv

LEMMA FinishKeeps == ManagedInv /\ Managed!Finish => ManagedInv'
<1> SUFFICES ASSUME ManagedInv, Managed!Finish PROVE ManagedInv'
  OBVIOUS
<1> DEFINE out == [ Null |-> FALSE, Size |-> offset, Structures |-> structures ]
<1>1. Managed!Return("Success", out, {}) /\ mpc = "loop"
  BY DEF Managed!Finish, Managed!TableSize
<1>2. offset >= data.Size \/ HasEnd
  BY DEF Managed!Finish, Managed!Looping, HasEnd
<1>3. /\ data.Size \in Nat /\ offset \in Nat /\ offset <= data.Size
      /\ structures \in Seq(Managed!Structure)
  BY DataFacts DEF ManagedInv, RegionInv, Managed!TypeOK
<1>4. offset = data.Size \/ HasEnd
  BY <1>2, <1>3
<1>5. out \in [Null : BOOLEAN, Size : Nat, Structures : Seq(Managed!Structure)]
  BY <1>3
<1>6. ~out.Null /\ out.Structures = structures /\ out.Size = offset
  OBVIOUS
<1> HIDE DEF out
<1> QED
  BY <1>1, <1>4, <1>5, <1>6, ReturnKeeps DEF Statuses

(* A step of the parser keeps its invariant, and so does a step of the     *)
(* walker, which touches none of its variables.                            *)
LEMMA ManagedKeeps == ManagedInv /\ Managed!Next => ManagedInv'
BY ShortEnvelopeKeeps, LongEnvelopeKeeps, RawStarts, BareStarts,
   ManagedNoHeaderKeeps, ManagedShortLengthKeeps, ManagedLongLengthKeeps,
   ManagedBeginScanKeeps, ManagedScanByteKeeps, NoTerminatorKeeps,
   AddStructureKeeps, FinishKeeps
   DEF Managed!Next

LEMMA ManagedUntouched == ManagedInv /\ UNCHANGED mvars => ManagedInv'
BY DEF mvars, ManagedInv, EnterInv, RegionInv, FindInv, FinalInv, HasEnd,
       Managed!TypeOK, Managed!TableExact, Managed!StructuresExact,
       Managed!VerdictExact, Managed!Region

-----------------------------------------------------------------------------
(* The two decoders together.                                              *)

(* A caller of the managed parser hands it a memory.                       *)
LEMMA HandedFacts ==
  ASSUME NEW t \in Tables, NEW in \in Handed(t)
  PROVE  Managed!Input(in)
<1> DEFINE payload == [t EXCEPT !.Valid = TRUE]
<1>1. /\ t.Size \in Nat /\ t.Size < SizeMax /\ SizeMax \in Nat
      /\ t \in Buffer(t.Size)
  BY WalkAssumption, AgreementAssumption, FirmwareAssumption DEF IsTable
<1>2. /\ payload.Size = t.Size /\ payload.Valid
      /\ payload \in Buffer(t.Size)
  BY <1>1 DEF Buffer
<1>3. Managed!Memory(payload)
  BY <1>1, <1>2, SameBytes DEF Managed!Memory
<1>4. /\ in.Call \in {"bare", "raw", "short"}
      /\ in.Payload = payload
      /\ in.Declared \in 0 .. 2 * SizeMax + 1
  <2>1. \/ in = [Call |-> "bare", Payload |-> payload, Declared |-> 0]
        \/ in = [Call |-> "short", Payload |-> payload, Declared |-> 0]
        \/ \E d \in 0 .. t.Size + 1 \cup {SizeMax + 1, 2 * SizeMax + 1} :
             in = [Call |-> "raw", Payload |-> payload, Declared |-> d]
    BY Zenon DEF Handed
  <2> HIDE DEF payload
  <2> QED
    BY <1>1, <2>1
<1> QED
  BY <1>3, <1>4 DEF Managed!Input

LEMMA ManagedInitInv ==
  ASSUME NEW in, Managed!Input(in), Managed!InitWith(in)
  PROVE  ManagedInv
<1>1. /\ input = in /\ data = Managed!Slice(in.Payload, 0)
      /\ offset = 0 /\ index = 0 /\ structures = << >>
      /\ table = Managed!NoTable /\ status = "Success"
      /\ mreads = {} /\ mpc = "enter"
  BY DEF Managed!InitWith
<1>2. /\ Managed!Memory(in.Payload) /\ in.Payload.Size \in Nat
      /\ in.Declared \in Nat /\ SizeMax \in Nat
  BY FirmwareAssumption DEF Managed!Input, Managed!Memory
<1>3. Managed!Memory(data) /\ data.Size = 0
  BY <1>1, <1>2, SliceFacts
<1>4. Managed!TypeOK
  <2>1. /\ << >> \in Seq(Managed!Structure)
        /\ Managed!NoTable \in
             [Null : BOOLEAN, Size : Nat, Structures : Seq(Managed!Structure)]
    BY DEF Managed!NoTable
  <2> QED
    BY <1>1, <1>2, <1>3, <2>1 DEF Managed!TypeOK, Managed!Statuses
<1>5. EnterInv /\ FindInv
  BY <1>1, <1>3 DEF EnterInv, FindInv
<1>6. RegionInv
  BY <1>1, <1>2, <1>3 DEF RegionInv, Managed!Region
<1>7. FinalInv /\ Managed!TableExact /\ Managed!VerdictExact
  BY <1>1 DEF FinalInv, Managed!TableExact, Managed!StructuresExact,
              Managed!VerdictExact
<1> QED
  BY <1>4, <1>5, <1>6, <1>7 DEF ManagedInv

LEMMA BothInitInv == BothInit => BothInv
<1> SUFFICES ASSUME BothInit PROVE BothInv
  OBVIOUS
<1>1. IInv
  BY InitIInv DEF BothInit
<1>2. PICK in \in Handed(Table) : Managed!InitWith(in)
  BY DEF BothInit
<1>3. Table \in Tables /\ walked = << >> /\ pc = "call"
  BY DEF BothInit, Init
<1>4. ManagedInv
  BY <1>2, <1>3, HandedFacts, ManagedInitInv
<1>5. mpc = "enter"
  BY <1>2 DEF Managed!InitWith
<1> QED
  BY <1>1, <1>3, <1>4, <1>5 DEF BothInv, Chained, InTurn, Follows

(* At most one structure begins at an offset, and where one does, there is *)
(* no reason to refuse the table.                                          *)
LEMMA SizeUnique ==
  ASSUME NEW n \in Nat, NEW t \in Buffer(n), NEW o \in Nat,
         NEW x \in Nat, NEW y \in Nat,
         StructureSize(t, o, x), StructureSize(t, o, y)
  PROVE  x = y
<1> DEFINE s == o + LengthAt(t, o)
<1>1. s \in Nat
  BY ByteType DEF LengthAt
<1>2. /\ Terminator(t, s, o + x - 2)
      /\ \A d \in s .. o + x - 2 - 1 : ~Terminator(t, s, d)
  BY DEF StructureSize
<1>3. /\ Terminator(t, s, o + y - 2)
      /\ \A d \in s .. o + y - 2 - 1 : ~Terminator(t, s, d)
  BY DEF StructureSize
<1>4. o + x - 2 >= s /\ o + y - 2 >= s
  BY <1>1, <1>2, <1>3 DEF Terminator
<1> HIDE DEF s
<1>5. ~(o + x - 2 < o + y - 2)
  BY <1>1, <1>2, <1>3, <1>4
<1>6. ~(o + y - 2 < o + x - 2)
  BY <1>1, <1>2, <1>3, <1>4
<1> QED
  BY <1>5, <1>6

LEMMA NotRefused ==
  ASSUME NEW n \in Nat, NEW t \in Buffer(n), NEW o \in Nat, WellFormed(t, o),
         NEW s
  PROVE  ~Refusal(t, o, s)
<1>1. HasFormatted(t, o) /\ HasHeader(t, o) /\ Terminated(t, o)
  BY DEF WellFormed, HasFormatted
<1>2. o # t.Size
  BY <1>1, HeaderAssumption DEF HasHeader, Buffer
<1>3. LengthAt(t, o) \in Nat
  BY ByteType DEF LengthAt
<1>4. ~(LengthAt(t, o) < HeaderSize)
  BY <1>1, <1>3, HeaderAssumption DEF HasFormatted
<1> QED
  BY <1>1, <1>2, <1>4 DEF Refusal

(* The structure the walker has found begins where the walk stood and ends *)
(* where it stands.                                                        *)
LEMMA FoundChains == IInv /\ Chained /\ Found => Chained'
<1> SUFFICES ASSUME IInv, Chained, Found PROVE Chained'
  OBVIOUS
<1> DEFINE n == Len(walked)
           rec == [Offset |-> Offset, Size |-> Offset' - Offset, Final |-> FALSE]
<1>1. /\ walked' = Append(walked, rec) /\ Table' = Table
      /\ walked \in Seq(Structure)
  BY DEF Found, NextOffset, IInv, TypeOK
<1>2. /\ n \in Nat /\ Len(walked') = n + 1 /\ walked'[n + 1] = rec
      /\ \A i \in 1 .. n : walked'[i] = walked[i]
      /\ walked' # << >>
  BY <1>1
<1>3. rec.Offset = Offset /\ rec.Size = Offset' - Offset
  OBVIOUS
<1>4. Offset \in Nat /\ Offset' \in Nat
  BY FoundIInv, FirmwareAssumption DEF IInv, TypeOK
<1>5. WellFormed(Table, Offset) /\ StructureSize(Table, Offset, Offset' - Offset)
  <2>1. ViewExact'
    BY FoundIInv DEF IInv
  <2> HIDE DEF rec
  <2> QED
    BY <1>1, <1>2, <1>3, <2>1 DEF ViewExact
<1> HIDE DEF rec
<1> SUFFICES ASSUME NEW i \in (1 .. Len(walked))'
             PROVE  /\ WellFormed(Table, walked'[i].Offset)
                    /\ StructureSize(Table, walked'[i].Offset, walked'[i].Size)
                    /\ walked'[i].Offset + walked'[i].Size =
                         IF i = Len(walked') THEN Offset' ELSE walked'[i + 1].Offset
  BY <1>1 DEF Chained
<1>6. CASE i = n + 1
  BY <1>2, <1>3, <1>4, <1>5, <1>6
<1>7. CASE i # n + 1
  <2>1. i \in 1 .. n /\ walked'[i] = walked[i]
    BY <1>2, <1>7
  <2>2. i # n => i + 1 \in 1 .. n
    BY <1>2, <2>1
  <2> QED
    BY <1>2, <1>3, <1>7, <2>1, <2>2 DEF Chained
<1> QED
  BY <1>6, <1>7

LEMMA NativeChains == IInv /\ Chained /\ Next => Chained'
<1> SUFFICES ASSUME IInv, Chained, Next PROVE Chained'
  OBVIOUS
<1>1. CASE Found
  BY <1>1, FoundChains
<1>2. CASE ~Found
  <2>1. UNCHANGED <<Table, Offset, walked>>
    BY <1>2 DEF Next, SmbiosNextStructure, NullArgument, AtEnd, NoHeader,
                ShortLength, LongLength, BeginScan, ScanByte, Exhausted, Return
  <2> QED
    BY <2>1 DEF Chained
<1> QED
  BY <1>1, <1>2

(* While the walker runs the parser has not begun, and the walker does not *)
(* run again.                                                              *)
LEMMA NativeStepInv == BothInv /\ NativeStep => BothInv'
<1> SUFFICES ASSUME BothInv, NativeStep PROVE BothInv'
  OBVIOUS
<1>1. /\ Next /\ UNCHANGED mvars
      /\ IInv /\ ManagedInv /\ Chained /\ InTurn
  BY DEF NativeStep, BothInv
<1>2. IInv' /\ Chained'
  BY <1>1, NextIInv, NativeChains
<1>3. ManagedInv'
  BY <1>1, ManagedUntouched
<1>4. pc # "done"
  BY <1>1 DEF Next, SmbiosNextStructure, NullArgument, AtEnd, NoHeader,
              ShortLength, LongLength, BeginScan, ScanByte, Found, Exhausted,
              Calling, Scanning
<1>5. mpc' = "enter" /\ structures' = << >> /\ offset' = 0
  BY <1>1, <1>4 DEF InTurn, mvars, ManagedInv, EnterInv
<1>6. InTurn'
  BY <1>5 DEF InTurn
<1>7. Follows'
  <2>1. Len(walked') \in Nat
    BY <1>2 DEF IInv, TypeOK
  <2>2. walked' = << >> <=> Len(walked') = 0
    BY <1>2 DEF IInv, TypeOK
  <2> QED
    BY <1>5, <2>1, <2>2 DEF Follows, Began
<1> QED
  BY <1>2, <1>3, <1>6, <1>7 DEF BothInv

(* The parser adds the structure the walker delivered at the same place:   *)
(* there is one, because the walker refuses nothing well-formed, and it is *)
(* the same, because at most one structure begins at an offset.            *)
LEMMA AddStructureFollows ==
  ASSUME BothInv, pc = "done", Status # "InvalidArgument", Began = 0,
         data = Table, UNCHANGED vars, Managed!AddStructure
  PROVE  Follows'
<1> DEFINE k == Len(structures)
           n == Len(walked)
           rec == [ Offset |-> offset, Size |-> index + 2 - offset,
                    Formatted |-> LengthAt(data, offset),
                    Final |-> TypeAt(data, offset) = EndType ]
<1>1. /\ IInv /\ ManagedInv /\ Chained /\ Follows
  BY DEF BothInv
<1>2. /\ structures' = Append(structures, rec)
      /\ offset' = index + 2
      /\ offset' \in offset + 1 .. data.Size
      /\ WellFormed(data, offset)
      /\ StructureSize(data, offset, index + 2 - offset)
      /\ offset \in Nat /\ data.Size \in Nat
  BY <1>1, AddStructureFacts
<1>3. rec.Offset = offset /\ rec.Size = index + 2 - offset
  OBVIOUS
<1> HIDE DEF rec
<1>4. /\ structures \in Seq(Managed!Structure) /\ walked \in Seq(Structure)
      /\ k \in Nat /\ n \in Nat
      /\ Table \in Buffer(Table.Size) /\ Table.Size \in Nat
  BY <1>1, TableFacts DEF IInv, ManagedInv, TypeOK, Managed!TypeOK
<1>5. /\ Len(structures') = k + 1 /\ structures'[k + 1] = rec
      /\ \A i \in 1 .. k : structures'[i] = structures[i]
  BY <1>2, <1>4
<1>6. /\ k <= n
      /\ \A i \in 1 .. k : Extent(structures[i]) = Extent(walked[i])
      /\ offset = IF k < n THEN walked[k + 1].Offset ELSE Offset
  BY <1>1 DEF Follows
<1>7. k < n
  <2> SUFFICES ASSUME k = n PROVE FALSE
    BY <1>4, <1>6
  <2>1. offset = Offset
    BY <1>6
  <2>2. Refusal(Table, Offset, Status)
    BY <1>1 DEF IInv, VerdictExact
  <2> QED
    BY <1>2, <1>4, <2>1, <2>2, NotRefused
<1>8. /\ k + 1 \in 1 .. n /\ offset = walked[k + 1].Offset
      /\ StructureSize(Table, offset, walked[k + 1].Size)
      /\ offset + walked[k + 1].Size =
           IF k + 1 = n THEN Offset ELSE walked[k + 2].Offset
      /\ walked[k + 1].Size \in Nat
  <2>1. k + 1 \in 1 .. n /\ offset = walked[k + 1].Offset
    BY <1>4, <1>6, <1>7
  <2>2. walked[k + 1] \in Structure
    BY <1>4, <2>1
  <2>3. (k + 1) + 1 = k + 2
    BY <1>4
  <2> QED
    BY <1>1, <2>1, <2>2, <2>3 DEF Chained, Structure
<1>9. walked[k + 1].Size = rec.Size /\ offset' = offset + rec.Size
  <2>1. rec.Size \in Nat /\ offset' = offset + rec.Size
    BY <1>1, <1>2, <1>3, DataFacts DEF ManagedInv
  <2>2. StructureSize(Table, offset, rec.Size)
    BY <1>2, <1>3
  <2> QED
    BY <1>2, <1>4, <1>8, <2>1, <2>2, SizeUnique
<1>10. Extent(structures'[k + 1]) = Extent(walked[k + 1])
  BY <1>3, <1>5, <1>8, <1>9 DEF Extent
<1>11. \A i \in 1 .. k + 1 : Extent(structures'[i]) = Extent(walked[i])
  <2> SUFFICES ASSUME NEW i \in 1 .. k + 1
               PROVE  Extent(structures'[i]) = Extent(walked[i])
    OBVIOUS
  <2>1. CASE i = k + 1
    BY <1>10, <2>1
  <2>2. CASE i # k + 1
    <3>1. i \in 1 .. k
      BY <1>4, <2>2
    <3> QED
      BY <1>5, <1>6, <3>1
  <2> QED
    BY <2>1, <2>2
<1>12. offset' = IF k + 1 < n THEN walked[k + 2].Offset ELSE Offset
  BY <1>4, <1>7, <1>8, <1>9
<1>13. walked' = walked /\ Offset' = Offset
  BY DEF vars
<1>14. k + 1 <= n /\ (k + 1) + 1 = k + 2
  BY <1>4, <1>7
<1> QED
  BY <1>5, <1>11, <1>12, <1>13, <1>14 DEF Follows

LEMMA ManagedStepInv == BothInv /\ ManagedStep => BothInv'
<1> SUFFICES ASSUME BothInv, ManagedStep PROVE BothInv'
  OBVIOUS
<1>1. /\ pc = "done" /\ Managed!Next /\ UNCHANGED vars
      /\ IInv /\ ManagedInv /\ Chained
  BY DEF ManagedStep, BothInv
<1>2. IInv'
  BY <1>1, NextIInv
<1>3. ManagedInv'
  BY <1>1, ManagedKeeps
<1>4. Chained' /\ InTurn'
  BY <1>1 DEF Chained, InTurn, vars
<1>5. Follows'
  <2>1. CASE Managed!AddStructure
    <3> SUFFICES ASSUME Status # "InvalidArgument", Began = 0, data = Table
                 PROVE  Follows'
      <4>1. /\ Status' = Status /\ Began' = Began /\ Table' = Table
        BY <1>1 DEF vars, Began
      <4>2. data' = data /\ mpc' = "loop"
        BY <2>1 DEF Managed!AddStructure
      <4> QED
        BY <4>1, <4>2 DEF Follows
    <3> QED
      BY <1>1, <2>1, AddStructureFollows
  <2>2. CASE ~Managed!AddStructure
    <3>1. /\ UNCHANGED <<structures, offset>>
          /\ mpc' # "enter"
          /\ mpc = "enter" \/ data' = data
      BY <1>1, <2>2
         DEF Managed!Next, Managed!ShortEnvelope, Managed!LongEnvelope,
             Managed!TryParseWindowsRaw, Managed!TryParseBare, Managed!StartParse,
             Managed!Entering, Managed!NoHeader, Managed!ShortLength,
             Managed!LongLength, Managed!BeginScan, Managed!ScanByte,
             Managed!Scanning, Managed!NoTerminator, Managed!Finish,
             Managed!Fail, Managed!Return
    <3>2. UNCHANGED <<walked, Offset, Table, Status, pc>> /\ Began' = Began
      BY <1>1 DEF vars, Began
    <3> QED
      BY <3>1, <3>2 DEF Follows, BothInv
  <2> QED
    BY <2>1, <2>2
<1> QED
  BY <1>2, <1>3, <1>4, <1>5 DEF BothInv

LEMMA BothNextInv == BothInv /\ [BothNext]_allvars => BothInv'
<1> SUFFICES ASSUME BothInv, [BothNext]_allvars PROVE BothInv'
  OBVIOUS
<1>1. CASE UNCHANGED allvars
  <2>1. UNCHANGED vars /\ UNCHANGED mvars
    BY <1>1 DEF allvars
  <2>2. IInv' /\ ManagedInv'
    BY <2>1, NextIInv, ManagedUntouched DEF BothInv
  <2>3. Chained' /\ InTurn' /\ Follows'
    BY <2>1 DEF vars, mvars, BothInv, Chained, InTurn, Follows, Began
  <2> QED
    BY <2>2, <2>3 DEF BothInv
<1> QED
  BY <1>1, NativeStepInv, ManagedStepInv DEF BothNext

LEMMA BothAlways == BothSpec => []BothInv
BY BothInitInv, BothNextInv, PTL DEF BothSpec

(* The parser disturbs the walker in nothing: every theorem about a walk   *)
(* alone holds of the walk next to which a server parses.                  *)
THEOREM WalkIsUndisturbed == BothSpec => Spec
<1>1. BothInit => Init
  BY DEF BothInit
<1>2. [BothNext]_allvars => [Next]_vars
  BY DEF BothNext, NativeStep, ManagedStep, allvars
<1> QED
  BY <1>1, <1>2, PTL DEF BothSpec, Spec

-----------------------------------------------------------------------------
(* No length byte and no envelope makes the managed parser read outside    *)
(* the data, wrap an offset or slice more than there is.                   *)
THEOREM ParserNeverThrows == BothSpec => []NeverThrows
<1>1. BothInv => NeverThrows
  <2> SUFFICES ASSUME BothInv PROVE NeverThrows
    OBVIOUS
  <2>1. Managed!TypeOK /\ RegionInv
    BY DEF BothInv, ManagedInv
  <2>2. data.Size <= input.Payload.Size
    BY <2>1, DataFacts, FirmwareAssumption
       DEF RegionInv, Managed!Region, Managed!TypeOK, Managed!Input, Managed!Memory
  <2> QED
    BY <2>1, <2>2 DEF NeverThrows, Managed!NeverThrows, RegionInv
<1> QED
  BY BothAlways, <1>1, PTL

(* The managed parser gives all structures or none, each one as the format *)
(* defines it.                                                             *)
THEOREM TablesAreExact == BothSpec => []TableExact
<1>1. BothInv => TableExact
  BY DEF BothInv, ManagedInv, TableExact
<1> QED
  BY BothAlways, <1>1, PTL

(* The managed parser refuses a table for the first reason that applies.   *)
THEOREM RefusalsAreExact == BothSpec => []RefusalExact
<1>1. BothInv => RefusalExact
  BY DEF BothInv, ManagedInv, RefusalExact
<1> QED
  BY BothAlways, <1>1, PTL

-----------------------------------------------------------------------------
(* The answer of the two decoders on the same bytes.                       *)

LEMMA ListFacts ==
  ASSUME BothInv
  PROVE  /\ Len(walked) \in Nat /\ Len(structures) \in Nat
         /\ DOMAIN NativeList = 1 .. Len(walked)
         /\ DOMAIN ManagedList = 1 .. Len(structures)
         /\ Len(NativeList) = Len(walked)
         /\ Len(ManagedList) = Len(structures)
         /\ ManagedList = << >> <=> structures = << >>
         /\ structures # << >> => Len(structures) \in 1 .. Len(structures)
<1>1. walked \in Seq(Structure) /\ structures \in Seq(Managed!Structure)
  BY DEF BothInv, ManagedInv, IInv, TypeOK, Managed!TypeOK
<1>2. Len(walked) \in Nat /\ Len(structures) \in Nat
  BY <1>1
<1>3. /\ DOMAIN NativeList = 1 .. Len(walked)
      /\ DOMAIN ManagedList = 1 .. Len(structures)
  BY DEF NativeList, ManagedList
<1>4. NativeList \in Seq({Extent(walked[i]) : i \in 1 .. Len(walked)})
  BY <1>2 DEF NativeList
<1>5. ManagedList \in Seq({Extent(structures[i]) : i \in 1 .. Len(structures)})
  BY <1>2 DEF ManagedList
<1>6. Len(NativeList) = Len(walked)
  BY <1>2, <1>3, <1>4
<1>7. Len(ManagedList) = Len(structures)
  BY <1>2, <1>3, <1>5
<1>8. ManagedList = << >> <=> structures = << >>
  BY <1>1, <1>5, <1>7
<1>9. structures # << >> => Len(structures) \in 1 .. Len(structures)
  BY <1>1
<1> QED
  BY <1>2, <1>3, <1>6, <1>7, <1>8, <1>9

(* When the two are compared, a parser that met no end-of-table structure  *)
(* stands where the walker stands: otherwise the next structure of the walk*)
(* would be well-formed where the parser stopped.                          *)
LEMMA WithoutEnd ==
  ASSUME BothInv, Compared, ~HasEnd
  PROVE  /\ Len(structures) = Len(walked)
         /\ offset = Offset
         /\ status = (IF Status = "End" THEN "Success" ELSE Status)
<1>1. /\ pc = "done" /\ mpc = "returned" /\ Began = 0
      /\ Status # "InvalidArgument" /\ data = Table
      /\ input.Call = "raw" => input.Declared <= input.Payload.Size
      /\ input.Call # "short"
  BY DEF Compared, BothDone
<1>2. IInv /\ ManagedInv /\ Chained /\ Follows
  BY DEF BothInv
<1>3. /\ Len(structures) <= Len(walked)
      /\ offset = IF Len(structures) < Len(walked)
                  THEN walked[Len(structures) + 1].Offset ELSE Offset
  BY <1>1, <1>2 DEF Follows
<1>4. /\ Table \in Buffer(Table.Size) /\ Table.Size \in Nat
      /\ offset \in Nat
      /\ Len(walked) \in Nat /\ Len(structures) \in Nat
  BY <1>2, TableFacts, DataFacts, ListFacts DEF IInv, ManagedInv
<1>5. Refusal(Table, Offset, Status)
  BY <1>1, <1>2 DEF IInv, VerdictExact
<1>6. status = "Success" => Refusal(Table, offset, "End")
  <2>1. status = "Success" => offset = data.Size
    BY <1>1, <1>2 DEF ManagedInv, Managed!TableExact, HasEnd
  <2> QED
    BY <1>1, <2>1 DEF Refusal
<1>7. status # "Success" => Refusal(Table, offset, status) /\ status # "End"
  <2>1. input.Call = "raw" => ~(input.Declared > input.Payload.Size)
    BY <1>1, <1>2, FirmwareAssumption
       DEF ManagedInv, Managed!TypeOK, Managed!Input, Managed!Memory
  <2> QED
    BY <1>1, <1>2, <2>1, SameFormat DEF ManagedInv, Managed!VerdictExact
<1>8. Len(structures) = Len(walked)
  <2> SUFFICES ASSUME Len(structures) < Len(walked) PROVE FALSE
    BY <1>3, <1>4
  <2>1. WellFormed(Table, offset)
    BY <1>2, <1>3, <1>4 DEF Chained
  <2> QED
    BY <1>4, <1>6, <1>7, <2>1, NotRefused
<1>9. offset = Offset
  BY <1>3, <1>8
<1>10. ASSUME NEW x, NEW y, Refusal(Table, Offset, x), Refusal(Table, Offset, y)
       PROVE  x = y
  <2>1. LengthAt(Table, Offset) \in Nat /\ HeaderSize \in Nat /\ Offset \in Nat
    BY <1>4, <1>9, ByteType, HeaderAssumption DEF LengthAt
  <2>2. HasHeader(Table, Offset) => Offset # Table.Size
    BY <1>4, <2>1, HeaderAssumption DEF HasHeader
  <2>3. HasFormatted(Table, Offset) =>
          HasHeader(Table, Offset) /\ ~(LengthAt(Table, Offset) < HeaderSize)
    BY <2>1 DEF HasFormatted
  <2>4. LengthAt(Table, Offset) >= HeaderSize =>
          ~(LengthAt(Table, Offset) < HeaderSize)
    BY <2>1
  <2> QED
    BY <1>10, <2>2, <2>3, <2>4 DEF Refusal
<1> QED
  BY <1>5, <1>6, <1>7, <1>8, <1>9, <1>10

LEMMA ComparedAgree == BothInv /\ Compared => SameStructures /\ SameVerdict
<1> SUFFICES ASSUME BothInv, Compared PROVE SameStructures /\ SameVerdict
  OBVIOUS
<1>1. /\ pc = "done" /\ mpc = "returned" /\ Began = 0
      /\ Status # "InvalidArgument" /\ data = Table
  BY DEF Compared, BothDone
<1>2. /\ Len(structures) <= Len(walked)
      /\ \A i \in 1 .. Len(structures) : Extent(structures[i]) = Extent(walked[i])
  BY <1>1 DEF BothInv, Follows
<1>3. \A i \in 1 .. Len(structures) :
        IsFinal(structures[i]) <=> structures[i].Final
  BY <1>1, SameFormat
     DEF BothInv, ManagedInv, Managed!TableExact, Managed!StructuresExact, IsFinal
<1>4. \A i \in 1 .. Len(structures) : structures[i].Final => i = Len(structures)
  BY DEF BothInv, ManagedInv, FinalInv
<1>5. \A i \in 1 .. Len(structures) :
        /\ i \in 1 .. Len(walked)
        /\ ManagedList[i] = Extent(structures[i])
        /\ ManagedList[i] = NativeList[i]
        /\ IsFinal(ManagedList[i]) <=> IsFinal(structures[i])
  BY <1>2, ListFacts DEF ManagedList, NativeList, Extent, IsFinal
<1>6. Len(structures) < Len(walked) => HasEnd
  <2> SUFFICES ASSUME ~HasEnd PROVE ~(Len(structures) < Len(walked))
    OBVIOUS
  <2>1. Len(structures) = Len(walked) /\ Len(walked) \in Nat
    BY WithoutEnd, ListFacts
  <2> QED
    BY <2>1
<1>7. SameStructures
  <2>1. Len(ManagedList) < Len(NativeList) =>
          ManagedList # << >> /\ IsFinal(ManagedList[Len(ManagedList)])
    BY <1>3, <1>5, <1>6, ListFacts DEF HasEnd
  <2> QED
    BY <1>2, <1>3, <1>4, <1>5, <2>1, ListFacts DEF SameStructures
<1>8. SameVerdict
  BY <1>1, WithoutEnd DEF SameVerdict, HasEnd, BothInv, ManagedInv, FinalInv
<1> QED
  BY <1>7, <1>8

(* On the same bytes, whole or behind an envelope, the native walker and   *)
(* the managed parser give the same structures and the same verdict, up to *)
(* the first end-of-table structure.                                       *)
THEOREM DecodersAgree == BothSpec => []SameAnswer
<1>1. BothInv => SameAnswer
  BY ComparedAgree DEF SameAnswer
<1> QED
  BY BothAlways, <1>1, PTL

-----------------------------------------------------------------------------
(* The managed parser implements RecordStream.                             *)

Brief(s) == [Offset |-> s.Offset, Size |-> s.Size, Final |-> s.Final]
BriefList == [i \in 1 .. Len(structures) |-> Brief(structures[i])]

(* The list of the refinement mapping grows as the list of the parser does.*)
LEMMA BriefAppend ==
  ASSUME NEW rec, rec \in Managed!Structure, structures \in Seq(Managed!Structure),
         structures' = Append(structures, rec)
  PROVE  BriefList' = Append(BriefList, Brief(rec))
<1> DEFINE k == Len(structures)
           B == [Offset : Nat, Size : Nat, Final : BOOLEAN]
<1>1. /\ k \in Nat /\ Len(structures') = k + 1 /\ structures'[k + 1] = rec
      /\ \A i \in 1 .. k : structures'[i] = structures[i]
      /\ structures' \in Seq(Managed!Structure)
  OBVIOUS
<1>2. \A s \in Managed!Structure : Brief(s) \in B
  BY DEF Brief, Managed!Structure
<1>3. BriefList \in Seq(B) /\ Len(BriefList) = k
  <2>1. \A i \in 1 .. k : Brief(structures[i]) \in B
    BY <1>1, <1>2
  <2> HIDE DEF B
  <2> QED
    BY <1>1, <2>1, LenProperties DEF BriefList
<1>4. BriefList' \in Seq(B) /\ Len(BriefList') = k + 1
  <2>1. \A i \in 1 .. k + 1 : Brief(structures'[i]) \in B
    BY <1>1, <1>2
  <2> HIDE DEF B
  <2> QED
    BY <1>1, <2>1, LenProperties DEF BriefList
<1>5. Brief(rec) \in B
  BY <1>2
<1> HIDE DEF B
<1>6. /\ Append(BriefList, Brief(rec)) \in Seq(B)
      /\ Len(Append(BriefList, Brief(rec))) = k + 1
      /\ \A i \in 1 .. k : Append(BriefList, Brief(rec))[i] = BriefList[i]
      /\ Append(BriefList, Brief(rec))[k + 1] = Brief(rec)
  BY <1>3, <1>5, AppendProperties
<1>7. \A i \in 1 .. k + 1 : BriefList'[i] = Append(BriefList, Brief(rec))[i]
  <2> SUFFICES ASSUME NEW i \in 1 .. k + 1
               PROVE  BriefList'[i] = Append(BriefList, Brief(rec))[i]
    OBVIOUS
  <2>1. BriefList'[i] = Brief(structures'[i])
    BY <1>1 DEF BriefList
  <2>2. CASE i = k + 1
    BY <1>1, <1>6, <2>1, <2>2
  <2>3. CASE i # k + 1
    <3>1. i \in 1 .. k
      BY <1>1, <2>3
    <3>2. BriefList[i] = Brief(structures[i])
      BY <3>1 DEF BriefList
    <3> QED
      BY <1>1, <1>6, <2>1, <3>1, <3>2
  <2> QED
    BY <2>2, <2>3
<1> QED
  BY <1>4, <1>6, <1>7, SeqEqual

(* What the parser does, seen as a stream of records.                      *)
LEMMA AddStructureDelivers ==
  ManagedInv /\ Managed!AddStructure => Managed!Stream!Deliver
<1> SUFFICES ASSUME ManagedInv, Managed!AddStructure
             PROVE  Managed!Stream!Deliver
  OBVIOUS
<1> DEFINE rec == [ Offset |-> offset, Size |-> index + 2 - offset,
                    Formatted |-> LengthAt(data, offset),
                    Final |-> TypeAt(data, offset) = EndType ]
<1>1. /\ structures' = Append(structures, rec)
      /\ rec \in Managed!Structure
      /\ offset' = index + 2
      /\ offset' \in offset + 1 .. data.Size
      /\ ~HasEnd
  BY AddStructureFacts
<1>2. /\ mpc = "scan" /\ mpc' = "loop" /\ UNCHANGED <<input, data, status>>
      /\ structures \in Seq(Managed!Structure)
  BY DEF Managed!AddStructure, Managed!Scanning, ManagedInv, Managed!TypeOK
<1>3. BriefList' = Append(BriefList, Brief(rec))
  BY <1>1, <1>2, BriefAppend
<1>4. Brief(rec) = [ Offset |-> offset, Size |-> offset' - offset,
                     Final |-> TypeAt(data, offset) = EndType ]
  <2>1. offset' = index + 2 /\ index \in Nat /\ offset \in Nat
    BY <1>1, DataFacts DEF ManagedInv
  <2>2. index + 2 - offset = offset' - offset
    BY <2>1
  <2> QED
    BY <2>2, Zenon DEF Brief
<1>5. offset' \in offset + 1 .. Managed!Region(input)
  BY <1>1, <1>2 DEF ManagedInv, RegionInv
<1>6. ~Managed!Stream!HasFinal
  BY <1>1 DEF Managed!Stream!HasFinal, HasEnd
<1> QED
  BY <1>2, <1>3, <1>4, <1>5, <1>6
     DEF Managed!Stream!Deliver, BriefList, Brief, Managed!Region

LEMMA ReturnStopsStream ==
  ASSUME ManagedInv, mpc # "returned",
         NEW s \in Statuses, NEW t, NEW r, Managed!Return(s, t, r),
         s # "End",
         s = "Success" => offset = Managed!Region(input) \/ HasEnd,
         s # "Success" => ~HasEnd
  PROVE  Managed!Stream!Stop
<1>1. /\ mpc' = "returned" /\ status' = s
      /\ UNCHANGED <<input, offset, structures>>
      /\ s # "open"
  BY DEF Managed!Return, Statuses
<1>2. Managed!Stream!HasFinal <=> HasEnd
  <2>1. structures \in Seq(Managed!Structure)
    BY DEF ManagedInv, Managed!TypeOK
  <2>2. CASE structures = << >>
    BY <2>2 DEF Managed!Stream!HasFinal, HasEnd
  <2>3. CASE structures # << >>
    <3>1. Len(structures) \in 1 .. Len(structures) /\ Len(BriefList) = Len(structures)
      BY <2>1, <2>3 DEF BriefList
    <3>2. BriefList[Len(structures)].Final = structures[Len(structures)].Final
      BY <3>1 DEF BriefList, Brief
    <3>3. BriefList # << >>
      BY <3>1
    <3> QED
      BY <2>3, <3>1, <3>2, <3>3 DEF Managed!Stream!HasFinal, HasEnd, BriefList, Brief
  <2> QED
    BY <2>2, <2>3
<1> QED
  BY <1>1, <1>2 DEF Managed!Stream!Stop, Managed!Region

LEMMA ManagedStepStreams ==
  BothInv /\ [BothNext]_allvars => [Managed!Stream!Next]_(Managed!Stream!vars)
<1> SUFFICES ASSUME BothInv, [BothNext]_allvars
             PROVE  [Managed!Stream!Next]_(Managed!Stream!vars)
  OBVIOUS
<1>0. ManagedInv
  BY DEF BothInv
<1>1. CASE UNCHANGED mvars
  BY <1>1 DEF mvars, Managed!Stream!vars, Managed!Region
<1>2. CASE Managed!AddStructure
  BY <1>0, <1>2, AddStructureDelivers DEF Managed!Stream!Next
<1>3. CASE Managed!ShortEnvelope \/ Managed!LongEnvelope
  <2>1. ~HasEnd /\ mpc = "enter"
    BY <1>0, <1>3 DEF ManagedInv, EnterInv, HasEnd, Managed!ShortEnvelope,
                      Managed!LongEnvelope, Managed!Entering
  <2> QED
    BY <1>0, <1>3, <2>1, ReturnStopsStream
       DEF Managed!ShortEnvelope, Managed!LongEnvelope, Managed!Fail, Statuses,
           Managed!Stream!Next
<1>4. CASE Managed!NoHeader \/ Managed!ShortLength \/ Managed!LongLength
  <2>1. ~HasEnd /\ mpc = "loop"
    BY <1>4 DEF HasEnd, Managed!NoHeader, Managed!ShortLength,
                Managed!LongLength, Managed!Looping
  <2> QED
    BY <1>0, <1>4, <2>1, ReturnStopsStream
       DEF Managed!NoHeader, Managed!ShortLength, Managed!LongLength,
           Managed!Fail, Statuses, Managed!Stream!Next
<1>5. CASE Managed!NoTerminator
  <2>1. ~HasEnd /\ mpc = "scan"
    BY <1>0, <1>5 DEF ManagedInv, FindInv, Managed!NoTerminator, Managed!Scanning
  <2> QED
    BY <1>0, <1>5, <2>1, ReturnStopsStream
       DEF Managed!NoTerminator, Managed!Fail, Statuses, Managed!Stream!Next
<1>6. CASE Managed!Finish
  <2>1. mpc = "loop" /\ (offset >= data.Size \/ HasEnd)
    BY <1>6 DEF Managed!Finish, Managed!Looping, HasEnd
  <2>2. offset = Managed!Region(input) \/ HasEnd
    BY <1>0, <2>1, DataFacts DEF ManagedInv, RegionInv
  <2> QED
    BY <1>0, <1>6, <2>1, <2>2, ReturnStopsStream
       DEF Managed!Finish, Statuses, Managed!Stream!Next
<1>7. CASE Managed!TryParseWindowsRaw \/ Managed!TryParseBare
           \/ Managed!BeginScan \/ Managed!ScanByte
  BY <1>7 DEF Managed!TryParseWindowsRaw, Managed!TryParseBare, Managed!StartParse,
              Managed!BeginScan, Managed!ScanByte, Managed!Entering,
              Managed!Looping, Managed!Scanning, Managed!Stream!vars, Managed!Region
<1> QED
  BY <1>1, <1>2, <1>3, <1>4, <1>5, <1>6, <1>7
     DEF BothNext, NativeStep, ManagedStep, allvars, Managed!Next

(* The list of the managed parser grows by adjacent structures inside the  *)
(* payload, and by none after an end-of-table structure.                   *)
THEOREM ParserImplementsStream == BothSpec => ManagedStream
<1>1. BothInit /\ BothInv => Managed!Stream!Init
  <2> SUFFICES ASSUME BothInit, BothInv PROVE Managed!Stream!Init
    OBVIOUS
  <2>1. mpc = "enter" /\ structures = << >> /\ offset = 0
    BY DEF BothInit, BothInv, InTurn, Init, ManagedInv, EnterInv
  <2>2. BriefList = << >>
    BY <2>1 DEF BriefList
  <2>3. Managed!Region(input) \in Nat
    BY FirmwareAssumption
       DEF BothInv, ManagedInv, Managed!TypeOK, Managed!Input, Managed!Memory,
           Managed!Region
  <2> QED
    BY <2>1, <2>2, <2>3 DEF Managed!Stream!Init, BriefList, Brief, Managed!Region
<1> QED
  BY BothInitInv, BothNextInv, ManagedStepStreams, <1>1, PTL
     DEF BothSpec, ManagedStream, Managed!ImplementsStream, Managed!Stream!Spec

=============================================================================
