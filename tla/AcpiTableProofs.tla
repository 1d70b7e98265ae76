-------------------------- MODULE AcpiTableProofs --------------------------
(***************************************************************************)
(* The validators of ACPI data read nothing outside the buffer, accept     *)
(* nothing but whole tables and whole RSDPs, and agree with each other:    *)
(* for every buffer, every layout of the headers and every minimum size.   *)
(***************************************************************************)
EXTENDS AcpiTable, WellFoundedInduction, TLAPS

ReadsInside == \A i \in reads : i < Bytes.Size

(* Why AcpiValidateTable answers s: the first rung of its ladder that the  *)
(* bytes do not reach.  The managed parser, which climbs the ladder after  *)
(* it, is compared with this.                                              *)
Rung(s) ==
  \/ s = "InvalidArgument"
  \/ s = "TruncatedHeader" /\ ~Get(HeaderSize)
  \/ /\ Get(HeaderSize)
     /\ \/ s = "InvalidLength" /\ Length < HeaderSize
        \/ /\ Length >= HeaderSize
           /\ \/ s = "TruncatedData" /\ ~Get(Length)
              \/ /\ Get(Length)
                 /\ \/ s = "InvalidLength" /\ ~LongEnough
                    \/ /\ s = "BadChecksum" /\ LongEnough
                       /\ ValidateChecksum /\ ~Sums(Bytes, Length)
                    \/ /\ s = "Success" /\ LongEnough
                       /\ ValidateChecksum => Sums(Bytes, Length)

Judged == turn # "table" => Rung(Status)

(* There is a view only of an accepted table.                              *)
ViewInv ==
  /\ turn = "table" \/ Status # "Success" => View = NoView
  /\ turn # "table" /\ Status = "Success" => ViewWhole

RsdpInv == turn = "done" => (Rsdp <=> RsdpWhole /\ ~NullCall)

IInv == TypeOK /\ ReadsInside /\ Judged /\ ViewInv /\ RsdpInv /\ ValidatorsAgree

-----------------------------------------------------------------------------
LEMMA BufferFacts ==
  ASSUME TypeOK
  PROVE  /\ Bytes \in Buffer(Bytes.Size) /\ Bytes.Size \in Nat
         /\ Signature \in Nat /\ Length \in Nat
         /\ Revision \in Nat /\ RsdpLength \in Nat
         /\ HeaderSize \in Nat /\ HeaderSize >= 2
         /\ LegacySize \in Nat /\ LegacySize >= 2
         /\ XsdtOffset \in Nat /\ LegacySize < XsdtOffset
         /\ RsdpSize \in Nat /\ XsdtOffset < RsdpSize
<1>1. Bytes \in Buffer(Bytes.Size) /\ Bytes.Size \in Nat
  BY FirmwareAssumption DEF TypeOK, IsBuffer
<1>2. ASSUME NEW i PROVE ByteAt(Bytes, i) \in Nat
  <2>1. CASE i \in 0 .. Bytes.Size - 1
    BY <1>1, <2>1, FirmwareAssumption DEF ByteAt, Buffer
  <2>2. CASE ~(i \in 0 .. Bytes.Size - 1)
    BY <2>2 DEF ByteAt
  <2> QED
    BY <2>1, <2>2
<1>3. Signature \in Nat /\ Length \in Nat /\ Revision \in Nat /\ RsdpLength \in Nat
  BY <1>2 DEF Signature, Length, Revision, RsdpLength
<1> QED
  BY <1>1, <1>3, LayoutAssumption

(* The bytes of a range that Get has approved lie in the buffer.           *)
LEMMA GetInside ==
  ASSUME TypeOK, NEW n \in Nat
  PROVE  Get(n) <=> Bytes.Valid /\ n <= Bytes.Size
BY BufferFacts DEF Get, FirmwareBuffer_Get

(* What no step changes: the arguments, and what they say.                 *)
LEMMA ArgumentsStay ==
  ASSUME UNCHANGED <<Bytes, ValidateChecksum>>
  PROVE  /\ Signature' = Signature /\ Length' = Length /\ Known' = Known
         /\ LongEnough' = LongEnough /\ RsdpWhole' = RsdpWhole
         /\ \A n : Get(n)' = Get(n)
         /\ \A n : Sums(Bytes, n)' = Sums(Bytes, n)
         /\ \A s : Rung(s)' = Rung(s)
BY DEF Signature, Length, Known, LongEnough, RsdpWhole, Get, Revision, RsdpLength,
       Rung

LEMMA InitIInv == Init => IInv
<1> SUFFICES ASSUME Init PROVE IInv
  OBVIOUS
<1>1. NoView \in [Size : Nat, Known : BOOLEAN]
  BY DEF NoView
<1>2. TypeOK
  BY <1>1, BufferAssumption DEF Init, TypeOK, Statuses
<1> QED
  BY <1>2 DEF Init, IInv, ReadsInside, Judged, ViewInv, RsdpInv, ValidatorsAgree

-----------------------------------------------------------------------------
(* AcpiValidateTable.                                                      *)
LEMMA ReturnTableIInv ==
  ASSUME IInv, turn = "table",
         NEW s \in Statuses, NEW v \in [Size : Nat, Known : BOOLEAN],
         NEW r \in SUBSET Nat,
         ReturnTable(s, v, r),
         \A i \in r : i < Bytes.Size,
         Rung(s),
         s # "Success" => v = View,
         s = "Success" => /\ v.Size = Length /\ Length <= Bytes.Size
                          /\ v.Known => Known
  PROVE  IInv'
<1>1. /\ Status' = s /\ View' = v /\ reads' = r /\ turn' = "managed"
      /\ UNCHANGED <<Bytes, ValidateChecksum, status, table, Answer, Rsdp>>
  BY DEF ReturnTable
<1>2. TypeOK'
  BY <1>1 DEF IInv, TypeOK
<1>3. ReadsInside' /\ RsdpInv' /\ ValidatorsAgree'
  BY <1>1 DEF ReadsInside, RsdpInv, ValidatorsAgree
<1>4. Judged'
  BY <1>1, ArgumentsStay DEF Judged
<1>5. ViewInv'
  <2>1. CASE s # "Success"
    BY <1>1, <2>1 DEF IInv, ViewInv
  <2>2. CASE s = "Success"
    <3>1. Length >= HeaderSize /\ LongEnough
      BY <2>2 DEF Rung
    <3>2. ViewWhole'
      BY <1>1, <2>2, <3>1, ArgumentsStay DEF ViewWhole, LongEnough
    <3> QED
      BY <1>1, <2>2, <3>2 DEF ViewInv
  <2> QED
    BY <2>1, <2>2
<1> QED
  BY <1>2, <1>3, <1>4, <1>5 DEF IInv

LEMMA FailTableIInv ==
  ASSUME IInv, turn = "table",
         NEW s \in Statuses \ {"Success"}, NEW r \in SUBSET Nat,
         FailTable(s, r),
         \A i \in r : i < Bytes.Size,
         Rung(s)
  PROVE  IInv'
<1>1. View \in [Size : Nat, Known : BOOLEAN]
  BY DEF IInv, TypeOK
<1> QED
  BY <1>1, ReturnTableIInv DEF FailTable

(* With the header checked the length can be read, with the length checked *)
(* every byte that is summed.                                              *)
LEMMA HeaderReads ==
  ASSUME TypeOK, Get(HeaderSize)
  PROVE  \A i \in {0, 1} : i < Bytes.Size
BY BufferFacts, GetInside

LEMMA SumReads ==
  ASSUME TypeOK, NEW n \in Nat, Get(n)
  PROVE  0 .. n - 1 \in SUBSET Nat /\ \A i \in 0 .. n - 1 : i < Bytes.Size
BY BufferFacts, GetInside

LEMMA ValidateTableIInv == IInv /\ ValidateTable => IInv'
<1> SUFFICES ASSUME IInv, ValidateTable PROVE IInv'
  OBVIOUS
<1>0. TypeOK /\ Length \in Nat
  BY BufferFacts DEF IInv
<1>1. CASE NullArgument
  BY <1>1, FailTableIInv DEF NullArgument, Statuses, Rung
<1>2. CASE NoHeader
  BY <1>2, FailTableIInv DEF NoHeader, Statuses, Rung
<1>3. CASE ShortLength
  <2>1. /\ turn = "table" /\ Get(HeaderSize) /\ Length < HeaderSize
        /\ FailTable("InvalidLength", LengthReads)
    BY <1>3 DEF ShortLength, GotHeader
  <2>2. Rung("InvalidLength")
    BY <2>1 DEF Rung
  <2> QED
    BY <1>0, <2>1, <2>2, HeaderReads, FailTableIInv DEF LengthReads, Statuses
<1>4. CASE LongLength
  <2>1. /\ turn = "table" /\ Get(HeaderSize) /\ Length >= HeaderSize
        /\ ~Get(Length) /\ FailTable("TruncatedData", LengthReads)
    BY <1>4 DEF LongLength, GotHeader
  <2>2. Rung("TruncatedData")
    BY <2>1 DEF Rung
  <2> QED
    BY <1>0, <2>1, <2>2, HeaderReads, FailTableIInv DEF LengthReads, Statuses
<1>5. CASE BelowMinimum
  <2>1. /\ turn = "table" /\ Get(HeaderSize) /\ Length >= HeaderSize
        /\ Get(Length) /\ ~LongEnough /\ FailTable("InvalidLength", {0, 1})
    BY <1>5 DEF BelowMinimum, GotTable, GotHeader
  <2>2. Rung("InvalidLength")
    BY <2>1 DEF Rung
  <2> QED
    BY <1>0, <2>1, <2>2, HeaderReads, FailTableIInv DEF Statuses
<1>6. CASE BadTable
  <2>1. /\ turn = "table" /\ Get(HeaderSize) /\ Length >= HeaderSize
        /\ Get(Length) /\ LongEnough /\ FailTable("BadChecksum", 0 .. Length - 1)
    BY <1>6 DEF BadTable, GotTable, GotHeader
  <2>2. Rung("BadChecksum")
    BY <1>6, <2>1 DEF BadTable, Rung
  <2>3. 0 .. Length - 1 \in SUBSET Nat /\ \A i \in 0 .. Length - 1 : i < Bytes.Size
    BY <1>0, <2>1, SumReads
  <2>4. "BadChecksum" \in Statuses \ {"Success"}
    BY DEF Statuses
  <2> QED
    BY <2>1, <2>2, <2>3, <2>4, FailTableIInv
<1>7. CASE AcpiValidateTable
  <2> DEFINE v == [Size |-> Length, Known |-> Known]
             r == IF ValidateChecksum THEN 0 .. Length - 1 ELSE {0, 1}
  <2>1. /\ turn = "table" /\ Get(HeaderSize) /\ Length >= HeaderSize
        /\ Get(Length) /\ LongEnough
        /\ ReturnTable("Success", v, r)
    BY <1>7 DEF AcpiValidateTable, GotTable, GotHeader, DataSize
  <2>2. Rung("Success")
    BY <1>7, <2>1 DEF AcpiValidateTable, Rung
  <2>3. r \in SUBSET Nat /\ \A i \in r : i < Bytes.Size
    BY <1>0, <2>1, SumReads, HeaderReads
  <2>4. v \in [Size : Nat, Known : BOOLEAN]
    BY <1>0 DEF Known
  <2>5. v.Size = Length /\ (v.Known => Known)
    BY Zenon
  <2>6. Length <= Bytes.Size
    BY <1>0, <2>1, GetInside
  <2>7. "Success" \in Statuses
    BY DEF Statuses
  <2> HIDE DEF v, r
  <2> QED
    BY <2>1, <2>2, <2>3, <2>4, <2>5, <2>6, <2>7, ReturnTableIInv
<1> QED
  BY <1>1, <1>2, <1>3, <1>4, <1>5, <1>6, <1>7 DEF ValidateTable

-----------------------------------------------------------------------------
(* TryParse, after AcpiValidateTable has judged the same bytes.            *)
Agrees(s, v) ==
  Bytes.Valid /\ Status # "InvalidArgument" =>
    \/ s = Status /\ v.Size = View.Size
    \/ /\ Status = "InvalidLength" /\ s \in {"Success", "BadChecksum"}
       /\ Known /\ Length >= HeaderSize /\ Length < MinimumSize[Signature]

LEMMA ReturnManagedIInv ==
  ASSUME IInv, turn = "managed",
         NEW s \in Statuses, NEW v \in [Size : Nat, Known : BOOLEAN],
         NEW r \in SUBSET Nat,
         ReturnManaged(s, v, r),
         \A i \in r : i < Bytes.Size,
         Agrees(s, v)
  PROVE  IInv'
<1>1. /\ status' = s /\ table' = v /\ reads' = r /\ turn' = "rsdp"
      /\ UNCHANGED <<Bytes, ValidateChecksum, Status, View, Answer, Rsdp>>
  BY DEF ReturnManaged
<1>2. TypeOK'
  BY <1>1 DEF IInv, TypeOK
<1>3. ReadsInside' /\ RsdpInv'
  BY <1>1 DEF ReadsInside, RsdpInv, NullCall
<1>4. Judged'
  BY <1>1, ArgumentsStay DEF IInv, Judged
<1>5. ViewInv'
  BY <1>1, ArgumentsStay DEF IInv, ViewInv, ViewWhole
<1>6. ValidatorsAgree'
  BY <1>1, ArgumentsStay DEF ValidatorsAgree, Agrees
<1> QED
  BY <1>2, <1>3, <1>4, <1>5, <1>6 DEF IInv

(* The statuses are told apart by the rung they stand for, so that what    *)
(* AcpiValidateTable answered is known from the rung TryParse stops at.    *)
LEMMA FailManagedIInv ==
  ASSUME IInv, turn = "managed",
         NEW s \in Statuses, NEW r \in SUBSET Nat,
         FailManaged(s, r),
         \A i \in r : i < Bytes.Size,
         Bytes.Valid /\ Status # "InvalidArgument" =>
           \/ s = Status
           \/ /\ Status = "InvalidLength" /\ s = "BadChecksum"
              /\ Known /\ Length >= HeaderSize /\ Length < MinimumSize[Signature],
         s # "Success"
  PROVE  IInv'
<1>1. NoView \in [Size : Nat, Known : BOOLEAN]
  BY DEF NoView
<1>2. Status # "Success" => View = NoView
  BY DEF IInv, ViewInv
<1>3. Agrees(s, NoView)
  BY <1>2 DEF Agrees
<1> QED
  BY <1>1, <1>3, ReturnManagedIInv DEF FailManaged

LEMMA ParseIInv == IInv /\ Parse => IInv'
<1> SUFFICES ASSUME IInv, Parse PROVE IInv'
  OBVIOUS
<1>0. /\ TypeOK /\ Length \in Nat /\ HeaderSize \in Nat /\ Bytes.Size \in Nat
      /\ turn = "managed" /\ Rung(Status)
      /\ Signature \in DOMAIN MinimumSize => MinimumSize[Signature] \in Nat
  BY BufferFacts, LayoutAssumption
     DEF IInv, Judged, Parse, NoParse, NoManagedHeader, ShortManagedLength,
         LongManagedLength, BadManagedTable, TryParse, Parsing
<1>1. HeaderFits /\ Bytes.Valid <=> Get(HeaderSize)
  BY <1>0, GetInside DEF HeaderFits
<1>2. LengthFits /\ Bytes.Valid <=> Get(Length)
  BY <1>0, GetInside DEF LengthFits
<1>3. CASE NoParse
  BY <1>0, <1>3, FailManagedIInv DEF NoParse, Statuses
<1>4. CASE NoManagedHeader
  <2>1. Status # "InvalidArgument" => Status = "TruncatedHeader"
    BY <1>0, <1>1, <1>4 DEF NoManagedHeader, Rung
  <2> QED
    BY <1>0, <1>4, <2>1, FailManagedIInv DEF NoManagedHeader, Statuses
<1>5. CASE ShortManagedLength
  <2>1. /\ Get(HeaderSize) /\ Length < HeaderSize /\ ~(Length >= HeaderSize)
        /\ FailManaged("InvalidLength", LengthReads)
    BY <1>0, <1>1, <1>5 DEF ShortManagedLength, Parsing
  <2>2. Status # "InvalidArgument" => Status = "InvalidLength"
    BY <1>0, <2>1 DEF Rung
  <2> QED
    BY <1>0, <2>1, <2>2, HeaderReads, FailManagedIInv DEF LengthReads, Statuses
<1>6. CASE LongManagedLength
  <2>1. /\ Get(HeaderSize) /\ Length >= HeaderSize /\ ~(Length < HeaderSize)
        /\ ~Get(Length) /\ FailManaged("TruncatedData", LengthReads)
    BY <1>0, <1>1, <1>2, <1>6 DEF LongManagedLength, Parsing
  <2>2. Status # "InvalidArgument" => Status = "TruncatedData"
    BY <1>0, <2>1 DEF Rung
  <2> QED
    BY <1>0, <2>1, <2>2, HeaderReads, FailManagedIInv DEF LengthReads, Statuses
<1>7. ASSUME BadManagedTable \/ TryParse
      PROVE  /\ Get(HeaderSize) /\ Length >= HeaderSize /\ ~(Length < HeaderSize)
             /\ Get(Length)
             /\ 0 .. Length - 1 \in SUBSET Nat
             /\ \A i \in 0 .. Length - 1 : i < Bytes.Size
  BY <1>0, <1>1, <1>2, <1>7, SumReads DEF BadManagedTable, TryParse, Parsing
<1>8. ~LongEnough => Known /\ Length < MinimumSize[Signature]
  BY <1>0 DEF LongEnough, Known
<1>9. CASE BadManagedTable
  <2>1. /\ ValidateChecksum /\ ~Sums(Bytes, Length)
        /\ FailManaged("BadChecksum", 0 .. Length - 1)
    BY <1>9 DEF BadManagedTable
  <2>2. \/ Status \in {"InvalidArgument", "BadChecksum"}
        \/ Status = "InvalidLength" /\ ~LongEnough
    BY <1>0, <1>7, <1>9, <2>1 DEF Rung
  <2>3. "BadChecksum" \in Statuses /\ "BadChecksum" # "Success"
    BY DEF Statuses
  <2> QED
    BY <1>0, <1>7, <1>8, <1>9, <2>1, <2>2, <2>3, FailManagedIInv
<1>10. CASE TryParse
  <2> DEFINE v == [Size |-> Length, Known |-> Known]
             r == 0 .. HeaderSize - 1
                  \cup (IF ValidateChecksum THEN 0 .. Length - 1 ELSE {})
  <2>1. /\ ValidateChecksum => Sums(Bytes, Length)
        /\ ReturnManaged("Success", v, r)
    BY <1>10 DEF TryParse
  <2>2. \/ Status \in {"InvalidArgument", "Success"}
        \/ Status = "InvalidLength" /\ ~LongEnough
    BY <1>0, <1>7, <1>10, <2>1 DEF Rung
  <2>3. v.Size = Length
    OBVIOUS
  <2>4. v \in [Size : Nat, Known : BOOLEAN]
    BY <1>0 DEF Known
  <2>5. r \in SUBSET Nat /\ \A i \in r : i < Bytes.Size
    <3>1. /\ 0 .. HeaderSize - 1 \in SUBSET Nat
          /\ \A i \in 0 .. HeaderSize - 1 : i < Bytes.Size
      BY <1>0, <1>7, <1>10, SumReads
    <3> QED
      BY <1>7, <1>10, <3>1
  <2>6. Status = "Success" => View.Size = Length
    BY <1>0 DEF IInv, ViewInv, ViewWhole
  <2> HIDE DEF v, r
  <2>7. Agrees("Success", v)
    BY <1>7, <1>8, <1>10, <2>2, <2>3, <2>6 DEF Agrees
  <2>8. "Success" \in Statuses
    BY DEF Statuses
  <2> QED
    BY <1>0, <2>1, <2>4, <2>5, <2>7, <2>8, ReturnManagedIInv
<1> QED
  BY <1>3, <1>4, <1>5, <1>6, <1>9, <1>10 DEF Parse

-----------------------------------------------------------------------------
(* AcpiValidateRsdp.                                                       *)
LEMMA ReturnRsdpIInv ==
  ASSUME IInv, turn = "rsdp",
         NEW s \in Statuses, NEW r \in SUBSET Nat,
         ReturnRsdp(s, r),
         \A i \in r : i < Bytes.Size,
         s = "Success" <=> RsdpWhole /\ ~(s = "InvalidArgument" /\ r = {})
  PROVE  IInv'
<1>1. /\ Answer' = s /\ reads' = r /\ turn' = "done"
      /\ UNCHANGED <<Bytes, ValidateChecksum, Status, View, status, table>>
  BY DEF ReturnRsdp
<1>2. Rsdp' \in BOOLEAN /\ (Rsdp' <=> s = "Success")
  BY Zenon DEF ReturnRsdp
<1>3. TypeOK'
  BY <1>1, <1>2 DEF IInv, TypeOK
<1>4. ReadsInside'
  BY <1>1 DEF ReadsInside
<1>5. Judged'
  BY <1>1, ArgumentsStay DEF IInv, Judged
<1>6. ViewInv'
  BY <1>1, ArgumentsStay DEF IInv, ViewInv, ViewWhole
<1>7. RsdpInv'
  BY <1>1, <1>2, ArgumentsStay DEF RsdpInv, NullCall
<1>8. ValidatorsAgree'
  BY <1>1, ArgumentsStay DEF IInv, ValidatorsAgree
<1> QED
  BY <1>3, <1>4, <1>5, <1>6, <1>7, <1>8 DEF IInv

LEMMA ValidateRsdpIInv == IInv /\ ValidateRsdp => IInv'
<1> SUFFICES ASSUME IInv, ValidateRsdp PROVE IInv'
  OBVIOUS
<1> USE DEF Statuses
<1>0. /\ TypeOK /\ turn = "rsdp"
      /\ Bytes.Size \in Nat /\ LegacySize \in Nat /\ LegacySize >= 2
      /\ XsdtOffset \in Nat /\ LegacySize < XsdtOffset
      /\ RsdpSize \in Nat /\ XsdtOffset < RsdpSize
      /\ Revision \in Nat /\ RsdpLength \in Nat
  BY BufferFacts
     DEF IInv, ValidateRsdp, NullRsdp, NoRsdp, OtherSignature, BadLegacySum,
         AcpiValidateRsdp10, NoRsdpLength, ShortRsdp, LongRsdp, BadExtendedSum,
         AcpiValidateRsdp20, Extended, Legacy, IsRsdp, AtRsdp
<1>1. /\ Get(LegacySize) <=> Bytes.Valid /\ LegacySize <= Bytes.Size
      /\ Get(XsdtOffset) <=> Bytes.Valid /\ XsdtOffset <= Bytes.Size
      /\ Get(RsdpLength) <=> Bytes.Valid /\ RsdpLength <= Bytes.Size
  BY <1>0, GetInside
<1>2. AtRsdp => /\ Get(LegacySize)
                /\ LegacyReads \in SUBSET Nat
                /\ \A i \in LegacyReads : i < Bytes.Size
                /\ 0 < Bytes.Size
  BY <1>0, <1>1 DEF AtRsdp, LegacyReads
<1>3. Extended => /\ Legacy /\ Revision >= 2 /\ Get(XsdtOffset)
                  /\ ExtendedReads \in SUBSET Nat
                  /\ \A i \in ExtendedReads : i < Bytes.Size
  BY <1>0, <1>1 DEF Extended, LengthThere, ExtendedReads, LegacyReads
<1>4. Legacy => /\ AtRsdp /\ Signature = RsdpSignature /\ Sums(Bytes, LegacySize)
  BY DEF Legacy, IsRsdp, LegacySum
<1>5. CASE NoRsdp
  BY <1>0, <1>1, <1>5, ReturnRsdpIInv DEF NoRsdp, RsdpWhole
<1>6. CASE OtherSignature
  BY <1>0, <1>2, <1>6, ReturnRsdpIInv DEF OtherSignature, RsdpWhole
<1>7. CASE BadLegacySum
  BY <1>0, <1>2, <1>7, ReturnRsdpIInv DEF BadLegacySum, IsRsdp, LegacySum, RsdpWhole
<1>8. CASE AcpiValidateRsdp10
  <2>1. RsdpWhole
    BY <1>0, <1>1, <1>2, <1>4, <1>8 DEF AcpiValidateRsdp10, RsdpWhole
  <2> QED
    BY <1>0, <1>2, <1>4, <1>8, <2>1, ReturnRsdpIInv DEF AcpiValidateRsdp10
<1>9. CASE NoRsdpLength
  <2>1. ~RsdpWhole
    BY <1>0, <1>1, <1>2, <1>4, <1>9 DEF NoRsdpLength, LengthThere, RsdpWhole
  <2> QED
    BY <1>0, <1>2, <1>4, <1>9, <2>1, ReturnRsdpIInv DEF NoRsdpLength
<1>10. CASE ShortRsdp
  <2>1. ~RsdpWhole
    BY <1>0, <1>3, <1>10 DEF ShortRsdp, RsdpWhole
  <2> QED
    BY <1>0, <1>3, <1>10, <2>1, ReturnRsdpIInv DEF ShortRsdp
<1>11. CASE LongRsdp
  <2>1. ~RsdpWhole
    BY <1>0, <1>1, <1>3, <1>11 DEF LongRsdp, RsdpWhole
  <2> QED
    BY <1>0, <1>3, <1>11, <2>1, ReturnRsdpIInv DEF LongRsdp
<1>12. CASE BadExtendedSum
  <2>1. ~RsdpWhole
    BY <1>0, <1>3, <1>12 DEF BadExtendedSum, RsdpWhole
  <2>2. Get(RsdpLength) /\ ReturnRsdp("BadChecksum", 0 .. RsdpLength - 1)
    BY <1>12 DEF BadExtendedSum
  <2> QED
    BY <1>0, <2>1, <2>2, SumReads, ReturnRsdpIInv
<1>13. CASE AcpiValidateRsdp20
  <2>1. Get(RsdpLength) /\ ReturnRsdp("Success", 0 .. RsdpLength - 1)
    BY <1>13 DEF AcpiValidateRsdp20
  <2>2. RsdpWhole
    BY <1>0, <1>1, <1>2, <1>3, <1>4, <1>13 DEF AcpiValidateRsdp20, RsdpWhole
  <2> QED
    BY <1>0, <2>1, <2>2, SumReads, ReturnRsdpIInv
<1>14. CASE NullRsdp
  BY <1>0, <1>14, ReturnRsdpIInv DEF NullRsdp
<1> QED
  BY <1>5, <1>6, <1>7, <1>8, <1>9, <1>10, <1>11, <1>12, <1>13, <1>14
     DEF ValidateRsdp

LEMMA NextIInv == IInv /\ [Next]_vars => IInv'
<1> SUFFICES ASSUME IInv, [Next]_vars PROVE IInv'
  OBVIOUS
<1>1. CASE UNCHANGED vars
  <2>1. UNCHANGED <<Bytes, ValidateChecksum>>
    BY <1>1 DEF vars
  <2>2. TypeOK' /\ ReadsInside' /\ RsdpInv'
    BY <1>1, <2>1, ArgumentsStay DEF vars, IInv, TypeOK, ReadsInside, RsdpInv, NullCall
  <2>3. Judged' /\ ViewInv' /\ ValidatorsAgree'
    BY <1>1, <2>1, ArgumentsStay
       DEF vars, IInv, Judged, ViewInv, ViewWhole, ValidatorsAgree
  <2> QED
    BY <2>2, <2>3 DEF IInv
<1> QED
  BY <1>1, ValidateTableIInv, ParseIInv, ValidateRsdpIInv DEF Next

-----------------------------------------------------------------------------
(* The sum of bytes.  Every induction is over the least counterexample.    *)
LEMMA Least ==
  ASSUME NEW T, T \subseteq Nat, T # {}
  PROVE  \E m \in T : \A k \in T : m <= k
<1> DEFINE R == OpToRel(<, Nat)
<1>1. IsWellFoundedOn(R, Nat)
  BY NatLessThanWellFounded
<1>2. \A k, m \in Nat : k < m => <<k, m>> \in R
  BY DEF OpToRel
<1> HIDE DEF R
<1>3. PICK m \in T : \A k \in T : ~(<<k, m>> \in R)
  BY <1>1, WFMin
<1>4. ASSUME NEW k \in T PROVE m <= k
  <2>1. k \in Nat /\ m \in Nat
    OBVIOUS
  <2>2. ~(k < m)
    BY <1>2, <1>3, <2>1
  <2> QED
    BY <2>1, <2>2
<1> QED
  BY <1>4

(* What FirmwareChecksum8 has in Sum after each of the first n bytes of b. *)
IsRun(b, n, g) ==
  /\ g \in [0 .. n -> Nat]
  /\ g[0] = 0
  /\ \A k \in 1 .. n : g[k] = BytePlus(g[k - 1], ByteAt(b, k - 1))

LEMMA BytePlusType ==
  ASSUME NEW a \in Nat, NEW v \in Nat
  PROVE  BytePlus(a, v) \in Nat
BY ModulusAssumption DEF BytePlus

LEMMA RunExists ==
  ASSUME NEW b, \A i \in Nat : ByteAt(b, i) \in Nat, NEW n \in Nat
  PROVE  \E g : IsRun(b, n, g)
<1> DEFINE T == { k \in Nat : ~ \E g : IsRun(b, k, g) }
<1>1. T = {}
  <2> SUFFICES ASSUME T # {} PROVE FALSE
    OBVIOUS
  <2>1. PICK m \in T : \A k \in T : m <= k
    BY Least
  <2>2. CASE m = 0
    <3> DEFINE g == [k \in 0 .. 0 |-> 0]
    <3>1. IsRun(b, 0, g)
      BY DEF IsRun
    <3> QED
      BY <2>1, <2>2, <3>1
  <2>3. CASE m # 0
    <3>1. m \in Nat /\ m - 1 \in Nat /\ m - 1 \notin T
      BY <2>1, <2>3
    <3>2. PICK g : IsRun(b, m - 1, g)
      BY <3>1
    <3> DEFINE last == BytePlus(g[m - 1], ByteAt(b, m - 1))
               h == [k \in 0 .. m |-> IF k = m THEN last ELSE g[k]]
    <3>3. /\ g \in [0 .. m - 1 -> Nat] /\ g[0] = 0
          /\ m - 1 \in 0 .. m - 1 /\ g[m - 1] \in Nat
      <4>1. g \in [0 .. m - 1 -> Nat] /\ g[0] = 0
        BY <3>2 DEF IsRun
      <4>2. m - 1 \in 0 .. m - 1
        BY <3>1
      <4> QED
        BY <4>1, <4>2
    <3>4. last \in Nat
      BY <3>1, <3>3, BytePlusType
    <3>5. \A k \in 0 .. m : k # m => k \in 0 .. m - 1
      BY <3>1
    <3> HIDE DEF last
    <3>6. h \in [0 .. m -> Nat] /\ h[0] = 0
      BY <2>3, <3>1, <3>3, <3>4, <3>5
    <3>7. ASSUME NEW k \in 1 .. m
          PROVE  h[k] = BytePlus(h[k - 1], ByteAt(b, k - 1))
      <4>1. h[k - 1] = g[k - 1]
        BY <3>1
      <4>2. CASE k = m
        BY <3>1, <4>1, <4>2 DEF last
      <4>3. CASE k # m
        <5>1. k \in 1 .. m - 1 /\ h[k] = g[k]
          BY <3>1, <4>3
        <5> QED
          BY <3>2, <4>1, <5>1 DEF IsRun
      <4> QED
        BY <4>2, <4>3
    <3>8. IsRun(b, m, h)
      BY <3>6, <3>7 DEF IsRun
    <3> QED
      BY <2>1, <3>8
  <2> QED
    BY <2>2, <2>3
<1> QED
  BY <1>1

(* Two runs agree as far as both reach.                                    *)
LEMMA RunUnique ==
  ASSUME NEW b, NEW n \in Nat, NEW p \in Nat, NEW g, NEW h,
         IsRun(b, n, g), IsRun(b, p, h),
         NEW k \in 0 .. n, k <= p
  PROVE  g[k] = h[k]
<1> DEFINE T == { j \in Nat : j <= n /\ j <= p /\ g[j] # h[j] }
<1>1. T = {}
  <2> SUFFICES ASSUME T # {} PROVE FALSE
    OBVIOUS
  <2>1. PICK m \in T : \A j \in T : m <= j
    BY Least
  <2>2. m # 0 /\ m \in Nat /\ m <= n /\ m <= p
    BY <2>1 DEF IsRun
  <2>3. m - 1 \in Nat /\ m - 1 \notin T
    BY <2>1, <2>2
  <2>4. g[m - 1] = h[m - 1]
    BY <2>2, <2>3
  <2>5. m \in 1 .. n /\ m \in 1 .. p
    BY <2>2
  <2>6. g[m] = h[m]
    BY <2>4, <2>5 DEF IsRun
  <2> QED
    BY <2>1, <2>6
<1> QED
  BY <1>1

(* The equation of the recursive function Sum8.                            *)
LEMMA SumEquation ==
  ASSUME NEW b, \A i \in Nat : ByteAt(b, i) \in Nat
  PROVE  Sum8(b) = [n \in Nat |->
           IF n = 0 THEN 0 ELSE BytePlus(Sum8(b)[n - 1], ByteAt(b, n - 1))]
<1> DEFINE Run(n) == CHOOSE g : IsRun(b, n, g)
           F == [n \in Nat |-> Run(n)[n]]
<1>1. \A n \in Nat : IsRun(b, n, Run(n))
  BY RunExists
<1> HIDE DEF Run
<1>2. F[0] = 0
  BY <1>1 DEF IsRun
<1>3. ASSUME NEW n \in Nat, n # 0
      PROVE  F[n] = BytePlus(F[n - 1], ByteAt(b, n - 1))
  <2>1. n - 1 \in Nat /\ n \in 1 .. n /\ n - 1 \in 0 .. n /\ n - 1 <= n - 1
    BY <1>3
  <2>2. IsRun(b, n, Run(n)) /\ IsRun(b, n - 1, Run(n - 1))
    BY <1>1, <2>1
  <2>3. Run(n)[n - 1] = Run(n - 1)[n - 1]
    BY <2>1, <2>2, RunUnique
  <2>4. Run(n)[n] = BytePlus(Run(n)[n - 1], ByteAt(b, n - 1))
    BY <2>1, <2>2 DEF IsRun
  <2> QED
    BY <2>1, <2>3, <2>4
<1>4. F = [n \in Nat |->
             IF n = 0 THEN 0 ELSE BytePlus(F[n - 1], ByteAt(b, n - 1))]
  BY <1>2, <1>3
<1> HIDE DEF F
<1> QED
  BY <1>4, Zenon DEF Sum8

LEMMA SumStep ==
  ASSUME NEW b, \A i \in Nat : ByteAt(b, i) \in Nat
  PROVE  /\ Sum8(b)[0] = 0
         /\ \A n \in Nat \ {0} :
              Sum8(b)[n] = BytePlus(Sum8(b)[n - 1], ByteAt(b, n - 1))
BY SumEquation

LEMMA SumType ==
  ASSUME NEW b, \A i \in Nat : ByteAt(b, i) \in Nat /\ ByteAt(b, i) < Modulus,
         NEW n \in Nat
  PROVE  Sum8(b)[n] \in Nat /\ Sum8(b)[n] < Modulus
<1> DEFINE T == { k \in Nat : ~(Sum8(b)[k] \in Nat /\ Sum8(b)[k] < Modulus) }
<1>0. Modulus \in Nat /\ 0 < Modulus
  BY ModulusAssumption, FirmwareAssumption
<1>1. T = {}
  <2> SUFFICES ASSUME T # {} PROVE FALSE
    OBVIOUS
  <2>1. PICK m \in T : \A k \in T : m <= k
    BY Least
  <2>2. m # 0
    BY <1>0, <2>1, SumStep
  <2>3. m \in Nat \ {0} /\ m - 1 \in Nat /\ m - 1 \notin T
    BY <2>1, <2>2
  <2>4. Sum8(b)[m - 1] \in Nat /\ Sum8(b)[m - 1] < Modulus
    BY <2>3
  <2>5. Sum8(b)[m] = BytePlus(Sum8(b)[m - 1], ByteAt(b, m - 1))
    BY <2>3, SumStep
  <2>6. ByteAt(b, m - 1) \in Nat /\ ByteAt(b, m - 1) < Modulus
    BY <2>3
  <2>7. Sum8(b)[m] \in Nat /\ Sum8(b)[m] < Modulus
    BY <1>0, <2>4, <2>5, <2>6 DEF BytePlus
  <2> QED
    BY <2>1, <2>7
<1> QED
  BY <1>1

(* The wrapping addition forgets neither of its arguments.                 *)
LEMMA PlusInjective ==
  ASSUME NEW a \in Nat, NEW c \in Nat, NEW v \in Nat, NEW w \in Nat,
         a < Modulus, c < Modulus, v < Modulus, w < Modulus
  PROVE  /\ a # c => BytePlus(a, v) # BytePlus(c, v)
         /\ v # w => BytePlus(a, v) # BytePlus(a, w)
BY ModulusAssumption DEF BytePlus

(* Of two buffers that differ in one byte, the sums are equal up to that   *)
(* byte and differ from there on: what was added is never lost again.      *)
LEMMA SumsDiffer ==
  ASSUME NEW b, \A j \in Nat : ByteAt(b, j) \in Nat /\ ByteAt(b, j) < Modulus,
         NEW d, \A j \in Nat : ByteAt(d, j) \in Nat /\ ByteAt(d, j) < Modulus,
         NEW i \in Nat, ByteAt(b, i) # ByteAt(d, i),
         \A j \in Nat \ {i} : ByteAt(b, j) = ByteAt(d, j),
         NEW n \in Nat
  PROVE  Sum8(b)[n] = Sum8(d)[n] <=> n <= i
<1> DEFINE T == { k \in Nat : ~(Sum8(b)[k] = Sum8(d)[k] <=> k <= i) }
<1>1. T = {}
  <2> SUFFICES ASSUME T # {} PROVE FALSE
    OBVIOUS
  <2>1. PICK m \in T : \A k \in T : m <= k
    BY Least
  <2>2. m # 0
    BY <2>1, SumStep
  <2>3. m \in Nat \ {0} /\ m - 1 \in Nat /\ m - 1 \notin T
    BY <2>1, <2>2
  <2>4. Sum8(b)[m - 1] = Sum8(d)[m - 1] <=> m - 1 <= i
    BY <2>3
  <2>5. /\ Sum8(b)[m] = BytePlus(Sum8(b)[m - 1], ByteAt(b, m - 1))
        /\ Sum8(d)[m] = BytePlus(Sum8(d)[m - 1], ByteAt(d, m - 1))
    BY <2>3, SumStep
  <2>6. /\ {Sum8(b)[m - 1], Sum8(d)[m - 1]} \subseteq Nat
        /\ Sum8(b)[m - 1] < Modulus /\ Sum8(d)[m - 1] < Modulus
    BY <2>3, SumType
  <2>7. /\ {ByteAt(b, m - 1), ByteAt(d, m - 1)} \subseteq Nat
        /\ ByteAt(b, m - 1) < Modulus /\ ByteAt(d, m - 1) < Modulus
    BY <2>3
  <2>8. Sum8(b)[m] = Sum8(d)[m] <=> m <= i
    <3>1. CASE m - 1 < i
      BY <2>3, <2>4, <2>5, <3>1
    <3>2. CASE m - 1 = i
      <4>1. Sum8(b)[m - 1] = Sum8(d)[m - 1]
        BY <2>3, <2>4, <3>2
      <4>2. BytePlus(Sum8(b)[m - 1], ByteAt(b, m - 1))
            # BytePlus(Sum8(b)[m - 1], ByteAt(d, m - 1))
        BY <2>6, <2>7, <3>2, PlusInjective
      <4> QED
        BY <2>3, <2>5, <3>2, <4>1, <4>2
    <3>3. CASE m - 1 > i
      <4>1. Sum8(b)[m - 1] # Sum8(d)[m - 1]
        BY <2>3, <2>4, <3>3
      <4>2. ByteAt(b, m - 1) = ByteAt(d, m - 1)
        BY <2>3, <3>3
      <4>3. BytePlus(Sum8(b)[m - 1], ByteAt(b, m - 1))
            # BytePlus(Sum8(d)[m - 1], ByteAt(b, m - 1))
        BY <2>6, <2>7, <4>1, PlusInjective
      <4> QED
        BY <2>3, <2>5, <3>3, <4>2, <4>3
    <3> QED
      BY <2>3, <3>1, <3>2, <3>3
  <2> QED
    BY <2>1, <2>8
<1> QED
  BY <1>1

-----------------------------------------------------------------------------
(* The ladders of AcpiValidateTable, TryParse and AcpiValidateRsdp read no *)
(* field and sum no range before it is known to lie in the buffer.         *)
THEOREM ValidatorsStayInside == Spec => []MemorySafe
<1>1. IInv => MemorySafe
  BY DEF IInv, MemorySafe, ReadsInside
<1> QED
  BY InitIInv, NextIInv, <1>1, PTL DEF Spec

(* A table is accepted only whole, and an RSDP exactly when it is whole.   *)
THEOREM OnlyWholeAccepted == Spec => []AcceptedWhole
<1>1. IInv => AcceptedWhole
  BY DEF IInv, AcceptedWhole, ViewInv, RsdpInv
<1> QED
  BY InitIInv, NextIInv, <1>1, PTL DEF Spec

(* AcpiValidateTable and TryParse give one verdict on the same bytes, but  *)
(* for the minimum sizes that only native code knows.                      *)
THEOREM OneVerdict == Spec => []ValidatorsAgree
<1>1. IInv => ValidatorsAgree
  BY DEF IInv
<1> QED
  BY InitIInv, NextIInv, <1>1, PTL DEF Spec

(* A table accepted with its checksum is refused when one byte of it, not  *)
(* of its length, is another: the eight-bit sum detects every such change, *)
(* whatever the bytes, the length of the table and the width of the sum.   *)
THEOREM ChangesAreDetected == Spec => []ChecksumDetects
<1>1. IInv => ChecksumDetects
  <2> SUFFICES ASSUME IInv, turn # "table", Status = "Success", ValidateChecksum,
                      NEW i \in 0 .. View.Size - 1,
                      NEW v \in Byte \ {Bytes.Data[i]}
               PROVE  ~Sums(Changed(Bytes, i, v), View.Size)
    BY DEF ChecksumDetects
  <2> DEFINE d == Changed(Bytes, i, v)
  <2>1. /\ View.Size = Length /\ Length <= Bytes.Size /\ Length \in Nat
        /\ Bytes.Size \in Nat /\ Bytes.Data \in [0 .. Bytes.Size - 1 -> Byte]
    BY BufferFacts DEF IInv, ViewInv, ViewWhole, Buffer
  <2>2. Sums(Bytes, Length)
    BY DEF IInv, Judged, Rung
  <2>3. d.Size = Bytes.Size /\ d.Data = [Bytes.Data EXCEPT ![i] = v]
    BY DEF IInv, TypeOK, IsBuffer, Buffer, Changed
  <2> HIDE DEF d
  <2>4. i \in 0 .. Bytes.Size - 1 /\ i \in Nat
    BY <2>1
  <2>5. \A j \in Nat : ByteAt(Bytes, j) \in Byte /\ ByteAt(d, j) \in Byte
    BY <2>1, <2>3, FirmwareAssumption DEF ByteAt
  <2>6. ByteAt(Bytes, i) # ByteAt(d, i)
    BY <2>1, <2>3, <2>4 DEF ByteAt
  <2>7. \A j \in Nat \ {i} : ByteAt(Bytes, j) = ByteAt(d, j)
    BY <2>1, <2>3 DEF ByteAt
  <2>8. \A j \in Nat : /\ ByteAt(Bytes, j) \in Nat /\ ByteAt(Bytes, j) < Modulus
                       /\ ByteAt(d, j) \in Nat /\ ByteAt(d, j) < Modulus
    BY <2>5, FirmwareAssumption, ModulusAssumption
  <2>9. Sum8(Bytes)[Length] = Sum8(d)[Length] <=> Length <= i
    <3>1. /\ \A j \in Nat : ByteAt(Bytes, j) \in Nat /\ ByteAt(Bytes, j) < Modulus
          /\ \A j \in Nat : ByteAt(d, j) \in Nat /\ ByteAt(d, j) < Modulus
      BY <2>8
    <3>2. i \in Nat
      BY <2>4
    <3>3. \A n \in Nat : Sum8(Bytes)[n] = Sum8(d)[n] <=> n <= i
      BY <2>6, <2>7, <3>1, <3>2, SumsDiffer
    <3> QED
      BY <2>1, <3>3
  <2>10. Sum8(d)[Length] # 0
    BY <2>1, <2>2, <2>9 DEF Sums
  <2> QED
    BY <2>1, <2>10 DEF Sums, d
<1> QED
  BY InitIInv, NextIInv, <1>1, PTL DEF Spec

=============================================================================
