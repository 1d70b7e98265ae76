------------------------- MODULE SmbiosFieldsProofs -------------------------
(***************************************************************************)
(* Proofs about SmbiosFields, for every metadata that is well-formed and   *)
(* every structure: the printer reads inside the formatted area only, and  *)
(* shows what the managed reader reads.                                    *)
(*                                                                         *)
(* The argument goes along the rows.  Of the rows before Index those with  *)
(* bytes of their own lie inside the structure, since otherwise the loop   *)
(* would have stopped there; BitField is empty after such a row and names  *)
(* the last of them after a bit-field, so that a bit-field is always taken *)
(* from the row that the generator chose.  Where the loop stops, the rows  *)
(* that follow reach at least as far, hence no reader reads them either.   *)
(***************************************************************************)
EXTENDS SmbiosFields, TLAPS

(* The rows whose value both sides give, and the place the managed reader  *)
(* gives for one.                                                          *)
Read == {"UInt", "Bit", "Enum", "String"}
Reads(fields, k) == TryReadUnsigned(fields, k) \/ TryGetString(fields, k)
PlaceOf(fields, k) ==
  IF fields[k].Type = "String" THEN Whole(k, fields[k].Offset, 1)
  ELSE Unsigned(fields, k)

Known == \E t \in 1 .. Len(Metadata) : /\ TypeInfo = Metadata[t]
                                         /\ Metadata[t].Type = Header.Type

InReach ==
  \A k \in 1 .. Len(Fields) :
    k < Index /\ ~Fields[k].IsBitField => End(Fields[k]) <= Header.Length

Carried ==
  IF Index = 1 \/ ~Fields[Index - 1].IsBitField
  THEN BitField.Size = 0
  ELSE \E b \in 1 .. Index - 2 :
         /\ Backs(Fields, b, Index - 1)
         /\ BitField = [Offset |-> Fields[b].Offset, Size |-> Fields[b].Size]

Agreed ==
  /\ \A s \in shown : /\ s.Row \in 1 .. Len(Fields)
                      /\ s.Row < Index
                      /\ Fields[s.Row].Type \in Read =>
                           /\ Reads(Fields, s.Row)
                           /\ s = PlaceOf(Fields, s.Row)
  /\ \A k \in 1 .. Len(Fields) :
       k < Index /\ Reads(Fields, k) => PlaceOf(Fields, k) \in shown

IInv ==
  /\ CopiesInside
  /\ stage = "find" => Index = 1 /\ BitField.Size = 0 /\ shown = {}
  /\ stage = "rows" => /\ Known
                       /\ Index \in 1 .. Len(Fields) + 1
                       /\ InReach /\ Carried /\ Agreed
  /\ stage = "done" =>
       \/ /\ shown = {}
          /\ \A t \in 1 .. Len(Metadata) : Metadata[t].Type # Header.Type
       \/ /\ Known /\ Agreed
          /\ \A k \in 1 .. Len(Fields) : Index <= k => ~Reads(Fields, k)

-----------------------------------------------------------------------------
(* The rows of a known type are well-formed.                               *)
LEMMA KnownFields ==
  ASSUME Known
  PROVE  WellFormed(Fields) /\ Fields \in Seq(Rows) /\ Len(Fields) \in Nat
<1>1. WellFormed(Fields)
  BY MetadataAssumption DEF Known, Fields
<1>2. Fields \in Seq(Rows)
  BY <1>1 DEF WellFormed
<1> QED
  BY <1>1, <1>2

(* What the assumptions say of one row.                                    *)
LEMMA RowFacts ==
  ASSUME Known, NEW k \in 1 .. Len(Fields)
  PROVE  /\ WellFormed(Fields)
         /\ Fields \in Seq(Rows)
         /\ Fields[k].IsBitField \in BOOLEAN
         /\ Fields[k].Offset \in Nat
         /\ Fields[k].Size \in Nat \ {0}
         /\ End(Fields[k]) \in Nat
         /\ Fields[k].IsBitField => BitRowOf(Fields, k)
         /\ ~Fields[k].IsBitField => OrdinaryRow(Fields[k])
<1>1. WellFormed(Fields)
  BY KnownFields
<1>2. Fields \in Seq(Rows)
  BY KnownFields
<1>3. Fields[k] \in Rows
  BY <1>2
<1>4. /\ Fields[k].IsBitField \in BOOLEAN
      /\ Fields[k].Offset \in Nat
      /\ Fields[k].Size \in Nat
  BY <1>3 DEF Rows
<1>5. IF Fields[k].IsBitField THEN BitRowOf(Fields, k) ELSE OrdinaryRow(Fields[k])
  BY <1>1 DEF WellFormed
<1>6. Fields[k].Size >= 1
  BY <1>5, <1>4 DEF BitRowOf, OrdinaryRow
<1>7. End(Fields[k]) \in Nat
  BY <1>4 DEF End
<1> QED
  BY <1>1, <1>2, <1>4, <1>5, <1>6, <1>7

(* At most one row holds the bits of a bit-field.                          *)
LEMMA BackingUnique ==
  ASSUME NEW fields, NEW k \in Nat,
         NEW a \in 1 .. k - 1, NEW b \in 1 .. k - 1,
         Backs(fields, a, k), Backs(fields, b, k)
  PROVE  a = b
<1>1. ~(a < b)
  BY DEF Backs
<1>2. ~(b < a)
  BY DEF Backs
<1> QED
  BY <1>1, <1>2

(* ... so that the generator finds the one there is.                       *)
LEMMA BackingIs ==
  ASSUME NEW fields, NEW k \in Nat, NEW b \in 1 .. k - 1, Backs(fields, b, k)
  PROVE  GeneratedBacking(fields, k) = b
<1>1. /\ GeneratedBacking(fields, k) \in 1 .. k - 1
      /\ Backs(fields, GeneratedBacking(fields, k), k)
  BY DEF GeneratedBacking
<1> QED
  BY <1>1, BackingUnique

(* The backing row of a bit-field, and all that follows from it.           *)
LEMMA BitRowFacts ==
  ASSUME Known, NEW k \in 1 .. Len(Fields), Fields[k].IsBitField
  PROVE  \E b \in 1 .. k - 1 :
           /\ b \in 1 .. Len(Fields)
           /\ Backs(Fields, b, k)
           /\ GeneratedBacking(Fields, k) = b
           /\ ~Fields[b].IsBitField
           /\ Fields[b].Type = "UInt"
           /\ Printable(Fields[b].Size)
           /\ End(Fields[k]) <= 8 * Fields[b].Size
           /\ Fields[k].Type \in {"UInt", "Bit", "Enum"}
           /\ Fields[k].Type = "Bit" => Fields[k].Size = 1
<1>1. BitRowOf(Fields, k)
  BY RowFacts
<1>2. PICK b \in 1 .. k - 1 : /\ Backs(Fields, b, k)
                              /\ Fields[b].Type = "UInt"
                              /\ End(Fields[k]) <= 8 * Fields[b].Size
  BY <1>1 DEF BitRowOf
<1>3. b \in 1 .. Len(Fields)
  <2>1. Len(Fields) \in Nat
    BY KnownFields
  <2> QED BY <2>1
<1>4. ~Fields[b].IsBitField
  BY <1>2 DEF Backs
<1>5. OrdinaryRow(Fields[b])
  BY <1>3, <1>4, RowFacts
<1>6. Printable(Fields[b].Size)
  BY <1>2, <1>5 DEF OrdinaryRow
<1>7. GeneratedBacking(Fields, k) = b
  <2>1. k \in Nat
    BY RowFacts
  <2> QED BY <2>1, <1>2, BackingIs
<1> QED
  BY <1>1, <1>2, <1>3, <1>4, <1>6, <1>7 DEF BitRowOf

(* BitField, after row Index is known not to be refused, is what the       *)
(* generator has as the place of the bit-field.                            *)
LEMMA Backed ==
  ASSUME IInv, InRows, Row.IsBitField, Prints
  PROVE  LET b == GeneratedBacking(Fields, Index)
         IN  /\ b \in 1 .. Index - 1
             /\ Backs(Fields, b, Index)
             /\ Backing = [Offset |-> Fields[b].Offset, Size |-> Fields[b].Size]
             /\ Generated(Fields, Index) = Fields[b]
             /\ Fields[b].Offset \in Nat /\ Fields[b].Size \in 1 .. 8
             /\ Printable(Fields[b].Size)
             /\ End(Fields[b]) <= Header.Length
             /\ End(Row) <= 8 * Fields[b].Size
             /\ Row.Type \in {"UInt", "Bit", "Enum"}
             /\ Row.Type = "Bit" => Row.Size = 1
             /\ Row.Offset \in Nat /\ Row.Size \in Nat \ {0}
<1>1. /\ Known /\ Index \in 1 .. Len(Fields) /\ InReach /\ Carried
      /\ Len(Fields) \in Nat
  <2>1. Known /\ Index \in 1 .. Len(Fields) + 1 /\ InReach /\ Carried
    BY DEF IInv, InRows
  <2>2. Len(Fields) \in Nat
    BY <2>1, KnownFields
  <2> QED BY <2>1, <2>2 DEF InRows
<1>2. Index \in Nat
  BY <1>1
<1>3. PICK b \in 1 .. Index - 1 :
        /\ b \in 1 .. Len(Fields)
        /\ Backs(Fields, b, Index)
        /\ GeneratedBacking(Fields, Index) = b
        /\ ~Fields[b].IsBitField
        /\ Fields[b].Type = "UInt"
        /\ Printable(Fields[b].Size)
        /\ End(Fields[Index]) <= 8 * Fields[b].Size
        /\ Fields[Index].Type \in {"UInt", "Bit", "Enum"}
        /\ Fields[Index].Type = "Bit" => Fields[Index].Size = 1
  BY <1>1, BitRowFacts DEF Row
<1>4. /\ Fields[b].Offset \in Nat /\ Fields[b].Size \in Nat \ {0}
      /\ Row.Offset \in Nat /\ Row.Size \in Nat \ {0}
  BY <1>1, <1>3, RowFacts DEF Row
<1>5. Fields[b].Size \in 1 .. 8
  BY <1>3, <1>4 DEF Printable
<1>6. End(Fields[b]) <= Header.Length
  BY <1>1, <1>3 DEF InReach
<1>7. Backing = [Offset |-> Fields[b].Offset, Size |-> Fields[b].Size]
  <2>1. Backing = NextBitField
    BY DEF Backing
  <2>2. CASE BitField.Size = 0
    <3>1. Loads
      BY <2>2 DEF Loads
    <3>2. Index # 1 /\ ~Fields[Index - 1].IsBitField
      BY <3>1 DEF Prints, NoBacking
    <3>3. b = Index - 1
      <4>1. SUFFICES ASSUME b < Index - 1 PROVE FALSE
        BY <1>1
      <4>2. Index - 1 \in b + 1 .. Index
        BY <4>1, <1>1
      <4>3. Fields[Index - 1].IsBitField
        BY <4>2, <1>3 DEF Backs
      <4> QED BY <4>3, <3>2
    <3> QED BY <2>1, <3>1, <3>3 DEF NextBitField
  <2>3. CASE BitField.Size # 0
    <3>1. ~Loads
      BY <2>3 DEF Loads
    <3>2. PICK c \in 1 .. Index - 2 :
            /\ Backs(Fields, c, Index - 1)
            /\ BitField = [Offset |-> Fields[c].Offset, Size |-> Fields[c].Size]
      BY <1>1, <2>3 DEF Carried
    <3>3. c \in 1 .. Index - 1
      BY <1>1
    <3>4. Backs(Fields, c, Index)
      BY <3>2, <3>3, <1>1 DEF Backs, Row
    <3>5. c = b
      BY <3>3, <3>4, <1>3, <1>2, BackingUnique
    <3> QED BY <2>1, <3>1, <3>2, <3>5 DEF NextBitField
  <2> QED BY <2>2, <2>3
<1>8. Generated(Fields, Index) = Fields[b]
  BY <1>3 DEF Generated, Row
<1> QED
  BY <1>3, <1>4, <1>5, <1>6, <1>7, <1>8 DEF Row

(* The printer never meets a bit-field without a row to take it from.      *)
LEMMA AlwaysBacking ==
  ASSUME IInv, InRows
  PROVE  ~NoBacking
<1>1. /\ Known /\ Index \in 1 .. Len(Fields) /\ Carried
      /\ Len(Fields) \in Nat
  <2>1. Known /\ Index \in 1 .. Len(Fields) + 1 /\ Carried
    BY DEF IInv, InRows
  <2>2. Len(Fields) \in Nat
    BY <2>1, KnownFields
  <2> QED BY <2>1, <2>2 DEF InRows
<1>2. SUFFICES ASSUME Row.IsBitField, BitField.Size = 0
               PROVE  /\ Index # 1
                      /\ ~Fields[Index - 1].IsBitField
                      /\ Fields[Index - 1].Type = "UInt"
  BY DEF NoBacking, Loads
<1>3. PICK b \in 1 .. Index - 1 : /\ b \in 1 .. Len(Fields)
                                  /\ Backs(Fields, b, Index)
                                  /\ ~Fields[b].IsBitField
                                  /\ Fields[b].Type = "UInt"
  BY <1>1, <1>2, BitRowFacts DEF Row
<1>4. Index # 1
  BY <1>1, <1>3
<1>5. ~Fields[Index - 1].IsBitField
  <2>1. SUFFICES ASSUME Fields[Index - 1].IsBitField PROVE FALSE
    OBVIOUS
  <2>2. PICK c \in 1 .. Index - 2 :
          /\ Backs(Fields, c, Index - 1)
          /\ BitField = [Offset |-> Fields[c].Offset, Size |-> Fields[c].Size]
    BY <1>1, <1>4, <2>1 DEF Carried
  <2>3. c \in 1 .. Len(Fields)
    BY <1>1
  <2>4. Fields[c].Size # 0
    BY <1>1, <2>3, RowFacts
  <2> QED BY <2>2, <2>4, <1>2
<1>6. b = Index - 1
  <2>1. SUFFICES ASSUME b < Index - 1 PROVE FALSE
    BY <1>1
  <2>2. Index - 1 \in b + 1 .. Index
    BY <2>1, <1>1
  <2> QED BY <2>2, <1>3, <1>5 DEF Backs
<1> QED
  BY <1>3, <1>4, <1>5, <1>6
(* Behind a row that reaches beyond the end nothing is readable.           *)
LEMMA NothingBeyond ==
  ASSUME Known, Header.Length \in Nat,
         NEW n \in 1 .. Len(Fields), ~Fields[n].IsBitField,
         End(Fields[n]) > Header.Length,
         NEW k \in 1 .. Len(Fields), n <= k
  PROVE  ~Reads(Fields, k)
<1>1. WellFormed(Fields) /\ Len(Fields) \in Nat
  BY KnownFields
<1>2. \A j \in 1 .. Len(Fields) :
        n <= j /\ ~Fields[j].IsBitField =>
          /\ Fields[j].Offset \in Nat /\ Fields[j].Size \in Nat
          /\ Fields[j].Offset + Fields[j].Size > Header.Length
  <2>1. TAKE j \in 1 .. Len(Fields)
  <2>2. HAVE n <= j /\ ~Fields[j].IsBitField
  <2>3. /\ Fields[j].Offset \in Nat /\ Fields[j].Size \in Nat
        /\ End(Fields[j]) \in Nat /\ End(Fields[n]) \in Nat
    BY RowFacts
  <2>4. End(Fields[n]) <= End(Fields[j])
    <3>1. CASE n = j
      BY <3>1, <2>3
    <3>2. CASE n < j
      BY <3>2, <2>2, <1>1 DEF WellFormed
    <3> QED BY <2>2, <3>1, <3>2
  <2>5. End(Fields[j]) > Header.Length
    BY <2>3, <2>4
  <2> QED BY <2>3, <2>5 DEF End
<1>3. CASE ~Fields[k].IsBitField
  <2>1. ~TryReadUnsigned(Fields, k)
    BY <1>2, <1>3 DEF TryReadUnsigned, Generated, Inside
  <2>2. ~TryGetString(Fields, k)
    BY <1>2, <1>3 DEF TryGetString, Inside
  <2> QED BY <2>1, <2>2 DEF Reads
<1>4. CASE Fields[k].IsBitField
  <2>1. PICK b \in 1 .. k - 1 : /\ b \in 1 .. Len(Fields)
                                /\ Backs(Fields, b, k)
                                /\ GeneratedBacking(Fields, k) = b
                                /\ ~Fields[b].IsBitField
    BY <1>4, BitRowFacts
  <2>2. n <= b
    <3>1. SUFFICES ASSUME b < n PROVE FALSE
      OBVIOUS
    <3>2. n \in b + 1 .. k
      BY <3>1
    <3> QED BY <3>2, <2>1 DEF Backs
  <2>3. ~TryReadUnsigned(Fields, k)
    <3>1. Generated(Fields, k) = Fields[b]
      BY <1>4, <2>1 DEF Generated
    <3> QED BY <3>1, <1>2, <2>1, <2>2 DEF TryReadUnsigned, Inside
  <2>4. ~TryGetString(Fields, k)
    BY <1>4 DEF TryGetString
  <2> QED BY <2>3, <2>4 DEF Reads
<1> QED
  BY <1>3, <1>4

(* The row being printed: readable for the managed side when its type is   *)
(* one that has a value.                                                   *)
LEMMA RowReads ==
  ASSUME IInv, Prints, Header.Length \in Nat
  PROVE  Reads(Fields, Index) <=> Row.Type \in Read
<1>1. Known /\ Index \in 1 .. Len(Fields)
  <2>1. Known /\ Index \in 1 .. Len(Fields) + 1
    BY DEF IInv, Prints, InRows
  <2>2. Len(Fields) \in Nat
    BY <2>1, KnownFields
  <2> QED BY <2>1, <2>2 DEF Prints, InRows
<1>2. Reads(Fields, Index) => Row.Type \in Read
  BY DEF Reads, TryReadUnsigned, TryGetString, Read, Row
<1>3. CASE Row.IsBitField
  <2>1. InRows
    BY DEF Prints
  <2>2. LET b == GeneratedBacking(Fields, Index)
        IN  /\ Generated(Fields, Index) = Fields[b]
            /\ Fields[b].Offset \in Nat /\ Fields[b].Size \in 1 .. 8
            /\ Printable(Fields[b].Size)
            /\ End(Fields[b]) <= Header.Length
            /\ Row.Type \in {"UInt", "Bit", "Enum"}
    BY <2>1, <1>3, Backed
  <2>3. TryReadUnsigned(Fields, Index)
    BY <2>2 DEF TryReadUnsigned, Inside, End, Row
  <2> QED BY <2>3, <1>2 DEF Reads
<1>4. CASE ~Row.IsBitField
  <2>1. /\ OrdinaryRow(Row)
        /\ Row.Offset \in Nat /\ Row.Size \in Nat \ {0}
    BY <1>1, <1>4, RowFacts DEF Row
  <2>2. Row.Offset + Row.Size <= Header.Length
    BY <1>4, <2>1 DEF Prints, OutOfReach, End
  <2>3. CASE Row.Type \in {"UInt", "Enum"}
    <3>1. Printable(Row.Size)
      BY <2>1, <2>3 DEF OrdinaryRow
    <3>2. TryReadUnsigned(Fields, Index)
      BY <1>4, <2>1, <2>2, <2>3, <3>1
      DEF TryReadUnsigned, Generated, Inside, Row
    <3> QED BY <3>2, <2>3, <1>2 DEF Reads
  <2>4. CASE Row.Type = "String"
    <3>1. TryGetString(Fields, Index)
      BY <1>4, <2>1, <2>2, <2>4 DEF OrdinaryRow, TryGetString, Inside, Row
    <3> QED BY <3>1, <2>4, <1>2 DEF Reads
  <2>5. Row.Type # "Bit"
    BY <2>1 DEF OrdinaryRow
  <2> QED BY <2>3, <2>4, <2>5, <1>2 DEF Read
<1> QED
  BY <1>3, <1>4
(* What is readable and where does not change while one structure is shown.*)
LEMMA SameReads ==
  ASSUME Header' = Header, TypeInfo' = TypeInfo
  PROVE  /\ Fields' = Fields
         /\ Known' <=> Known
         /\ \A k : Reads(Fields, k)' <=> Reads(Fields, k)
         /\ \A k : PlaceOf(Fields, k)' = PlaceOf(Fields, k)
<1>1. Fields' = Fields
  BY DEF Fields
<1>2. Known' <=> Known
  BY DEF Known
<1>3. \A k : GeneratedBacking(Fields, k)' = GeneratedBacking(Fields, k)
  BY <1>1 DEF GeneratedBacking, Backs
<1>4. \A k : Generated(Fields, k)' = Generated(Fields, k)
  BY <1>1, <1>3 DEF Generated
<1>5. \A k : Reads(Fields, k)' <=> Reads(Fields, k)
  BY <1>1, <1>4 DEF Reads, TryReadUnsigned, TryGetString, Inside, Printable
<1>6. \A k : PlaceOf(Fields, k)' = PlaceOf(Fields, k)
  BY <1>1, <1>4 DEF PlaceOf, Unsigned, Whole, Place, Bytes
<1> QED
  BY <1>1, <1>2, <1>5, <1>6

(* A field that ends inside the structure has its bytes inside it.         *)
LEMMA BytesInside ==
  ASSUME NEW offset \in Nat, NEW n \in Nat, NEW length \in Nat,
         offset + n <= length
  PROVE  BytesAt(offset, n) \subseteq 0 .. length - 1
BY DEF BytesAt

(* The length of a structure is a number.                                  *)
LEMMA HeaderLength ==
  ASSUME IInv
  PROVE  Header.Length \in Nat
BY HeaderAssumption DEF IInv, CopiesInside, TypeOK

(* A row is printed: if what is shown of it is the managed place, and what *)
(* is read lies inside the structure, the invariant goes on.               *)
LEMMA ShowStep ==
  ASSUME IInv, Prints, NEW places, NEW bytes, NEW size,
         Show(places, bytes, size),
         size \in 0 .. 8, bytes \subseteq 0 .. Header.Length - 1,
         \A s \in places : /\ s.Row = Index
                           /\ Row.Type \in Read => s = PlaceOf(Fields, Index),
         Row.Type \in Read => PlaceOf(Fields, Index) \in places
  PROVE  IInv'
<1>1. /\ Known /\ Index \in 1 .. Len(Fields) + 1
      /\ InReach /\ Carried /\ Agreed /\ InRows
      /\ stage = "rows" /\ Index <= Len(Fields)
  BY DEF IInv, Prints, InRows
<1>2. Len(Fields) \in Nat /\ Header.Length \in Nat
  BY <1>1, KnownFields, HeaderLength
<1>3. Index \in 1 .. Len(Fields)
  BY <1>1, <1>2
<1>4. /\ shown' = shown \cup places
      /\ reads' = Load \cup bytes
      /\ copied' = Larger(LoadSize, size)
      /\ BitField' = Backing
      /\ Index' = Index + 1
      /\ Header' = Header /\ Recent' = Recent
      /\ TypeInfo' = TypeInfo /\ stage' = stage
  BY DEF Show
<1>5. /\ Fields' = Fields /\ Known'
      /\ \A k : Reads(Fields, k)' <=> Reads(Fields, k)
      /\ \A k : PlaceOf(Fields, k)' = PlaceOf(Fields, k)
  BY <1>1, <1>4, SameReads
<1>6. Index' \in 1 .. Len(Fields') + 1
  BY <1>3, <1>4, <1>5, <1>2
<1>7. ASSUME Row.IsBitField
      PROVE  /\ Carried' /\ InReach'
             /\ Backing \in [Offset : Nat, Size : Nat]
             /\ LoadSize \in 0 .. 8 /\ Load \subseteq 0 .. Header.Length - 1
  <2> DEFINE b == GeneratedBacking(Fields, Index)
  <2>1. /\ b \in 1 .. Index - 1
        /\ Backs(Fields, b, Index)
        /\ Backing = [Offset |-> Fields[b].Offset, Size |-> Fields[b].Size]
        /\ Fields[b].Offset \in Nat /\ Fields[b].Size \in 1 .. 8
        /\ End(Fields[b]) <= Header.Length
    BY <1>1, <1>7, Backed
  <2>2. Backing \in [Offset : Nat, Size : Nat]
    BY <2>1
  <2>3. LoadSize \in 0 .. 8
    BY <2>1 DEF LoadSize
  <2>4. Load \subseteq 0 .. Header.Length - 1
    <3>1. Backing.Offset = Fields[b].Offset /\ Backing.Size = Fields[b].Size
      BY <2>1
    <3>2. Fields[b].Offset + Fields[b].Size <= Header.Length
      BY <2>1 DEF End
    <3>3. /\ Backing.Offset \in Nat /\ Backing.Size \in Nat
          /\ Backing.Offset + Backing.Size <= Header.Length
      BY <3>1, <3>2, <2>1
    <3>4. BytesAt(Backing.Offset, Backing.Size) \subseteq 0 .. Header.Length - 1
      BY <3>3, <1>2, BytesInside
    <3> QED BY <3>4 DEF Load
  <2>5. Carried'
    <3>1. b \in 1 .. Index' - 2
      BY <2>1, <1>3, <1>4
    <3>2. Index' - 1 = Index /\ Index' # 1
      BY <1>3, <1>4
    <3>3. Fields'[Index' - 1].IsBitField
      BY <3>2, <1>5, <1>7 DEF Row
    <3>4. Backs(Fields', b, Index' - 1)
      BY <3>2, <1>5, <2>1
    <3>5. BitField' = [Offset |-> Fields'[b].Offset, Size |-> Fields'[b].Size]
      BY <1>4, <1>5, <2>1
    <3> QED BY <3>1, <3>2, <3>3, <3>4, <3>5 DEF Carried
  <2>6. InReach'
    <3>1. SUFFICES ASSUME NEW k \in 1 .. Len(Fields'),
                          k < Index', ~Fields'[k].IsBitField
                   PROVE  End(Fields'[k]) <= Header'.Length
      BY DEF InReach, End
    <3>2. k # Index
      BY <3>1, <1>5, <1>7 DEF Row
    <3>3. k < Index
      BY <3>1, <3>2, <1>3, <1>4
    <3> QED BY <3>1, <3>3, <1>1, <1>4, <1>5 DEF InReach
  <2> QED BY <2>2, <2>3, <2>4, <2>5, <2>6
<1>8. ASSUME ~Row.IsBitField
      PROVE  /\ Carried' /\ InReach'
             /\ Backing \in [Offset : Nat, Size : Nat]
             /\ LoadSize \in 0 .. 8 /\ Load \subseteq 0 .. Header.Length - 1
  <2>1. Backing = [Offset |-> 0, Size |-> 0] /\ LoadSize = 0 /\ Load = {}
    BY <1>8 DEF Backing, LoadSize, Load, Loads
  <2>2. Carried'
    <3>1. Index' - 1 = Index
      BY <1>3, <1>4
    <3>2. ~Fields'[Index' - 1].IsBitField
      BY <3>1, <1>5, <1>8 DEF Row
    <3> QED BY <3>2, <2>1, <1>4 DEF Carried
  <2>3. InReach'
    <3>1. SUFFICES ASSUME NEW k \in 1 .. Len(Fields'),
                          k < Index', ~Fields'[k].IsBitField
                   PROVE  End(Fields'[k]) <= Header'.Length
      BY DEF InReach, End
    <3>2. CASE k = Index
      <4>1. End(Row) \in Nat
        BY <1>1, <1>3, RowFacts DEF Row
      <4>2. End(Row) <= Header.Length
        BY <4>1, <1>2, <1>8 DEF Prints, OutOfReach
      <4> QED BY <4>2, <3>2, <1>4, <1>5 DEF Row
    <3>3. CASE k < Index
      BY <3>1, <3>3, <1>1, <1>4, <1>5 DEF InReach
    <3> QED BY <3>1, <3>2, <3>3, <1>3, <1>4
  <2> QED BY <2>1, <2>2, <2>3
<1>9. /\ Carried' /\ InReach'
      /\ Backing \in [Offset : Nat, Size : Nat]
      /\ LoadSize \in 0 .. 8 /\ Load \subseteq 0 .. Header.Length - 1
  BY <1>7, <1>8
<1>10. CopiesInside'
  <2>1. copied' \in 0 .. 8
    BY <1>4, <1>9 DEF Larger
  <2>2. reads' \subseteq 0 .. Header'.Length - 1
    BY <1>4, <1>9
  <2>3. TypeOK
    BY DEF IInv, CopiesInside
  <2>4. Index' \in Nat \ {0}
    BY <1>3, <1>4
  <2>5. TypeOK'
    BY <2>1, <2>3, <2>4, <1>4, <1>9 DEF TypeOK
  <2> QED BY <2>1, <2>2, <2>5 DEF CopiesInside
<1>11. Agreed'
  <2>1. ASSUME NEW s \in shown'
        PROVE  /\ s.Row \in 1 .. Len(Fields')
               /\ s.Row < Index'
               /\ Fields'[s.Row].Type \in Read =>
                    Reads(Fields, s.Row)' /\ s = PlaceOf(Fields, s.Row)'
    <3>1. CASE s \in shown
      BY <3>1, <1>1, <1>3, <1>4, <1>5 DEF Agreed
    <3>2. CASE s \in places
      <4>1. s.Row = Index /\ (Row.Type \in Read => s = PlaceOf(Fields, Index))
        BY <3>2
      <4>2. Reads(Fields, Index) <=> Row.Type \in Read
        BY <1>2, RowReads
      <4> QED BY <4>1, <4>2, <1>3, <1>4, <1>5 DEF Row
    <3> QED BY <3>1, <3>2, <1>4
  <2>2. ASSUME NEW k \in 1 .. Len(Fields'), k < Index', Reads(Fields, k)'
        PROVE  PlaceOf(Fields, k)' \in shown'
    <3>1. CASE k < Index
      BY <3>1, <2>2, <1>1, <1>4, <1>5 DEF Agreed
    <3>2. CASE k = Index
      <4>1. Row.Type \in Read
        BY <3>2, <2>2, <1>2, <1>5, RowReads
      <4> QED BY <4>1, <3>2, <1>4, <1>5
    <3> QED BY <3>1, <3>2, <2>2, <1>3, <1>4
  <2> QED BY <2>1, <2>2 DEF Agreed
<1> QED
  BY <1>1, <1>4, <1>5, <1>6, <1>9, <1>10, <1>11 DEF IInv
(* The place a bit-field is shown at is the managed one: all of its bits   *)
(* are in the value it is taken from, so that none is cut off.             *)
LEMMA BitPlaceIs ==
  ASSUME IInv, Prints, Row.IsBitField
  PROVE  /\ BitPlace(FirmwareExtractBits(Row.Offset, Row.Size))
              = PlaceOf(Fields, Index)
         /\ Row.Type = "Bit" => BitPlace(1) = PlaceOf(Fields, Index)
         /\ Printable(ValueSize)
         /\ Row.Type \in {"UInt", "Bit", "Enum"}
<1> DEFINE b == GeneratedBacking(Fields, Index)
<1>1. InRows
  BY DEF Prints
<1>2. /\ Backing = [Offset |-> Fields[b].Offset, Size |-> Fields[b].Size]
      /\ Generated(Fields, Index) = Fields[b]
      /\ Fields[b].Size \in 1 .. 8
      /\ Printable(Fields[b].Size)
      /\ End(Row) <= 8 * Fields[b].Size
      /\ Row.Type \in {"UInt", "Bit", "Enum"}
      /\ Row.Type = "Bit" => Row.Size = 1
      /\ Row.Offset \in Nat /\ Row.Size \in Nat \ {0}
  BY <1>1, Backed
<1>3. Row.Offset + Row.Size <= 64
  BY <1>2 DEF End
<1>4. FirmwareExtractBits(Row.Offset, Row.Size) = Row.Size
  BY <1>2, <1>3 DEF FirmwareExtractBits
<1>5. Backing.Offset = Fields[b].Offset /\ Backing.Size = Fields[b].Size
  BY <1>2
<1>6. PlaceOf(Fields, Index)
        = Place(Index, Bytes(Fields[b].Offset, Fields[b].Size), Row.Offset, Row.Size)
  BY <1>2 DEF PlaceOf, Unsigned, Row
<1>7. BitPlace(Row.Size) = PlaceOf(Fields, Index)
  BY <1>5, <1>6 DEF BitPlace
<1>8. Printable(ValueSize)
  BY <1>2, <1>5 DEF ValueSize
<1> QED
  BY <1>2, <1>4, <1>7, <1>8

(* An ordinary row: it lies inside the structure.                          *)
LEMMA OrdinaryFacts ==
  ASSUME IInv, Prints, ~Row.IsBitField
  PROVE  /\ OrdinaryRow(Row)
         /\ Row.Offset \in Nat /\ Row.Size \in Nat \ {0}
         /\ Row.Offset + Row.Size <= Header.Length
         /\ Header.Length \in Nat
         /\ Row.Type # "String" =>
              PlaceOf(Fields, Index) = Whole(Index, Row.Offset, Row.Size)
         /\ Row.Type = "String" =>
              PlaceOf(Fields, Index) = Whole(Index, Row.Offset, 1)
<1>1. Known /\ Index \in 1 .. Len(Fields)
  <2>1. Known /\ Index \in 1 .. Len(Fields) + 1
    BY DEF IInv, Prints, InRows
  <2>2. Len(Fields) \in Nat
    BY <2>1, KnownFields
  <2> QED BY <2>1, <2>2 DEF Prints, InRows
<1>2. /\ OrdinaryRow(Row) /\ End(Row) \in Nat
      /\ Row.Offset \in Nat /\ Row.Size \in Nat \ {0}
  BY <1>1, RowFacts DEF Row
<1>3. Header.Length \in Nat
  BY HeaderLength
<1>4. Row.Offset + Row.Size <= Header.Length
  BY <1>2, <1>3 DEF Prints, OutOfReach, End
<1>5. Generated(Fields, Index) = Row
  BY DEF Generated, Row
<1> QED
  BY <1>2, <1>3, <1>4, <1>5 DEF PlaceOf, Unsigned, Row

(* No well-formed row is one of which only the name could be printed.      *)
LEMMA AllPrintable ==
  ASSUME IInv, Prints
  PROVE  ~Unprintable
<1>1. CASE Row.IsBitField
  BY <1>1, BitPlaceIs DEF Unprintable
<1>2. CASE ~Row.IsBitField
  BY <1>2, OrdinaryFacts DEF Unprintable, OrdinaryRow
<1> QED
  BY <1>1, <1>2

(* A bit is printed: the invariant goes on.                                *)
LEMMA PrintBitInv ==
  ASSUME IInv, PrintBit
  PROVE  IInv'
<1>1. Prints /\ ~Unprintable
  BY AllPrintable DEF PrintBit
<1>2. Row.Type = "Bit" /\ Show({BitPlace(1)}, {}, 0)
  BY <1>1 DEF PrintBit
<1>3. Row.IsBitField
  BY <1>1, <1>2, OrdinaryFacts DEF OrdinaryRow
<1>4. BitPlace(1) = PlaceOf(Fields, Index)
  BY <1>1, <1>2, <1>3, BitPlaceIs
<1>5. BitPlace(1).Row = Index
  BY DEF BitPlace, Place
<1> QED
  BY <1>1, <1>2, <1>4, <1>5, ShowStep

(* ... a string index ...                                                  *)
LEMMA PrintStringInv ==
  ASSUME IInv, PrintString
  PROVE  IInv'
<1>1. /\ Prints /\ Row.Type = "String"
      /\ Show({Whole(Index, Row.Offset, 1)}, {Row.Offset}, 0)
  BY DEF PrintString
<1>2. ~Row.IsBitField
  BY <1>1, BitPlaceIs
<1>3. /\ PlaceOf(Fields, Index) = Whole(Index, Row.Offset, 1)
      /\ Row.Offset \in 0 .. Header.Length - 1
  BY <1>1, <1>2, OrdinaryFacts
<1>4. Whole(Index, Row.Offset, 1).Row = Index
  BY DEF Whole, Place
<1> QED
  BY <1>1, <1>3, <1>4, ShowStep

(* ... an integer or an enumeration ...                                    *)
LEMMA PrintIntegerInv ==
  ASSUME IInv, PrintInteger
  PROVE  IInv'
<1>1. Prints /\ Row.Type \in {"UInt", "Enum"}
  BY DEF PrintInteger
<1>2. CASE Row.IsBitField
  <2> DEFINE place == BitPlace(FirmwareExtractBits(Row.Offset, Row.Size))
  <2>1. place = PlaceOf(Fields, Index) /\ Printable(ValueSize)
    BY <1>1, <1>2, BitPlaceIs
  <2>2. IntegerPlace = place
    BY <1>2 DEF IntegerPlace
  <2>3. Show({place}, {}, 0)
    BY <1>2, <2>1, <2>2 DEF PrintInteger
  <2>4. place.Row = Index
    BY DEF BitPlace, Place
  <2> QED BY <1>1, <2>1, <2>3, <2>4, ShowStep
<1>3. CASE ~Row.IsBitField
  <2> DEFINE place == Whole(Index, Row.Offset, Row.Size)
  <2>1. /\ place = PlaceOf(Fields, Index) /\ OrdinaryRow(Row)
        /\ Row.Offset \in Nat /\ Row.Size \in Nat \ {0}
        /\ Row.Offset + Row.Size <= Header.Length
        /\ Header.Length \in Nat
    BY <1>1, <1>3, OrdinaryFacts
  <2>2. Printable(Row.Size) /\ Row.Size \in 0 .. 8
    BY <1>1, <2>1 DEF OrdinaryRow, Printable
  <2>3. Printable(ValueSize) /\ IntegerPlace = place
    BY <1>3, <2>2 DEF ValueSize, IntegerPlace
  <2>4. Show({place}, BytesAt(Row.Offset, Row.Size), Row.Size)
    BY <1>3, <2>3 DEF PrintInteger
  <2>5. BytesAt(Row.Offset, Row.Size) \subseteq 0 .. Header.Length - 1
    BY <2>1 DEF BytesAt
  <2>6. place.Row = Index
    BY DEF Whole, Place
  <2> QED BY <1>1, <2>1, <2>2, <2>4, <2>5, <2>6, ShowStep
<1> QED
  BY <1>2, <1>3

(* ... raw bytes ...                                                       *)
LEMMA PrintBytesInv ==
  ASSUME IInv, PrintBytes
  PROVE  IInv'
<1> DEFINE place == Whole(Index, Row.Offset, Row.Size)
<1>1. /\ Prints /\ Row.Type \in {"Raw", "Other"}
      /\ Show({place}, BytesAt(Row.Offset, Row.Size), 0)
  BY DEF PrintBytes
<1>2. ~Row.IsBitField
  BY <1>1, BitPlaceIs
<1>3. BytesAt(Row.Offset, Row.Size) \subseteq 0 .. Header.Length - 1
  BY <1>1, <1>2, OrdinaryFacts DEF BytesAt
<1>4. place.Row = Index
  BY DEF Whole, Place
<1>5. Row.Type \notin Read
  BY <1>1 DEF Read
<1> QED
  BY <1>1, <1>3, <1>4, <1>5, ShowStep

(* ... a UUID.                                                             *)
LEMMA PrintUuidInv ==
  ASSUME IInv, PrintUuid
  PROVE  IInv'
<1> DEFINE place ==
      Place(Index, [k \in 1 .. 16 |-> Row.Offset + UuidOrder[k]], 0, 128)
<1>1. /\ Prints /\ Row.Type = "Uuid" /\ Row.Size = 16
      /\ Show({place}, BytesAt(Row.Offset, 16), 0)
  BY DEF PrintUuid
<1>2. ~Row.IsBitField
  BY <1>1, BitPlaceIs
<1>3. BytesAt(Row.Offset, 16) \subseteq 0 .. Header.Length - 1
  BY <1>1, <1>2, OrdinaryFacts DEF BytesAt
<1>4. place.Row = Index
  BY DEF Place
<1>5. Row.Type \notin Read
  BY <1>1 DEF Read
<1> QED
  BY <1>1, <1>3, <1>4, <1>5, ShowStep
-----------------------------------------------------------------------------
(* The invariant holds at first,                                           *)
LEMMA InitInv ==
  ASSUME Init
  PROVE  IInv
<1>1. TypeOK
  BY MetadataAssumption DEF Init, TypeOK
<1> QED
  BY <1>1 DEF Init, IInv, CopiesInside

(* when the type is found,                                                 *)
LEMMA RecognizeInv ==
  ASSUME IInv, Recognize
  PROVE  IInv'
<1>1. PICK t \in 1 .. Len(Metadata) : Finds(t) /\ TypeInfo' = Metadata[t]
  BY DEF Recognize
<1>2. /\ stage' = "rows" /\ Header' = Header /\ Recent' = Recent
      /\ Index' = Index /\ BitField' = BitField /\ shown' = shown
      /\ reads' = reads /\ copied' = copied
      /\ Index = 1 /\ BitField.Size = 0 /\ shown = {}
  BY DEF Recognize, IInv
<1>3. Known'
  BY <1>1, <1>2 DEF Known, Finds
<1>4. Len(Fields') \in Nat
  <2>1. WellFormed(Metadata[t].Fields)
    BY MetadataAssumption
  <2>2. Metadata[t].Fields \in Seq(Rows)
    BY <2>1 DEF WellFormed
  <2> QED BY <2>2, <1>1 DEF Fields
<1>5. InReach' /\ Carried' /\ Agreed'
  BY <1>2, <1>4 DEF InReach, Carried, Agreed
<1>6. CopiesInside'
  BY <1>1, <1>2, MetadataAssumption DEF IInv, CopiesInside, TypeOK
<1> QED
  BY <1>2, <1>3, <1>4, <1>5, <1>6 DEF IInv

(* when it is not,                                                         *)
LEMMA UnrecognizedInv ==
  ASSUME IInv, Unrecognized
  PROVE  IInv'
<1>1. \A t \in 1 .. Len(Metadata) : Metadata[t].Type # Header.Type
  <2>1. SUFFICES ASSUME NEW t \in 1 .. Len(Metadata),
                        Metadata[t].Type = Header.Type
                 PROVE  FALSE
    OBVIOUS
  <2>2. \A s \in 1 .. t - 1 : Metadata[s].Type # Header.Type
    <3>1. TAKE s \in 1 .. t - 1
    <3>2. s \in 1 .. Len(Metadata) /\ s # t
      BY MetadataAssumption
    <3> QED BY <3>2, <2>1, MetadataAssumption
  <2>3. Finds(t)
    BY <2>1, <2>2 DEF Finds
  <2> QED BY <2>3 DEF Unrecognized
<1>2. /\ shown' = {} /\ Header' = Header /\ stage' = "done"
  BY DEF Unrecognized, IInv
<1>3. CopiesInside'
  BY DEF Unrecognized, IInv, CopiesInside, TypeOK
<1> QED
  BY <1>1, <1>2, <1>3 DEF IInv

(* Both ends of the loop: all that no step changes.                        *)
LEMMA EndInv ==
  ASSUME IInv, stage = "rows", stage' = "done", reads' = {}, copied' = 0,
         UNCHANGED <<Header, Recent, TypeInfo, Index, BitField, shown>>,
         \A k \in 1 .. Len(Fields) : Index <= k => ~Reads(Fields, k)
  PROVE  IInv'
<1>1. Known /\ Agreed
  BY DEF IInv
<1>2. /\ Fields' = Fields /\ Known'
      /\ \A k : Reads(Fields, k)' <=> Reads(Fields, k)
      /\ \A k : PlaceOf(Fields, k)' = PlaceOf(Fields, k)
  BY <1>1, SameReads
<1>3. Agreed'
  BY <1>1, <1>2 DEF Agreed
<1>4. CopiesInside'
  BY DEF IInv, CopiesInside, TypeOK
<1> QED
  BY <1>2, <1>3, <1>4 DEF IInv

(* when all rows are done,                                                 *)
LEMMA FinishInv ==
  ASSUME IInv, Finish
  PROVE  IInv'
<1>1. Len(Fields) \in Nat /\ Index \in Nat /\ Index > Len(Fields)
  <2>1. Known /\ Index \in 1 .. Len(Fields) + 1
    BY DEF IInv, Finish
  <2>2. Len(Fields) \in Nat
    BY <2>1, KnownFields
  <2> QED BY <2>1, <2>2 DEF Finish
<1>2. \A k \in 1 .. Len(Fields) : Index <= k => ~Reads(Fields, k)
  BY <1>1
<1> QED
  BY <1>2, EndInv DEF Finish

(* when the printer stops before the last one,                             *)
LEMMA StopInv ==
  ASSUME IInv, Stop
  PROVE  IInv'
<1>1. InRows /\ OutOfReach
  BY AlwaysBacking DEF Stop
<1>2. Known /\ Index \in 1 .. Len(Fields)
  <2>1. Known /\ Index \in 1 .. Len(Fields) + 1
    BY <1>1 DEF IInv, InRows
  <2>2. Len(Fields) \in Nat
    BY <2>1, KnownFields
  <2> QED BY <1>1, <2>1, <2>2 DEF InRows
<1>3. Header.Length \in Nat
  BY HeaderLength
<1>4. \A k \in 1 .. Len(Fields) : Index <= k => ~Reads(Fields, k)
  BY <1>1, <1>2, <1>3, NothingBeyond DEF OutOfReach, Row
<1> QED
  BY <1>1, <1>4, EndInv DEF Stop, InRows

(* in every step,                                                          *)
LEMMA StepInv ==
  ASSUME IInv, [Next]_vars
  PROVE  IInv'
<1>1. CASE Next
  BY <1>1, RecognizeInv, UnrecognizedInv, FinishInv, StopInv, PrintBitInv,
     PrintStringInv, PrintIntegerInv, PrintBytesInv, PrintUuidInv DEF Next
<1>2. CASE UNCHANGED vars
  <2>1. /\ Fields' = Fields /\ (Known' <=> Known)
        /\ \A k : Reads(Fields, k)' <=> Reads(Fields, k)
        /\ \A k : PlaceOf(Fields, k)' = PlaceOf(Fields, k)
    BY <1>2, SameReads DEF vars
  <2>2. CopiesInside' <=> CopiesInside
    BY <1>2 DEF vars, CopiesInside, TypeOK
  <2>3. /\ InReach' <=> InReach
        /\ Carried' <=> Carried
        /\ Agreed' <=> Agreed
    BY <1>2, <2>1 DEF vars, InReach, Carried, Agreed
  <2> QED BY <1>2, <2>1, <2>2, <2>3 DEF vars, IInv
<1> QED
  BY <1>1, <1>2

(* and therefore always.                                                   *)
LEMMA Invariance == Spec => []IInv
<1>1. Init => IInv
  BY InitInv
<1>2. IInv /\ [Next]_vars => IInv'
  BY StepInv
<1> QED
  BY <1>1, <1>2, PTL DEF Spec

(* For every well-formed metadata and every structure, however short the   *)
(* firmware made it: PrintSmbiosTable reads a field, or the row a bit-field *)
(* is taken from, only inside the formatted area, and never copies more    *)
(* than eight bytes into a variable of eight.                              *)
THEOREM CopiesStayInside == Spec => []CopiesInside
<1>1. IInv => CopiesInside
  BY DEF IInv
<1> QED
  BY <1>1, Invariance, PTL

(* The managed package has the rows the printer goes through.              *)
LEMMA SameRows ==
  ASSUME Known
  PROVE  ByType(Header.Type) = Fields
<1> DEFINE of == { t \in 1 .. Len(Metadata) : Metadata[t].Type = Header.Type }
<1>1. PICK u \in 1 .. Len(Metadata) : /\ TypeInfo = Metadata[u]
                                      /\ Metadata[u].Type = Header.Type
  BY DEF Known
<1>2. of = {u}
  BY <1>1, MetadataAssumption
<1>3. u \in of /\ \A s \in of : s <= u
  BY <1>2
<1>4. (CHOOSE t \in of : \A s \in of : s <= t) = u
  BY <1>2, <1>3
<1>5. of # {}
  BY <1>3
<1> QED
  BY <1>1, <1>4, <1>5 DEF ByType, Fields

(* What the managed side gives for the rows, as one set.                   *)
LEMMA PlacesAre ==
  ASSUME NEW fields
  PROVE  ManagedPlaces(fields) =
           { PlaceOf(fields, k) : k \in { n \in 1 .. Len(fields) : Reads(fields, n) } }
<1>1. \A k \in 1 .. Len(fields) : TryReadUnsigned(fields, k) =>
        PlaceOf(fields, k) = Unsigned(fields, k) /\ ~TryGetString(fields, k)
  BY DEF TryReadUnsigned, TryGetString, PlaceOf
<1>2. \A k \in 1 .. Len(fields) : TryGetString(fields, k) =>
        PlaceOf(fields, k) = Whole(k, fields[k].Offset, 1)
  BY DEF TryGetString, PlaceOf
<1> QED
  BY <1>1, <1>2 DEF ManagedPlaces, Reads

(* When the printer has ended, what it has shown of the fields with a value *)
(* is what TryReadUnsigned and TryGetString give, for every well-formed    *)
(* metadata and every structure.                                           *)
THEOREM ReadersShowTheSame == Spec => []ReadersAgree
<1>1. ASSUME IInv PROVE ReadersAgree
  <2>1. SUFFICES ASSUME stage = "done"
                 PROVE  { s \in shown : Fields[s.Row].Type \in Read }
                          = ManagedPlaces(ByType(Header.Type))
    BY DEF ReadersAgree, Read
  <2>2. CASE /\ shown = {}
             /\ \A t \in 1 .. Len(Metadata) : Metadata[t].Type # Header.Type
    <3>1. ByType(Header.Type) = << >>
      BY <2>2 DEF ByType
    <3>2. ManagedPlaces(<< >>) = {}
      BY DEF ManagedPlaces
    <3> QED BY <2>2, <3>1, <3>2
  <2>3. CASE /\ Known /\ Agreed
             /\ \A k \in 1 .. Len(Fields) : Index <= k => ~Reads(Fields, k)
    <3>1. ManagedPlaces(ByType(Header.Type)) =
            { PlaceOf(Fields, k) : k \in { n \in 1 .. Len(Fields) : Reads(Fields, n) } }
      BY <2>3, SameRows, PlacesAre
    <3>2. ASSUME NEW s \in shown, Fields[s.Row].Type \in Read
          PROVE  \E k \in 1 .. Len(Fields) : Reads(Fields, k) /\ s = PlaceOf(Fields, k)
      BY <2>3, <3>2 DEF Agreed
    <3>3. ASSUME NEW k \in 1 .. Len(Fields), Reads(Fields, k)
          PROVE  /\ PlaceOf(Fields, k) \in shown
                 /\ PlaceOf(Fields, k).Row = k
                 /\ Fields[k].Type \in Read
      <4>1. k < Index
        <5>1. Index \in Nat
          BY <1>1 DEF IInv, CopiesInside, TypeOK
        <5>2. k \in Nat
          OBVIOUS
        <5> QED BY <5>1, <5>2, <3>3, <2>3
      <4>2. PlaceOf(Fields, k) \in shown
        BY <4>1, <3>3, <2>3 DEF Agreed
      <4>3. PlaceOf(Fields, k).Row = k
        BY DEF PlaceOf, Unsigned, Whole, Place
      <4>4. Fields[k].Type \in Read
        BY <3>3 DEF Reads, TryReadUnsigned, TryGetString, Read
      <4> QED BY <4>2, <4>3, <4>4
    <3> QED BY <3>1, <3>2, <3>3
  <2> QED BY <1>1, <2>1, <2>2, <2>3 DEF IInv
<1> QED
  BY <1>1, Invariance, PTL

-----------------------------------------------------------------------------
(* What is shown of the rows, whatever their type: the place each is about,*)
(* of all the rows before Index and of no other.                           *)
Shows ==
  /\ \A s \in shown : /\ s.Row \in 1 .. Len(Fields)
                      /\ s.Row < Index
                      /\ ShownAt(s).Spot = RowSpot(Fields, s.Row)
  /\ \A k \in 1 .. Len(Fields) : k < Index => \E s \in shown : s.Row = k

Reaches(k) == End(Generated(Fields, k)) <= Header.Length

ShowInv ==
  /\ stage = "find" => TypeInfo = NULL
  /\ stage = "rows" => Shows
  /\ stage = "done" /\ Fields # << >> =>
       /\ Known /\ Shows
       /\ \A k \in 1 .. Len(Fields) : k < Index <=> Reaches(k)

(* The row a place is taken from is the row itself or the last ordinary    *)
(* one before it.                                                          *)
LEMMA PlaceOfRow ==
  ASSUME Known, NEW k \in 1 .. Len(Fields)
  PROVE  \E b \in 1 .. Len(Fields) :
           /\ b <= k
           /\ Generated(Fields, k) = Fields[b]
           /\ ~Fields[b].IsBitField
           /\ \A j \in 1 .. Len(Fields) : b < j /\ j <= k => Fields[j].IsBitField
<1>1. CASE ~Fields[k].IsBitField
  BY <1>1 DEF Generated
<1>2. CASE Fields[k].IsBitField
  <2>1. PICK b \in 1 .. k - 1 : /\ b \in 1 .. Len(Fields)
                                /\ Backs(Fields, b, k)
                                /\ GeneratedBacking(Fields, k) = b
                                /\ ~Fields[b].IsBitField
    BY <1>2, BitRowFacts
  <2>2. Generated(Fields, k) = Fields[b] /\ b <= k
    BY <1>2, <2>1 DEF Generated
  <2>3. ASSUME NEW j \in 1 .. Len(Fields), b < j, j <= k PROVE Fields[j].IsBitField
    <3>1. j \in b + 1 .. k
      BY <2>1, <2>3
    <3> QED BY <3>1, <2>1 DEF Backs
  <2> QED BY <2>1, <2>2, <2>3
<1> QED
  BY <1>1, <1>2

(* Where the printer has been everything reaches into the structure; ...   *)
LEMMA BeforeReaches ==
  ASSUME Known, InReach, Index \in Nat, NEW k \in 1 .. Len(Fields), k < Index
  PROVE  Reaches(k)
<1>1. PICK b \in 1 .. Len(Fields) : /\ b <= k /\ ~Fields[b].IsBitField
                                    /\ Generated(Fields, k) = Fields[b]
  BY PlaceOfRow
<1>2. b < Index
  BY <1>1
<1> QED
  BY <1>1, <1>2 DEF InReach, Reaches

(* ... from the row that stops it on, nothing does.                        *)
LEMMA BehindReaches ==
  ASSUME Known, Header.Length \in Nat,
         NEW n \in 1 .. Len(Fields), ~Fields[n].IsBitField,
         End(Fields[n]) > Header.Length,
         NEW k \in 1 .. Len(Fields), n <= k
  PROVE  ~Reaches(k)
<1>1. PICK b \in 1 .. Len(Fields) :
        /\ b <= k /\ ~Fields[b].IsBitField
        /\ Generated(Fields, k) = Fields[b]
        /\ \A j \in 1 .. Len(Fields) : b < j /\ j <= k => Fields[j].IsBitField
  BY PlaceOfRow
<1>2. ~(b < n)
  BY <1>1
<1>3. WellFormed(Fields) /\ End(Fields[n]) \in Nat /\ End(Fields[b]) \in Nat
  BY RowFacts
<1>4. End(Fields[n]) <= End(Fields[b])
  <2>1. CASE n = b
    BY <1>3, <2>1
  <2>2. CASE n < b
    BY <1>1, <1>3, <2>2 DEF WellFormed
  <2> QED BY <1>2, <2>1, <2>2
<1> QED
  BY <1>1, <1>3, <1>4 DEF Reaches

-----------------------------------------------------------------------------
LEMMA ElementsOfBytes ==
  ASSUME NEW o \in Nat, NEW n \in Nat
  PROVE  Elements(Bytes(o, n)) = BytesAt(o, n)
<1>1. Elements(Bytes(o, n)) = { o + k - 1 : k \in 1 .. n }
  BY DEF Elements, Bytes
<1>2. ASSUME NEW x \in o .. o + n - 1 PROVE \E k \in 1 .. n : x = o + k - 1
  <2>1. x - o + 1 \in 1 .. n /\ x = o + (x - o + 1) - 1
    OBVIOUS
  <2> QED BY <2>1
<1>3. ASSUME NEW k \in 1 .. n PROVE o + k - 1 \in o .. o + n - 1
  OBVIOUS
<1> QED
  BY <1>1, <1>2, <1>3 DEF BytesAt

(* A place of consecutive bytes shows these bytes.                         *)
LEMMA SpotOfPlace ==
  ASSUME NEW k, NEW o \in Nat, NEW n \in Nat, NEW from, NEW count
  PROVE  ShownAt(Place(k, Bytes(o, n), from, count)).Spot = Spot(o, n, from, count)
BY ElementsOfBytes DEF ShownAt, Place, Spot

(* The bytes of a UUID are the sixteen of the field in both orders.        *)
LEMMA UuidBytes ==
  ASSUME NEW o \in Nat
  PROVE  Elements([k \in 1 .. 16 |-> o + UuidOrder[k]]) = BytesAt(o, 16)
<1>1. \A k \in 1 .. 16 : UuidOrder[k] \in 0 .. 15
  BY DEF UuidOrder
<1>2. \A i \in 0 .. 15 : \E k \in 1 .. 16 : UuidOrder[k] = i
  <2>1. CASE Recent
    BY <2>1 DEF UuidOrder
  <2>2. CASE ~Recent
    BY <2>2 DEF UuidOrder
  <2> QED BY <2>1, <2>2
<1>3. Elements([k \in 1 .. 16 |-> o + UuidOrder[k]])
        = { o + UuidOrder[k] : k \in 1 .. 16 }
  BY DEF Elements
<1> HIDE DEF UuidOrder
<1>4. ASSUME NEW x \in o .. o + 15
      PROVE  \E k \in 1 .. 16 : x = o + UuidOrder[k]
  <2>1. x - o \in 0 .. 15
    OBVIOUS
  <2>2. PICK k \in 1 .. 16 : UuidOrder[k] = x - o
    BY <1>2, <2>1
  <2> QED BY <2>2
<1>5. ASSUME NEW k \in 1 .. 16 PROVE o + UuidOrder[k] \in o .. o + 15
  BY <1>1
<1>6. { o + UuidOrder[k] : k \in 1 .. 16 } = o .. o + 15
  BY <1>4, <1>5
<1>7. o + 16 - 1 = o + 15
  OBVIOUS
<1> QED
  BY <1>3, <1>6, <1>7 DEF BytesAt

(* A row with a value is shown where it is.                                *)
LEMMA ValueSpot ==
  ASSUME IInv, Prints, Row.Type \in Read
  PROVE  ShownAt(PlaceOf(Fields, Index)).Spot = RowSpot(Fields, Index)
<1>1. CASE Row.IsBitField
  <2> DEFINE b == GeneratedBacking(Fields, Index)
  <2>1. /\ Generated(Fields, Index) = Fields[b]
        /\ Fields[b].Offset \in Nat /\ Fields[b].Size \in 1 .. 8
        /\ Row.Type \in {"UInt", "Bit", "Enum"}
    BY <1>1, Backed DEF Prints
  <2>2. PlaceOf(Fields, Index)
          = Place(Index, Bytes(Fields[b].Offset, Fields[b].Size), Row.Offset, Row.Size)
    BY <1>1, <2>1 DEF PlaceOf, Unsigned, Row
  <2>3. RowSpot(Fields, Index)
          = Spot(Fields[b].Offset, Fields[b].Size, Row.Offset, Row.Size)
    BY <1>1, <2>1 DEF RowSpot, Row
  <2> QED BY <2>1, <2>2, <2>3, SpotOfPlace
<1>2. CASE ~Row.IsBitField
  <2>1. /\ OrdinaryRow(Row) /\ Row.Offset \in Nat /\ Row.Size \in Nat
        /\ PlaceOf(Fields, Index) = Whole(Index, Row.Offset, Row.Size)
    BY <1>2, OrdinaryFacts DEF OrdinaryRow
  <2>2. RowSpot(Fields, Index) = Spot(Row.Offset, Row.Size, 0, 8 * Row.Size)
    BY <1>2 DEF RowSpot, Generated, WholeSpot, Row
  <2> QED BY <2>1, <2>2, SpotOfPlace DEF Whole
<1> QED
  BY <1>1, <1>2

(* A row that is printed is shown at the place it is about.                *)
LEMMA PrintedSpot ==
  ASSUME IInv, PrintBit \/ PrintString \/ PrintInteger \/ PrintBytes \/ PrintUuid
  PROVE  \E places, bytes, size :
           /\ Prints /\ Show(places, bytes, size)
           /\ places # {}
           /\ \A s \in places : /\ s.Row = Index
                                /\ ShownAt(s).Spot = RowSpot(Fields, Index)
<1>1. CASE PrintBit
  <2>1. Prints /\ ~Unprintable
    BY <1>1, AllPrintable DEF PrintBit
  <2>2. Row.Type = "Bit" /\ Show({BitPlace(1)}, {}, 0)
    BY <1>1, <2>1 DEF PrintBit
  <2>3. Row.IsBitField
    BY <2>1, <2>2, OrdinaryFacts DEF OrdinaryRow
  <2>4. BitPlace(1) = PlaceOf(Fields, Index)
    BY <2>1, <2>2, <2>3, BitPlaceIs
  <2>5. ShownAt(BitPlace(1)).Spot = RowSpot(Fields, Index)
    BY <2>1, <2>2, <2>4, ValueSpot DEF Read
  <2>6. BitPlace(1).Row = Index
    BY DEF BitPlace, Place
  <2> QED BY <2>1, <2>2, <2>5, <2>6
<1>2. CASE PrintString
  <2>1. /\ Prints /\ Row.Type = "String"
        /\ Show({Whole(Index, Row.Offset, 1)}, {Row.Offset}, 0)
    BY <1>2 DEF PrintString
  <2>2. ~Row.IsBitField
    BY <2>1, BitPlaceIs
  <2>3. PlaceOf(Fields, Index) = Whole(Index, Row.Offset, 1)
    BY <2>1, <2>2, OrdinaryFacts
  <2>4. ShownAt(Whole(Index, Row.Offset, 1)).Spot = RowSpot(Fields, Index)
    BY <2>1, <2>3, ValueSpot DEF Read
  <2>5. Whole(Index, Row.Offset, 1).Row = Index
    BY DEF Whole, Place
  <2> QED BY <2>1, <2>4, <2>5
<1>3. CASE PrintInteger
  <2>1. Prints /\ Row.Type \in {"UInt", "Enum"}
    BY <1>3 DEF PrintInteger
  <2>2. Printable(ValueSize) /\ IntegerPlace = PlaceOf(Fields, Index)
    <3>1. CASE Row.IsBitField
      BY <2>1, <3>1, BitPlaceIs DEF IntegerPlace
    <3>2. CASE ~Row.IsBitField
      <4>1. /\ OrdinaryRow(Row)
            /\ PlaceOf(Fields, Index) = Whole(Index, Row.Offset, Row.Size)
        BY <2>1, <3>2, OrdinaryFacts
      <4> QED BY <2>1, <3>2, <4>1 DEF OrdinaryRow, IntegerPlace, ValueSize
    <3> QED BY <3>1, <3>2
  <2>3. \E bytes, size : Show({IntegerPlace}, bytes, size)
    BY <1>3, <2>2 DEF PrintInteger
  <2>4. ShownAt(IntegerPlace).Spot = RowSpot(Fields, Index)
    BY <2>1, <2>2, ValueSpot DEF Read
  <2>5. IntegerPlace.Row = Index
    BY DEF IntegerPlace, BitPlace, Whole, Place
  <2> QED BY <2>1, <2>3, <2>4, <2>5
<1>4. CASE PrintBytes
  <2> DEFINE place == Whole(Index, Row.Offset, Row.Size)
  <2>1. /\ Prints /\ Row.Type \in {"Raw", "Other"}
        /\ Show({place}, BytesAt(Row.Offset, Row.Size), 0)
    BY <1>4 DEF PrintBytes
  <2>2. ~Row.IsBitField
    BY <2>1, BitPlaceIs
  <2>3. Row.Offset \in Nat /\ Row.Size \in Nat
    BY <2>1, <2>2, OrdinaryFacts
  <2>4. RowSpot(Fields, Index) = Spot(Row.Offset, Row.Size, 0, 8 * Row.Size)
    BY <2>2 DEF RowSpot, Generated, WholeSpot, Row
  <2>5. ShownAt(place).Spot = RowSpot(Fields, Index)
    BY <2>3, <2>4, SpotOfPlace DEF Whole
  <2>6. place.Row = Index
    BY DEF Whole, Place
  <2> QED BY <2>1, <2>5, <2>6
<1>5. CASE PrintUuid
  <2> DEFINE order == [k \in 1 .. 16 |-> Row.Offset + UuidOrder[k]]
             place == Place(Index, order, 0, 128)
  <2>1. /\ Prints /\ Row.Type = "Uuid" /\ Row.Size = 16
        /\ Show({place}, BytesAt(Row.Offset, 16), 0)
    BY <1>5 DEF PrintUuid
  <2>2. ~Row.IsBitField
    BY <2>1, BitPlaceIs
  <2>3. Row.Offset \in Nat
    BY <2>1, <2>2, OrdinaryFacts
  <2>4. RowSpot(Fields, Index) = Spot(Row.Offset, 16, 0, 128)
    <3>1. RowSpot(Fields, Index) = Spot(Row.Offset, Row.Size, 0, 8 * Row.Size)
      BY <2>2 DEF RowSpot, Generated, WholeSpot, Row
    <3>2. 8 * Row.Size = 128
      BY <2>1
    <3> QED BY <3>1, <3>2, <2>1
  <2>5. Elements(order) = BytesAt(Row.Offset, 16)
    BY <2>3, UuidBytes
  <2> HIDE DEF order
  <2>6. /\ place.Row = Index /\ place.Bytes = order
        /\ place.From = 0 /\ place.Count = 128
    BY DEF Place
  <2>7. ShownAt(place).Spot = RowSpot(Fields, Index)
    BY <2>4, <2>5, <2>6 DEF ShownAt, Spot
  <2> QED BY <2>1, <2>6, <2>7
<1> QED
  BY <1>1, <1>2, <1>3, <1>4, <1>5

-----------------------------------------------------------------------------
(* The second invariant goes on when a row is printed, ...                 *)
LEMMA PrintShows ==
  ASSUME IInv, ShowInv,
         PrintBit \/ PrintString \/ PrintInteger \/ PrintBytes \/ PrintUuid
  PROVE  ShowInv'
<1>1. PICK places, bytes, size :
        /\ Prints /\ Show(places, bytes, size)
        /\ places # {}
        /\ \A s \in places : /\ s.Row = Index
                             /\ ShownAt(s).Spot = RowSpot(Fields, Index)
  BY PrintedSpot
<1>2. /\ Known /\ Index \in 1 .. Len(Fields) + 1 /\ Index <= Len(Fields)
      /\ stage = "rows" /\ Shows
  BY <1>1 DEF IInv, ShowInv, Prints, InRows
<1>3. Len(Fields) \in Nat /\ Index \in 1 .. Len(Fields)
  BY <1>2, KnownFields
<1>4. /\ shown' = shown \cup places /\ Index' = Index + 1
      /\ TypeInfo' = TypeInfo /\ stage' = "rows" /\ Fields' = Fields
  BY <1>1, <1>2 DEF Show, Fields
<1>5. /\ \A s : ShownAt(s)' = ShownAt(s)
      /\ \A k : RowSpot(Fields, k)' = RowSpot(Fields, k)
  BY <1>4 DEF ShownAt, RowSpot, Generated, GeneratedBacking, Backs, Kind,
              WholeSpot, Spot
<1>6. ASSUME NEW s \in shown'
      PROVE  /\ s.Row \in 1 .. Len(Fields) /\ s.Row < Index + 1
             /\ ShownAt(s).Spot = RowSpot(Fields, s.Row)
  <2>1. CASE s \in shown
    BY <2>1, <1>2, <1>3 DEF Shows
  <2>2. CASE s \in places
    BY <2>2, <1>1, <1>3
  <2> QED BY <2>1, <2>2, <1>4
<1>7. ASSUME NEW k \in 1 .. Len(Fields), k < Index + 1
      PROVE  \E s \in shown' : s.Row = k
  <2>1. CASE k < Index
    BY <2>1, <1>2, <1>4 DEF Shows
  <2>2. CASE k = Index
    BY <2>2, <1>1, <1>4
  <2> QED BY <1>3, <1>7, <2>1, <2>2
<1>8. Shows'
  BY <1>4, <1>5, <1>6, <1>7 DEF Shows
<1> QED
  BY <1>4, <1>8 DEF ShowInv

(* ... and when the loop ends, at a row out of reach or behind the last.   *)
LEMMA EndShows ==
  ASSUME IInv, ShowInv, Finish \/ Stop
  PROVE  ShowInv'
<1>1. /\ Known /\ InReach /\ Shows /\ Index \in 1 .. Len(Fields) + 1
      /\ Len(Fields) \in Nat /\ Header.Length \in Nat
  <2>1. Known /\ InReach /\ Shows /\ Index \in 1 .. Len(Fields) + 1
    BY DEF Finish, Stop, InRows, IInv, ShowInv
  <2> QED BY <2>1, KnownFields, HeaderLength
<1>2. /\ Header' = Header /\ TypeInfo' = TypeInfo /\ Index' = Index
      /\ shown' = shown /\ stage' = "done" /\ Fields' = Fields
  BY DEF Finish, Stop, Fields
<1>3. ASSUME NEW k \in 1 .. Len(Fields) PROVE k < Index <=> Reaches(k)
  <2>1. k < Index => Reaches(k)
    BY <1>1, BeforeReaches
  <2>2. Index <= k => ~Reaches(k)
    <3>1. CASE Finish
      BY <3>1, <1>1 DEF Finish
    <3>2. CASE Stop
      <4>1. InRows /\ OutOfReach
        BY <3>2, AlwaysBacking DEF Stop
      <4>2. Index \in 1 .. Len(Fields)
        BY <4>1, <1>1 DEF InRows
      <4> QED BY <4>1, <4>2, <1>1, BehindReaches DEF OutOfReach, Row
    <3> QED BY <3>1, <3>2
  <2> QED BY <1>1, <2>1, <2>2
<1>4. /\ \A s : ShownAt(s)' = ShownAt(s)
      /\ \A k : RowSpot(Fields, k)' = RowSpot(Fields, k)
      /\ \A k : Reaches(k)' <=> Reaches(k)
  BY <1>2 DEF ShownAt, RowSpot, Generated, GeneratedBacking, Backs, Kind,
              WholeSpot, Spot, Reaches
<1>5. Known' /\ Shows'
  BY <1>1, <1>2, <1>4 DEF Known, Shows
<1> QED
  BY <1>2, <1>3, <1>4, <1>5 DEF ShowInv

(* Every step keeps the second invariant,                                  *)
LEMMA ShowStepInv ==
  ASSUME IInv, ShowInv, [Next]_vars
  PROVE  ShowInv'
<1>1. CASE Recognize
  <2>1. PICK t \in 1 .. Len(Metadata) : TypeInfo' = Metadata[t]
    BY <1>1 DEF Recognize
  <2>2. Fields' \in Seq(Rows)
    <3>1. WellFormed(Metadata[t].Fields)
      BY MetadataAssumption
    <3> QED BY <2>1, <3>1 DEF WellFormed, Fields
  <2>3. /\ stage' = "rows" /\ Index' = 1 /\ shown' = {}
    BY <1>1 DEF Recognize, IInv
  <2>4. Shows'
    BY <2>2, <2>3 DEF Shows
  <2> QED BY <2>3, <2>4 DEF ShowInv
<1>2. CASE Unrecognized
  <2>1. Fields' = << >> /\ stage' = "done"
    BY <1>2 DEF Unrecognized, ShowInv, Fields, NULL
  <2> QED BY <2>1 DEF ShowInv
<1>3. CASE UNCHANGED vars
  <2>1. /\ Fields' = Fields /\ TypeInfo' = TypeInfo /\ Header' = Header
        /\ stage' = stage /\ shown' = shown /\ Index' = Index
    BY <1>3 DEF vars, Fields
  <2>2. /\ \A s : ShownAt(s)' = ShownAt(s)
        /\ \A k : RowSpot(Fields, k)' = RowSpot(Fields, k)
        /\ \A k : Reaches(k)' <=> Reaches(k)
    BY <2>1 DEF ShownAt, RowSpot, Generated, GeneratedBacking, Backs, Kind,
                WholeSpot, Spot, Reaches
  <2>3. (Shows' <=> Shows) /\ (Known' <=> Known)
    BY <2>1, <2>2 DEF Shows, Known
  <2> QED BY <2>1, <2>2, <2>3 DEF ShowInv
<1> QED
  BY <1>1, <1>2, <1>3, PrintShows, EndShows DEF Next

(* ... which therefore holds always.                                       *)
LEMMA ShowInvariance == Spec => []ShowInv
<1>1. Init => ShowInv
  BY DEF Init, ShowInv
<1>2. IInv /\ ShowInv /\ [Next]_vars => ShowInv'
  BY ShowStepInv
<1> QED
  BY <1>1, <1>2, Invariance, PTL DEF Spec

-----------------------------------------------------------------------------
(* Metadata that is complete, type by type, shows what is declared.  For   *)
(* every such metadata, every declaration and every length the firmware    *)
(* gave the structure: what the printer has shown at its end, by its loop  *)
(* over the rows that keeps a bit-field's value and stops at the first row *)
(* out of reach, is every declared place that the structure is long enough *)
(* for, and no other.                                                      *)
THEOREM CompleteMetadataShowsDeclared ==
  ASSUME \A t \in 1 .. Len(Metadata) : Complete(Metadata[t])
  PROVE  Spec => []DeclaredIsShown
<1>1. ASSUME IInv, ShowInv PROVE DeclaredIsShown
  <2>1. stage = "rows" => Complete(TypeInfo)
    BY <1>1 DEF IInv, Known
  <2>2. ASSUME stage = "done", Fields # << >>
        PROVE  { ShownAt(s) : s \in shown }
                 = { [Spot |-> d.Spot, Kind |-> d.Kind] : d \in Declared }
    <3> DEFINE all == DeclaredIn(Layouts[Header.Type])
               row(k) == [Spot |-> RowSpot(Fields, k), Kind |-> Kind(Fields[k]),
                          End |-> End(Generated(Fields, k))]
    <3>1. /\ Known /\ Shows
          /\ \A k \in 1 .. Len(Fields) : k < Index <=> Reaches(k)
      BY <1>1, <2>2 DEF ShowInv
    <3>2. { row(k) : k \in 1 .. Len(Fields) }
            = { [Spot |-> d.Spot, Kind |-> d.Kind, End |-> d.End] : d \in all }
      BY <2>2, <3>1 DEF Known, Complete, RowPlaces, Fields
    <3>3. \A s : ShownAt(s).Kind = Kind(Fields[s.Row])
      BY DEF ShownAt
    <3>4. \A s : ShownAt(s) = [Spot |-> ShownAt(s).Spot, Kind |-> ShownAt(s).Kind]
      BY DEF ShownAt
    <3>5. ASSUME NEW s \in shown
          PROVE  \E d \in Declared : ShownAt(s) = [Spot |-> d.Spot, Kind |-> d.Kind]
      <4>1. /\ s.Row \in 1 .. Len(Fields) /\ Reaches(s.Row)
            /\ ShownAt(s).Spot = RowSpot(Fields, s.Row)
        BY <3>1 DEF Shows
      <4>2. PICK d \in all : row(s.Row)
              = [Spot |-> d.Spot, Kind |-> d.Kind, End |-> d.End]
        BY <3>2, <4>1
      <4>3. /\ d.Spot = RowSpot(Fields, s.Row) /\ d.Kind = Kind(Fields[s.Row])
            /\ d.End = End(Generated(Fields, s.Row))
        BY <4>2
      <4>4. d \in Declared
        BY <4>1, <4>3 DEF Declared, Reaches
      <4> QED BY <3>3, <3>4, <4>1, <4>3, <4>4
    <3>6. ASSUME NEW d \in Declared
          PROVE  \E s \in shown : ShownAt(s) = [Spot |-> d.Spot, Kind |-> d.Kind]
      <4>1. d \in all /\ d.End <= Header.Length
        BY DEF Declared
      <4>2. PICK k \in 1 .. Len(Fields) :
              row(k) = [Spot |-> d.Spot, Kind |-> d.Kind, End |-> d.End]
        BY <3>2, <4>1
      <4>3. /\ d.Spot = RowSpot(Fields, k) /\ d.Kind = Kind(Fields[k])
            /\ d.End = End(Generated(Fields, k))
        BY <4>2
      <4>4. k < Index
        BY <3>1, <4>1, <4>3 DEF Reaches
      <4>5. PICK s \in shown : s.Row = k
        BY <3>1, <4>4 DEF Shows
      <4>6. ShownAt(s).Spot = d.Spot /\ ShownAt(s).Kind = d.Kind
        BY <3>1, <3>3, <4>3, <4>5 DEF Shows
      <4> QED BY <3>4, <4>5, <4>6
    <3> QED BY <3>5, <3>6
  <2> QED BY <2>1, <2>2 DEF DeclaredIsShown
<1> QED
  BY <1>1, Invariance, ShowInvariance, PTL

(* The first entry with a value is the only one of a table without         *)
(* duplicates.                                                             *)
LEMMA NameOfValue ==
  ASSUME NEW values, DOMAIN values = 1 .. Len(values),
         \A i, j \in DOMAIN values : values[i] = values[j] => i = j,
         NEW n \in DOMAIN values
  PROVE  EnumName(values, values[n]) = n
<1> DEFINE at == { j \in 1 .. Len(values) : values[j] = values[n] }
<1>1. at = {n}
  OBVIOUS
<1>2. n \in at /\ \A k \in at : n <= k
  BY <1>1
<1>3. (CHOOSE j \in at : \A k \in at : j <= k) = n
  BY <1>1, <1>2
<1> QED
  BY <1>2, <1>3 DEF EnumName

(* ... and names what is declared.  When the rows of an enumeration have   *)
(* its declared values, each once and none that is too wide, then whatever *)
(* the printer has shown by the end is named as it is declared, for every  *)
(* such metadata and every structure: FirmwareFindEnum, GetEnumName and    *)
(* the printer's own loop find the entry of each value.                    *)
THEOREM EnumeratedMetadataNamesDeclared ==
  ASSUME \A t \in 1 .. Len(Metadata) : Enumerated(Metadata[t])
  PROVE  Spec => []NamesExact
<1>1. ASSUME IInv, ShowInv PROVE NamesExact
  <2>1. stage = "rows" => Enumerated(TypeInfo)
    BY <1>1 DEF IInv, Known
  <2>2. ASSUME stage = "done", NEW s \in shown, Fields[s.Row].Type = "Enum"
        PROVE  LET values == Fields[s.Row].Values
               IN  /\ \E d \in Declared : /\ d.Spot = ShownAt(s).Spot
                                         /\ d.Names = Elements(values)
                   /\ \A j \in DOMAIN values : EnumName(values, values[j]) = j
                   /\ Fit(values, s.Count)
    <3> DEFINE values == Fields[s.Row].Values
    <3>1. Known /\ s.Row \in 1 .. Len(Fields)
      BY <1>1, <2>2 DEF IInv, Agreed
    <3>2. Fields # << >>
      <4>1. Len(<< >>) = 0
        OBVIOUS
      <4> QED BY <3>1, <4>1
    <3>3. Shows /\ \A k \in 1 .. Len(Fields) : k < Index <=> Reaches(k)
      BY <1>1, <2>2, <3>2 DEF ShowInv
    <3>4. EnumExact(TypeInfo, s.Row) /\ TypeInfo.Type = Header.Type
      BY <2>2, <3>1 DEF Known, Enumerated, Fields
    <3>5. ShownAt(s).Spot = RowSpot(Fields, s.Row) /\ Reaches(s.Row)
      BY <3>1, <3>3 DEF Shows
    <3>6. ShownAt(s).Spot.Count = s.Count
      BY DEF ShownAt
    <3>7. PICK d \in DeclaredIn(Layouts[Header.Type]) :
            /\ d.Spot = RowSpot(Fields, s.Row) /\ d.Names = Elements(values)
            /\ d.End = End(Generated(Fields, s.Row))
      BY <3>4 DEF EnumExact, Fields
    <3>8. d \in Declared
      BY <3>5, <3>7 DEF Declared, Reaches
    <3>9. /\ \A i, j \in DOMAIN values : values[i] = values[j] => i = j
          /\ Fit(values, s.Count)
      BY <3>4, <3>5, <3>6 DEF EnumExact, Fields
    <3>10. values \in Seq(Nat)
      <4>1. Fields[s.Row] \in Rows
        BY <3>1, RowFacts
      <4> QED BY <4>1 DEF Rows
    <3>11. DOMAIN values = 1 .. Len(values)
      BY <3>10
    <3> HIDE DEF values
    <3>12. \A j \in DOMAIN values : EnumName(values, values[j]) = j
      BY <3>9, <3>11, NameOfValue
    <3> QED BY <3>5, <3>7, <3>8, <3>9, <3>12 DEF values
  <2> QED BY <2>1, <2>2 DEF NamesExact
<1> QED
  BY <1>1, Invariance, ShowInvariance, PTL
=============================================================================
