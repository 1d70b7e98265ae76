---------------------------- MODULE SmbiosFields ----------------------------
(***************************************************************************)
(* How the fields of one SMBIOS structure are read through the metadata:   *)
(* PrintSmbiosTable (SmbiosDecode.c) goes through the rows of the type and *)
(* prints each; the managed package reads one row at a time                *)
(* (TryReadUnsigned, TryGetString) from rows that a generator made of the  *)
(* same metadata.  The firmware chose the length of the structure, so any  *)
(* row may lie beyond it.                                                  *)
(*                                                                         *)
(* What is shown of a row is which bytes of the structure it is, and which *)
(* of their bits: not their value.  Rows are numbered from 1.              *)
(*                                                                         *)
(* A definition marked "a bug" is no part of the specification: it is a    *)
(* mistake the code could contain in place of the definition after it.     *)
(***************************************************************************)
EXTENDS Integers, Sequences

CONSTANTS
  Metadata,   \* SmbiosTypeInfo, a sequence of [Type, Fields]
  Layouts,    \* for each type its members, as SMBIOS.h declares them
  Headers     \* the structures looked at, [Type, Length]

DataTypes == {"Other", "String", "UInt", "Bit", "Enum", "Uuid", "Raw"}

(* A row, FIRMWARE_FIELD_INFO: of an enumeration the values in order.      *)
Rows == [IsBitField : BOOLEAN, Offset : Nat, Size : Nat, Type : DataTypes,
         Values : Seq(Nat)]

End(row) == row.Offset + row.Size

(* The sizes an integer is printed with, and those ReadUnsigned reads.     *)
Printable(size) == size \in {1, 2, 4, 8}

(* Row b holds the bits that row k describes: it is the last ordinary one. *)
Backs(fields, b, k) ==
  /\ b \in 1 .. k - 1
  /\ ~fields[b].IsBitField
  /\ \A j \in b + 1 .. k : fields[j].IsBitField

OrdinaryRow(row) ==
  /\ row.Type # "Bit" /\ row.Size >= 1
  /\ row.Type \in {"UInt", "Enum"} => Printable(row.Size)
  /\ row.Type = "String" => row.Size = 1
  /\ row.Type = "Uuid" => row.Size = 16

BitRowOf(fields, k) ==
  /\ fields[k].Type \in {"UInt", "Bit", "Enum"}
  /\ fields[k].Size >= 1
  /\ fields[k].Type = "Bit" => fields[k].Size = 1
  /\ \E b \in 1 .. k - 1 : /\ Backs(fields, b, k)
                           /\ fields[b].Type = "UInt"
                           /\ End(fields[k]) <= 8 * fields[b].Size

(* What the code takes for granted of the metadata of a type.              *)
WellFormed(fields) ==
  /\ fields \in Seq(Rows)
  /\ \A k \in 1 .. Len(fields) :
       IF fields[k].IsBitField THEN BitRowOf(fields, k)
       ELSE OrdinaryRow(fields[k])
  /\ \A j, k \in 1 .. Len(fields) :
       j < k /\ ~fields[j].IsBitField /\ ~fields[k].IsBitField
         => End(fields[j]) <= End(fields[k])

ASSUME MetadataAssumption ==
  /\ Metadata \in Seq([Type : Nat, Fields : Seq(Rows)])
  /\ \A t \in 1 .. Len(Metadata) : WellFormed(Metadata[t].Fields)
  /\ \A s, t \in 1 .. Len(Metadata) :
       Metadata[s].Type = Metadata[t].Type => s = t

ASSUME HeaderAssumption == Headers \subseteq [Type : Nat, Length : Nat]

VARIABLES
  Header,     \* of the structure
  Recent,     \* whether its version is at least 2.6
  TypeInfo,   \* its metadata, or NULL
  Index,      \* the row
  BitField,   \* where BitFieldValue was copied from; Size is BitFieldSize
  shown,      \* history: what was printed of which row
  reads,      \* the bytes of the structure read in the last step
  copied,     \* the bytes the last step copied into an eight-byte variable
  stage       \* "find", "rows", "done"

vars ==
  <<Header, Recent, TypeInfo, Index, BitField, shown, reads, copied, stage>>

-----------------------------------------------------------------------------
(* Places: some bytes, in the order shown, and bits of the number they are.*)
Bytes(offset, size) == [k \in 1 .. size |-> offset + k - 1]
Place(row, bytes, from, count) ==
  [Row |-> row, Bytes |-> bytes, From |-> from, Count |-> count]
Whole(row, offset, size) == Place(row, Bytes(offset, size), 0, 8 * size)

(* FirmwareExtractBits returns 0, no bit of the value, for a range that    *)
(* leaves 64 bits.                                                         *)
FirmwareExtractBits(from, count) ==
  IF from >= 64 \/ count > 64 - from THEN 0 ELSE count

(* The order in which a UUID is printed: since 2.6 its first three parts   *)
(* are little-endian.                                                      *)
UuidOrder == IF Recent
             THEN <<3, 2, 1, 0, 5, 4, 7, 6, 8, 9, 10, 11, 12, 13, 14, 15>>
             ELSE <<0, 1, 2, 3, 4, 5, 6, 7, 8, 9, 10, 11, 12, 13, 14, 15>>

(* No type: what TypeInfo is before it is found.                           *)
NULL == [Type |-> -1, Fields |-> << >>]

Init ==
  /\ Header \in Headers
  /\ Recent \in BOOLEAN
  /\ TypeInfo = NULL /\ Index = 1
  /\ BitField = [Offset |-> 0, Size |-> 0]
  /\ shown = {} /\ reads = {} /\ copied = 0
  /\ stage = "find"

(* The search of the type, in PrintSmbiosTable and SmbiosFindTypeInfo.     *)
Finds(t) == /\ Metadata[t].Type = Header.Type
            /\ \A s \in 1 .. t - 1 : Metadata[s].Type # Header.Type

Recognize ==
  /\ stage = "find"
  /\ \E t \in 1 .. Len(Metadata) : Finds(t) /\ TypeInfo' = Metadata[t]
  /\ stage' = "rows"
  /\ UNCHANGED <<Header, Recent, Index, BitField, shown, reads, copied>>

Unrecognized ==
  /\ stage = "find"
  /\ \A t \in 1 .. Len(Metadata) : ~Finds(t)
  /\ stage' = "done"
  /\ UNCHANGED <<Header, Recent, TypeInfo, Index, BitField, shown, reads,
                 copied>>

-----------------------------------------------------------------------------
(* The loop over the rows.                                                 *)
Fields == TypeInfo.Fields
Row == Fields[Index]
InRows == stage = "rows" /\ Index <= Len(Fields)

(* The value of a bit-field is loaded from the row before it, and kept for *)
(* the bit-fields after it.                                                *)
Loads == Row.IsBitField /\ BitField.Size = 0
NoBacking == Loads /\ (\/ Index = 1
                       \/ Fields[Index - 1].IsBitField
                       \/ Fields[Index - 1].Type # "UInt")

StartsBeyond == ~Row.IsBitField /\ Row.Offset > Header.Length     \* a bug
OutOfReach == ~Row.IsBitField /\ End(Row) > Header.Length

NextBitField ==
  IF Loads
  THEN [Offset |-> Fields[Index - 1].Offset, Size |-> Fields[Index - 1].Size]
  ELSE BitField
Kept == IF Row.IsBitField THEN NextBitField ELSE BitField         \* a bug
Backing == IF Row.IsBitField THEN NextBitField
           ELSE [Offset |-> 0, Size |-> 0]
ValueSize == IF Row.IsBitField THEN Backing.Size ELSE Row.Size

BytesAt(offset, size) == offset .. offset + size - 1
Load == IF Loads THEN BytesAt(Backing.Offset, Backing.Size) ELSE {}
LoadSize == IF Loads THEN Backing.Size ELSE 0
Larger(a, b) == IF a >= b THEN a ELSE b

Finish ==
  /\ stage = "rows" /\ Index > Len(Fields)
  /\ stage' = "done" /\ reads' = {} /\ copied' = 0
  /\ UNCHANGED <<Header, Recent, TypeInfo, Index, BitField, shown>>

Stop ==
  /\ InRows /\ (NoBacking \/ OutOfReach)
  /\ stage' = "done" /\ reads' = {} /\ copied' = 0
  /\ UNCHANGED <<Header, Recent, TypeInfo, Index, BitField, shown>>

Prints == InRows /\ ~NoBacking /\ ~OutOfReach

(* A row is printed: these places are shown, these bytes were read.        *)
Show(places, bytes, size) ==
  /\ shown' = shown \cup places
  /\ reads' = Load \cup bytes
  /\ copied' = Larger(LoadSize, size)
  /\ BitField' = Backing
  /\ Index' = Index + 1
  /\ UNCHANGED <<Header, Recent, TypeInfo, stage>>

BitPlace(count) ==
  Place(Index, Bytes(Backing.Offset, Backing.Size), Row.Offset, count)
IntegerPlace == IF Row.IsBitField
                THEN BitPlace(FirmwareExtractBits(Row.Offset, Row.Size))
                ELSE Whole(Index, Row.Offset, Row.Size)

(* Only the name is printed of what has no other form.                     *)
Unprintable == \/ Row.Type = "String" /\ Row.Size # 1
               \/ Row.Type = "Uuid" /\ Row.Size # 16
               \/ Row.Type = "Bit" /\ ~Row.IsBitField

PrintBit ==
  /\ Prints
  /\ Row.Type = "Bit" \/ Unprintable
  /\ Show(IF Unprintable THEN {} ELSE {BitPlace(1)}, {}, 0)

PrintString ==
  /\ Prints /\ Row.Type = "String" /\ Row.Size = 1
  /\ Show({Whole(Index, Row.Offset, 1)}, {Row.Offset}, 0)

PrintInteger ==
  /\ Prints /\ Row.Type \in {"UInt", "Enum"}
  /\ LET places == IF Printable(ValueSize) THEN {IntegerPlace} ELSE {}
     IN  IF Row.IsBitField THEN Show(places, {}, 0)
         ELSE Show(places, BytesAt(Row.Offset, Row.Size), Row.Size)

PrintBytes ==
  /\ Prints /\ Row.Type \in {"Raw", "Other"}
  /\ Show({Whole(Index, Row.Offset, Row.Size)}, BytesAt(Row.Offset, Row.Size), 0)

PrintUuid ==
  /\ Prints /\ Row.Type = "Uuid" /\ Row.Size = 16
  /\ Show({Place(Index, [k \in 1 .. 16 |-> Row.Offset + UuidOrder[k]], 0, 128)},
           BytesAt(Row.Offset, 16), 0)

Next ==
  \/ Recognize \/ Unrecognized \/ Finish \/ Stop
  \/ PrintBit \/ PrintString \/ PrintInteger \/ PrintBytes \/ PrintUuid

Spec == Init /\ [][Next]_vars

-----------------------------------------------------------------------------
(* The managed side.  The generator gives a bit-field the offset and size  *)
(* of the last ordinary row before it; it refuses a table without one.     *)
FirstBacking(fields, k) ==                                        \* a bug
  CHOOSE b \in 1 .. k - 1 : ~fields[b].IsBitField
GeneratedBacking(fields, k) == CHOOSE b \in 1 .. k - 1 : Backs(fields, b, k)
Generated(fields, k) ==
  IF fields[k].IsBitField THEN fields[GeneratedBacking(fields, k)]
  ELSE fields[k]

(* FirmwareBinary.Contains of the formatted area.                          *)
Inside(offset, size) ==
  offset <= Header.Length /\ size <= Header.Length - offset

TryReadUnsigned(fields, k) ==
  LET place == Generated(fields, k)
  IN  /\ fields[k].Type \in {"UInt", "Bit", "Enum"}
      /\ Inside(place.Offset, place.Size)
      /\ Printable(place.Size)

Unsigned(fields, k) ==
  LET place == Generated(fields, k)
  IN  IF fields[k].IsBitField
      THEN Place(k, Bytes(place.Offset, place.Size), fields[k].Offset,
                 fields[k].Size)
      ELSE Whole(k, place.Offset, place.Size)

TryGetString(fields, k) ==
  /\ fields[k].Type = "String" /\ ~fields[k].IsBitField /\ fields[k].Size = 1
  /\ Inside(fields[k].Offset, 1)

(* What TryReadUnsigned and TryGetString give for the rows of a type.      *)
ManagedPlaces(fields) ==
  { Unsigned(fields, k) :
      k \in { n \in 1 .. Len(fields) : TryReadUnsigned(fields, n) } }
  \cup
  { Whole(k, fields[k].Offset, 1) :
      k \in { n \in 1 .. Len(fields) : TryGetString(fields, n) } }

(* SmbiosMetadata.ByType: of two rows of a type the later one would stay.  *)
ByType(type) ==
  LET of == { t \in 1 .. Len(Metadata) : Metadata[t].Type = type }
  IN  IF of = {} THEN << >>
      ELSE Metadata[CHOOSE t \in of : \A s \in of : s <= t].Fields

(* Enumerations: FirmwareFindEnum, GetEnumName and the printer's own loop  *)
(* take the first value that matches; the answer is its place, or 0.       *)
EnumName(values, v) ==
  LET at == { j \in 1 .. Len(values) : values[j] = v }
  IN  IF at = {} THEN 0 ELSE CHOOSE j \in at : \A k \in at : j <= k

-----------------------------------------------------------------------------
(* What the header declares, to compare with.  The types without a member  *)
(* of their own, and those that are not known, are shown by their header.  *)
Elements(s) == { s[k] : k \in DOMAIN s }

Spot(offset, size, from, count) ==
  [Bytes |-> BytesAt(offset, size), From |-> from, Count |-> count]
WholeSpot(m) == Spot(m.Offset, m.Size, 0, 8 * m.Size)
PartSpot(m, view, k) ==
  LET From[n \in 1 .. k] == IF n = 1 THEN 0 ELSE From[n - 1] + view[n - 1].Width
  IN  Spot(m.Offset, m.Size, From[k], view[k].Width)

(* Every declared place: the members, and the parts of those that have any;*)
(* it is there when the structure reaches to the end of its member.        *)
DeclaredIn(members) ==
  { [Spot |-> WholeSpot(m), Kind |-> m.Kind, Names |-> m.Names, End |-> End(m)]
      : m \in Elements(members) }
  \cup UNION UNION
  { { { [Spot |-> PartSpot(m, view, k), Kind |-> "Part", Names |-> view[k].Names,
         End |-> End(m)]
          : k \in DOMAIN view } : view \in Elements(m.Views) }
      : m \in Elements(members) }
Declared ==
  { d \in DeclaredIn(Layouts[Header.Type]) : d.End <= Header.Length }

Kind(row) == IF row.IsBitField THEN "Part"
             ELSE IF row.Type = "Enum" THEN "UInt" ELSE row.Type
ShownAt(place) ==
  [Spot |-> [Bytes |-> Elements(place.Bytes), From |-> place.From,
             Count |-> place.Count],
   Kind |-> Kind(Fields[place.Row])]

(* The same of the rows of a type: the place each is about.                *)
RowSpot(fields, k) ==
  LET place == Generated(fields, k)
  IN  IF fields[k].IsBitField
      THEN Spot(place.Offset, place.Size, fields[k].Offset, fields[k].Size)
      ELSE WholeSpot(place)
RowPlaces(fields) ==
  { [Spot |-> RowSpot(fields, k), Kind |-> Kind(fields[k]),
     End |-> End(Generated(fields, k))] : k \in 1 .. Len(fields) }

(* The rows of a type are the declared places, and a row with an           *)
(* enumeration has the values of the declared one, each once, and none that *)
(* the field cannot hold.                                                  *)
Complete(info) ==
  info.Fields # << >> =>
    RowPlaces(info.Fields) =
      { [Spot |-> d.Spot, Kind |-> d.Kind, End |-> d.End]
          : d \in DeclaredIn(Layouts[info.Type]) }

Fit(values, count) ==
  count < 31 => \A j \in DOMAIN values : values[j] < 2 ^ count
EnumExact(info, k) ==
  LET values == info.Fields[k].Values
      spot == RowSpot(info.Fields, k)
  IN  /\ \E d \in DeclaredIn(Layouts[info.Type]) :
           /\ d.Spot = spot /\ d.Names = Elements(values)
           /\ d.End = End(Generated(info.Fields, k))
      /\ \A i, j \in DOMAIN values : values[i] = values[j] => i = j
      /\ Fit(values, spot.Count)
Enumerated(info) ==
  \A k \in 1 .. Len(info.Fields) :
    info.Fields[k].Type = "Enum" => EnumExact(info, k)

-----------------------------------------------------------------------------
TypeOK ==
  /\ Header \in Headers /\ Recent \in BOOLEAN
  /\ TypeInfo = NULL \/ \E t \in 1 .. Len(Metadata) : TypeInfo = Metadata[t]
  /\ Index \in Nat \ {0}
  /\ BitField \in [Offset : Nat, Size : Nat]
  /\ copied \in Nat
  /\ stage \in {"find", "rows", "done"}

(* However short the firmware made the structure, only bytes of its        *)
(* formatted area are read as fields, also those a bit-field takes from    *)
(* the row before it (SmbiosDecode.c:285), and no copy into an eight-byte  *)
(* variable is longer (SmbiosDecode.c:294, 339).                           *)
CopiesInside ==
  /\ TypeOK
  /\ reads \subseteq 0 .. Header.Length - 1
  /\ copied <= 8

(* The printer goes through the rows in order, carries the value of the    *)
(* bit-fields along and stops at the first row that is too far; the        *)
(* managed reader takes each row by itself.  Both show the same rows, from *)
(* the same bytes and bits.                                                *)
ReadersAgree ==
  stage = "done" =>
    { s \in shown : Fields[s.Row].Type \in {"UInt", "Bit", "Enum", "String"} }
      = ManagedPlaces(ByType(Header.Type))

(* The rows of a type that has any are what SMBIOS.h declares: every member*)
(* as what it is declared, and every part of those that are broken into    *)
(* bits, reserved ones included.  Of them exactly those are shown that the *)
(* structure is long enough for, wherever the printer stopped.             *)
DeclaredIsShown ==
  /\ stage = "rows" /\ Index = 1 => Complete(TypeInfo)
  /\ stage = "done" /\ Fields # << >> =>
       { ShownAt(s) : s \in shown }
         = { [Spot |-> d.Spot, Kind |-> d.Kind] : d \in Declared }

(* A shown enumeration has a name for exactly the values its enumeration   *)
(* in SMBIOS.h has, every one of them fits into the field, and none hides  *)
(* behind an earlier entry of the table.                                   *)
NamesExact ==
  /\ stage = "rows" /\ Index = 1 => Enumerated(TypeInfo)
  /\ stage = "done" => \A s \in shown : Fields[s.Row].Type = "Enum" =>
       LET values == Fields[s.Row].Values
       IN  /\ \E d \in Declared : /\ d.Spot = ShownAt(s).Spot
                                 /\ d.Names = Elements(values)
           /\ \A j \in DOMAIN values : EnumName(values, values[j]) = j
           /\ Fit(values, s.Count)

(* What the comments of SMBIOS.h say: a member with one that names an      *)
(* enumeration is shown with the name of its value.                        *)
CommentedIsNamed ==
  stage = "done" => \A s \in shown : \A d \in Declared :
    d.Spot = ShownAt(s).Spot /\ d.Names # {} => Fields[s.Row].Type = "Enum"
=============================================================================
