----------------------------- MODULE AcpiFields -----------------------------
(***************************************************************************)
(* How the fields of one ACPI table are read: DecodeTable and PrintFields  *)
(* of AcpiDecode go through the rows of ACPI.TypeInfo.h, whose offsets and *)
(* sizes the compiler takes from the structs of ACPI.h; the managed        *)
(* AcpiParser gives out rows with the offsets written down as numbers.     *)
(* The firmware chose the length, so that any row may lie beyond it.       *)
(*                                                                         *)
(* Of a row the name and the bytes matter, not their value.  The checksum  *)
(* holds, and the bytes are exactly the table: AcpiTable is about the      *)
(* other answers of the validators.                                        *)
(*                                                                         *)
(* A definition marked "a bug" is no part of the specification: it is a    *)
(* mistake the code could contain in place of the definition after it.     *)
(***************************************************************************)
EXTENDS AcpiLayout

CONSTANTS
  Signatures,    \* of the tables looked at
  MaxLength      \* their lengths are 0 .. MaxLength

ASSUME BoundAssumption == MaxLength \in Nat

(* A row, FIRMWARE_FIELD_INFO.                                             *)
FieldRows == [Name : STRING, Offset : Nat, Size : Nat, Type : {"UInt", "Raw"}]

-----------------------------------------------------------------------------
(* The rows of ACPI.TypeInfo.h.                                            *)
ACPI_FIELD(struct, field, name, type) ==
  [Name |-> name, Offset |-> offsetof(struct, field),
   Size |-> Member(struct, field).Size, Type |-> type]
UInt(struct, rows) ==
  [i \in DOMAIN rows |-> ACPI_FIELD(struct, rows[i][1], rows[i][2], "UInt")]
Raw(struct, rows) ==
  [i \in DOMAIN rows |-> ACPI_FIELD(struct, rows[i][1], rows[i][2], "Raw")]

AcpiHeaderFields ==
  UInt(ACPI_DESCRIPTION_HEADER, <<<<"Length", "Length">>,
    <<"Revision", "Revision">>, <<"Checksum", "Checksum">>>>) \o
  Raw(ACPI_DESCRIPTION_HEADER, <<<<"OemId", "OEM ID">>,
    <<"OemTableId", "OEM Table ID">>>>) \o
  UInt(ACPI_DESCRIPTION_HEADER, <<<<"OemRevision", "OEM Revision">>>>) \o
  Raw(ACPI_DESCRIPTION_HEADER, <<<<"CreatorId", "Creator ID">>>>) \o
  UInt(ACPI_DESCRIPTION_HEADER, <<<<"CreatorRevision", "Creator Revision">>>>)

AcpiFadtFields == UInt(ACPI_FADT, <<
  <<"FirmwareControl", "Firmware Control">>, <<"Dsdt", "DSDT">>,
  <<"PreferredPmProfile", "Preferred PM Profile">>,
  <<"SciInterrupt", "SCI Interrupt">>, <<"SmiCommand", "SMI Command">>,
  <<"Flags", "Flags">>, <<"ResetValue", "Reset Value">>,
  <<"XFirmwareControl", "Extended Firmware Control">>,
  <<"XDsdt", "Extended DSDT">>,
  <<"HypervisorVendorIdentity", "Hypervisor Vendor Identity">>>>)
AcpiMadtFields == UInt(ACPI_MADT, <<
  <<"LocalApicAddress", "Local APIC Address">>, <<"Flags", "Flags">>>>)
AcpiHpetFields == UInt(ACPI_HPET, <<
  <<"EventTimerBlockId", "Event Timer Block ID">>,
  <<"HpetNumber", "HPET Number">>,
  <<"MinimumClockTick", "Minimum Clock Tick">>,
  <<"PageProtection", "Page Protection">>>>)
AcpiBgrtFields == UInt(ACPI_BGRT, <<
  <<"Version", "Version">>, <<"Status", "Status">>,
  <<"ImageType", "Image Type">>, <<"ImageAddress", "Image Address">>,
  <<"ImageOffsetX", "Image Offset X">>, <<"ImageOffsetY", "Image Offset Y">>>>)
AcpiTpm2Fields == UInt(ACPI_TPM2, <<
  <<"PlatformClass", "Platform Class">>, <<"ControlArea", "Control Area">>,
  <<"StartMethod", "Start Method">>>>)
AcpiWaetFields == UInt(ACPI_WAET, <<<<"Flags", "Flags">>>>)
AcpiWsmtFields == UInt(ACPI_WSMT, <<<<"ProtectionFlags", "Protection Flags">>>>)
AcpiSlitFields == UInt(ACPI_SLIT, <<<<"LocalityCount", "Locality Count">>>>)

ACPI_TABLE(type, fields) == [MinimumSize |-> sizeof(type), Fields |-> fields]
ACPI_RAW_TABLE == ACPI_TABLE(ACPI_DESCRIPTION_HEADER, << >>)

AcpiTableInfo ==
  [APIC |-> ACPI_TABLE(ACPI_MADT, AcpiMadtFields),
   BGRT |-> ACPI_TABLE(ACPI_BGRT, AcpiBgrtFields),
   DSDT |-> ACPI_RAW_TABLE,
   FACP |-> [MinimumSize |-> offsetof(ACPI_FADT, "ResetRegister"),
             Fields |-> AcpiFadtFields],
   HMAT |-> ACPI_RAW_TABLE,
   HPET |-> ACPI_TABLE(ACPI_HPET, AcpiHpetFields),
   IORT |-> ACPI_RAW_TABLE,
   MCFG |-> ACPI_TABLE(ACPI_MCFG, << >>),
   NFIT |-> ACPI_RAW_TABLE,
   PCCT |-> ACPI_RAW_TABLE,
   PPTT |-> ACPI_RAW_TABLE,
   RSDT |-> ACPI_TABLE(ACPI_DESCRIPTION_HEADER, << >>),
   SLIT |-> ACPI_TABLE(ACPI_SLIT, AcpiSlitFields),
   SRAT |-> ACPI_TABLE(ACPI_SRAT, << >>),
   SSDT |-> ACPI_RAW_TABLE,
   TPM2 |-> ACPI_TABLE(ACPI_TPM2, AcpiTpm2Fields),
   WAET |-> ACPI_TABLE(ACPI_WAET, AcpiWaetFields),
   WSMT |-> ACPI_TABLE(ACPI_WSMT, AcpiWsmtFields),
   XSDT |-> ACPI_TABLE(ACPI_DESCRIPTION_HEADER, << >>)]

(* What the static assertions of ACPI.h and the compiler make sure of.     *)
ASSUME LayoutAssumption ==
  /\ AcpiHeaderFields \in Seq(FieldRows)
  /\ \A signature \in DOMAIN AcpiTableInfo :
       AcpiTableInfo[signature].Fields \in Seq(FieldRows)
  /\ sizeof(ACPI_DESCRIPTION_HEADER) = 36

-----------------------------------------------------------------------------
(* The rows of AcpiParser.cs.                                              *)
new(name, offset, size) == <<[Name |-> name, Offset |-> offset, Size |-> size]>>

HeaderFields ==
  new("Length", 4, 4) \o new("Revision", 8, 1) \o new("Checksum", 9, 1) \o
  new("OEM Revision", 24, 4) \o new("Creator Revision", 32, 4)

FacpFieldsAligned ==                                              \* a bug
  new("Firmware Control", 36, 4) \o new("DSDT", 40, 4) \o
  new("Preferred PM Profile", 45, 1) \o new("SCI Interrupt", 46, 2) \o
  new("SMI Command", 48, 4) \o new("Flags", 112, 4) \o
  new("Reset Value", 128, 1) \o new("Extended Firmware Control", 136, 8) \o
  new("Extended DSDT", 144, 8) \o new("Hypervisor Vendor Identity", 268, 8)
FacpFields ==
  new("Firmware Control", 36, 4) \o new("DSDT", 40, 4) \o
  new("Preferred PM Profile", 45, 1) \o new("SCI Interrupt", 46, 2) \o
  new("SMI Command", 48, 4) \o new("Flags", 112, 4) \o
  new("Reset Value", 128, 1) \o new("Extended Firmware Control", 132, 8) \o
  new("Extended DSDT", 140, 8) \o new("Hypervisor Vendor Identity", 268, 8)

TableFields ==
  [APIC |-> new("Local APIC Address", 36, 4) \o new("Flags", 40, 4),
   BGRT |-> new("Version", 36, 2) \o new("Status", 38, 1) \o
            new("Image Type", 39, 1) \o new("Image Address", 40, 8) \o
            new("Image Offset X", 48, 4) \o new("Image Offset Y", 52, 4),
   FACP |-> FacpFields,
   HPET |-> new("Event Timer Block ID", 36, 4) \o new("HPET Number", 52, 1) \o
            new("Minimum Clock Tick", 53, 2) \o new("Page Protection", 55, 1),
   SLIT |-> new("Locality Count", 36, 8),
   TPM2 |-> new("Platform Class", 36, 2) \o new("Control Area", 40, 8) \o
            new("Start Method", 48, 4),
   WAET |-> new("Flags", 36, 4),
   WSMT |-> new("Protection Flags", 36, 4)]

Descriptions ==
  {"APIC", "BGRT", "DSDT", "FACP", "HMAT", "HPET", "IORT", "MCFG", "NFIT",
   "PCCT", "PPTT", "RSDT", "SLIT", "SRAT", "SSDT", "TPM2", "WAET", "WSMT",
   "XSDT"}

ParserHeaderSize == 36

GetFields(signature) ==
  IF signature \in DOMAIN TableFields
  THEN HeaderFields \o TableFields[signature] ELSE HeaderFields

-----------------------------------------------------------------------------
VARIABLES
  Signature, Length,    \* of the table
  Fields, FieldIndex,   \* the rows being printed, and the next one
  Status,
  printed,              \* history: the rows printed
  stage                 \* "validate", "header", "table" or "done"

fieldsvars == <<Signature, Length, Fields, FieldIndex, Status, printed, stage>>

FieldsInit ==
  /\ Signature \in Signatures
  /\ Length \in 0 .. MaxLength
  /\ Fields = << >> /\ FieldIndex = 1
  /\ Status = "Unsupported"
  /\ printed = {}
  /\ stage = "validate"

(* AcpiValidateTable, of a table whose checksum holds.                     *)
Known == Signature \in DOMAIN AcpiTableInfo
Refused ==
  IF Length < sizeof(ACPI_DESCRIPTION_HEADER) THEN "TruncatedHeader"
  ELSE IF Known /\ Length < AcpiTableInfo[Signature].MinimumSize
  THEN "InvalidLength" ELSE "Success"

Validate ==
  /\ stage = "validate"
  /\ Status' = Refused
  /\ Fields' = AcpiHeaderFields
  /\ stage' = IF Refused = "Success" THEN "header" ELSE "done"
  /\ UNCHANGED <<Signature, Length, FieldIndex, printed>>

(* FirmwareBuffer_Get of the table; FirmwareBuffer_ReadUInt besides needs  *)
(* a size of one to eight bytes.                                           *)
Starts(row) == row.Offset <= Length                               \* a bug
Get(row) == row.Offset <= Length /\ row.Size <= Length - row.Offset
ReadUInt(row) == row.Size \in 1 .. 8 /\ Get(row)

Printing == stage \in {"header", "table"} /\ FieldIndex <= Len(Fields)
Readable(row) == \/ row.Type = "UInt" /\ ReadUInt(row)
                 \/ row.Type = "Raw" /\ Get(row)

PrintField ==
  /\ Printing /\ Readable(Fields[FieldIndex])
  /\ printed' = printed \cup {Fields[FieldIndex]}
  /\ FieldIndex' = FieldIndex + 1
  /\ UNCHANGED <<Signature, Length, Fields, Status, stage>>

(* A field beyond the end is left out, and those after it are not.         *)
SkipField ==
  /\ Printing /\ ~Readable(Fields[FieldIndex])
  /\ FieldIndex' = FieldIndex + 1
  /\ UNCHANGED <<Signature, Length, Fields, Status, printed, stage>>

TableRows ==
  /\ stage = "header" /\ FieldIndex > Len(Fields) /\ Known
  /\ Fields' = AcpiTableInfo[Signature].Fields
  /\ FieldIndex' = 1
  /\ stage' = "table"
  /\ UNCHANGED <<Signature, Length, Status, printed>>

Return ==
  /\ FieldIndex > Len(Fields)
  /\ stage = "table" \/ (stage = "header" /\ ~Known)
  /\ stage' = "done"
  /\ UNCHANGED <<Signature, Length, Fields, FieldIndex, Status, printed>>

FieldsNext == Validate \/ PrintField \/ SkipField \/ TableRows \/ Return

FieldsSpec == FieldsInit /\ [][FieldsNext]_fieldsvars

-----------------------------------------------------------------------------
(* AcpiParser.TryParse, and AcpiTable.TryReadUnsigned of the rows Fields   *)
(* gives.                                                                  *)
Parses == Length >= ParserHeaderSize
Inside(row) == row.Offset <= Length /\ row.Size <= Length - row.Offset
Elements(s) == { s[i] : i \in DOMAIN s }
ManagedRows ==
  { r \in Elements(GetFields(Signature)) :
      Inside(r) /\ r.Size \in {1, 2, 4, 8} }

FieldsTypeOK ==
  /\ Signature \in Signatures /\ Length \in 0 .. MaxLength
  /\ FieldIndex \in 1 .. Len(Fields) + 1
  /\ Status \in {"Unsupported", "TruncatedHeader", "InvalidLength", "Success"}
  /\ stage \in {"validate", "header", "table", "done"}

(* The tables of the two sides are the same: the signatures they know, and *)
(* the names, offsets and sizes of the numbers.                            *)
Bare(row) == [Name |-> row.Name, Offset |-> row.Offset, Size |-> row.Size]
RowsAlike(signature) ==
  /\ signature \in DOMAIN AcpiTableInfo <=> signature \in Descriptions
  /\ LET rows == Elements(AcpiHeaderFields) \cup
                 (IF signature \in DOMAIN AcpiTableInfo
                  THEN Elements(AcpiTableInfo[signature].Fields) ELSE {})
     IN  { Bare(r) : r \in { q \in rows : q.Type = "UInt" } }
           = Elements(GetFields(signature))
  /\ \A r \in Elements(GetFields(signature)) : r.Size \in {1, 2, 4, 8}

(* Of every table that both accept, at every length, both sides give out   *)
(* the same numbers: the same names, each read from the same bytes, none   *)
(* of them beyond the end, and none left out because a field before it was *)
(* out of reach.  They know the same signatures.  What the native side     *)
(* accepts the managed one does too.                                       *)
FieldsAgree ==
  /\ FieldsTypeOK
  /\ stage = "header" => RowsAlike(Signature)
  /\ \A p \in printed : p.Offset + p.Size <= Length
  /\ stage = "done" /\ Status = "Success" =>
       /\ Parses
       /\ Known <=> Signature \in Descriptions
       /\ { Bare(p) : p \in { q \in printed : q.Type = "UInt" } } = ManagedRows
=============================================================================
