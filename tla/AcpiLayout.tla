----------------------------- MODULE AcpiLayout -----------------------------
(***************************************************************************)
(* The tables of ACPI.h whose fields are decoded, and those it states the  *)
(* size of: the members of each, in order.  #pragma pack(1) puts them one  *)
(* after the other.  Flexible array members have no size and are left out. *)
(***************************************************************************)
EXTENDS Integers, Sequences, SequencesExt

Sized(size, names) == [i \in DOMAIN names |-> [Name |-> names[i], Size |-> size]]
uint8_t(names)  == Sized(1, names)
uint16_t(names) == Sized(2, names)
uint32_t(names) == Sized(4, names)
uint64_t(names) == Sized(8, names)
Bytes(n, name)  == Sized(n, <<name>>)
ACPI_GENERIC_ADDRESS == uint8_t(<<"AddressSpaceId", "RegisterBitWidth",
  "RegisterBitOffset", "AccessSize">>) \o uint64_t(<<"Address">>)

sizeof(members) == FoldLeft(LAMBDA sum, m : sum + m.Size, 0, members)
Address(names) == Sized(sizeof(ACPI_GENERIC_ADDRESS), names)

ACPI_ROOT_SYSTEM_DESCRIPTION_POINTER ==
  Bytes(8, "Signature") \o uint8_t(<<"Checksum">>) \o Bytes(6, "OemId") \o
  uint8_t(<<"Revision">>) \o uint32_t(<<"RsdtAddress", "Length">>) \o
  uint64_t(<<"XsdtAddress">>) \o uint8_t(<<"ExtendedChecksum">>) \o
  Bytes(3, "Reserved")

ACPI_DESCRIPTION_HEADER ==
  uint32_t(<<"Signature", "Length">>) \o uint8_t(<<"Revision", "Checksum">>) \o
  Bytes(6, "OemId") \o Bytes(8, "OemTableId") \o uint32_t(<<"OemRevision">>) \o
  Bytes(4, "CreatorId") \o uint32_t(<<"CreatorRevision">>)

ACPI_FACS ==
  uint32_t(<<"Signature", "Length", "HardwareSignature",
    "FirmwareWakingVector", "GlobalLock", "Flags">>) \o
  uint64_t(<<"XFirmwareWakingVector">>) \o uint8_t(<<"Version">>) \o
  Bytes(3, "Reserved") \o uint32_t(<<"OspmFlags">>) \o Bytes(24, "Reserved1")

ACPI_FADT ==
  ACPI_DESCRIPTION_HEADER \o uint32_t(<<"FirmwareControl", "Dsdt">>) \o
  uint8_t(<<"Reserved0", "PreferredPmProfile">>) \o
  uint16_t(<<"SciInterrupt">>) \o uint32_t(<<"SmiCommand">>) \o
  uint8_t(<<"AcpiEnable", "AcpiDisable", "S4BiosRequest", "PstateControl">>) \o
  uint32_t(<<"Pm1aEventBlock", "Pm1bEventBlock", "Pm1aControlBlock",
    "Pm1bControlBlock", "Pm2ControlBlock", "PmTimerBlock", "Gpe0Block",
    "Gpe1Block">>) \o
  uint8_t(<<"Pm1EventLength", "Pm1ControlLength", "Pm2ControlLength",
    "PmTimerLength", "Gpe0BlockLength", "Gpe1BlockLength", "Gpe1Base",
    "CstateControl">>) \o
  uint16_t(<<"C2Latency", "C3Latency", "FlushSize", "FlushStride">>) \o
  uint8_t(<<"DutyOffset", "DutyWidth", "DayAlarm", "MonthAlarm", "Century">>) \o
  uint16_t(<<"IaPcBootArchitecture">>) \o uint8_t(<<"Reserved1">>) \o
  uint32_t(<<"Flags">>) \o Address(<<"ResetRegister">>) \o
  uint8_t(<<"ResetValue">>) \o uint16_t(<<"ArmBootArchitecture">>) \o
  uint8_t(<<"MinorVersion">>) \o uint64_t(<<"XFirmwareControl", "XDsdt">>) \o
  Address(<<"XPm1aEventBlock", "XPm1bEventBlock", "XPm1aControlBlock",
    "XPm1bControlBlock", "XPm2ControlBlock", "XPmTimerBlock", "XGpe0Block",
    "XGpe1Block", "SleepControlRegister", "SleepStatusRegister">>) \o
  uint64_t(<<"HypervisorVendorIdentity">>)

ACPI_MADT ==
  ACPI_DESCRIPTION_HEADER \o uint32_t(<<"LocalApicAddress", "Flags">>)

ACPI_HPET ==
  ACPI_DESCRIPTION_HEADER \o uint32_t(<<"EventTimerBlockId">>) \o
  Address(<<"BaseAddress">>) \o uint8_t(<<"HpetNumber">>) \o
  uint16_t(<<"MinimumClockTick">>) \o uint8_t(<<"PageProtection">>)

ACPI_MCFG == ACPI_DESCRIPTION_HEADER \o uint64_t(<<"Reserved">>)

ACPI_BGRT ==
  ACPI_DESCRIPTION_HEADER \o uint16_t(<<"Version">>) \o
  uint8_t(<<"Status", "ImageType">>) \o uint64_t(<<"ImageAddress">>) \o
  uint32_t(<<"ImageOffsetX", "ImageOffsetY">>)

ACPI_TPM2 ==
  ACPI_DESCRIPTION_HEADER \o uint16_t(<<"PlatformClass", "Reserved">>) \o
  uint64_t(<<"ControlArea">>) \o uint32_t(<<"StartMethod">>)

ACPI_WAET == ACPI_DESCRIPTION_HEADER \o uint32_t(<<"Flags">>)
ACPI_WSMT == ACPI_DESCRIPTION_HEADER \o uint32_t(<<"ProtectionFlags">>)

ACPI_SRAT ==
  ACPI_DESCRIPTION_HEADER \o uint32_t(<<"Reserved0">>) \o
  uint64_t(<<"Reserved1">>)

ACPI_SLIT == ACPI_DESCRIPTION_HEADER \o uint64_t(<<"LocalityCount">>)

offsetof(members, name) ==
  LET at == CHOOSE i \in DOMAIN members : members[i].Name = name
  IN  sizeof(SubSeq(members, 1, at - 1))
Member(members, name) ==
  members[CHOOSE i \in DOMAIN members : members[i].Name = name]

(* The static assertions at the end of the header.                         *)
ASSUME SizeAssumption ==
  /\ sizeof(ACPI_ROOT_SYSTEM_DESCRIPTION_POINTER) = 36
  /\ sizeof(ACPI_DESCRIPTION_HEADER) = 36
  /\ sizeof(ACPI_GENERIC_ADDRESS) = 12
  /\ sizeof(ACPI_FACS) = 64
  /\ sizeof(ACPI_FADT) = 276
=============================================================================
