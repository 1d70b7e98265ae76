---------------------------- MODULE SmbiosTypeInfo ---------------------------
(***************************************************************************)
(* The metadata of SMBIOS.TypeInfo.h: for every structure type the rows    *)
(* that describe its fields.  A row takes its offset and size from the     *)
(* member of SMBIOS.h it names; a bit-field row has a bit offset and a     *)
(* number of bits instead, and belongs to the row before the bit-fields.   *)
(* Of an enumeration only the values are kept, in the order of the table.  *)
(*                                                                         *)
(* A definition marked "a bug" is no part of the metadata: it is a mistake *)
(* the table could contain in place of the definition after it.            *)
(***************************************************************************)
EXTENDS SmbiosLayout

FieldRow(member, type, values) ==
  <<[IsBitField |-> FALSE, Member |-> member, Type |-> type,
     Values |-> values]>>
Str(member)  == FieldRow(member, "String", << >>)
UInt(member) == FieldRow(member, "UInt", << >>)
Raw(member)  == FieldRow(member, "Raw", << >>)
Uuid(member) == FieldRow(member, "Uuid", << >>)
Enum(member, values) == FieldRow(member, "Enum", values)

BitRow(offset, size, type, values) ==
  <<[IsBitField |-> TRUE, Offset |-> offset, Size |-> size, Type |-> type,
     Values |-> values]>>
Bit(offset) == BitRow(offset, 1, "Bit", << >>)
Bits(offset, size) == BitRow(offset, size, "UInt", << >>)
BitEnum(offset, size, values) == BitRow(offset, size, "Enum", values)
Flags(first, last) ==
  FlattenSeq([i \in 1 .. last - first + 1 |-> Bit(first + i - 1)])

Values(first, last) == [i \in 1 .. last - first + 1 |-> first + i - 1]

(* offsetof and sizeof of the member a row names.                          *)
Define(struct, rows) ==
  LET flat == FlattenSeq(rows)
      At(name) == struct[CHOOSE i \in DOMAIN struct : struct[i].Name = name]
      Place(row) == IF row.IsBitField THEN row ELSE At(row.Member)
  IN  [k \in DOMAIN flat |->
         [IsBitField |-> flat[k].IsBitField, Type |-> flat[k].Type,
          Offset |-> Place(flat[k]).Offset, Size |-> Place(flat[k]).Size,
          Values |-> flat[k].Values]]

-----------------------------------------------------------------------------
(* The enumerations, SMBIOS_FIELD_ENUM.                                    *)
SmbiosPlatformFirmwareExtendedRomsizeUnitEnum == Values(0, 1)
SmbiosSystemWakeuptypeEnum == Values(0, 8)
SmbiosBaseboardTypeEnum == Values(1, 13)
SmbiosSystemEnclosureOrChassisSecurityStateEnum == Values(1, 5)
SmbiosSystemEnclosureOrChassisStateEnum == Values(1, 6)
SmbiosSystemEnclosureOrChassisTypeEnum == Values(1, 36)
SmbiosProcessorFamily2Enum == Values(256, 258) \o Values(260, 261) \o
    Values(280, 281) \o Values(300, 302) \o Values(320, 320) \o
    Values(350, 350) \o Values(500, 500) \o Values(512, 514) \o
    Values(600, 610) \o Values(620, 625) \o Values(768, 775)
SmbiosProcessorUpgradeEnum == Values(1, 87) \o Values(255, 255)
SmbiosProcessorCpuStatusEnum == Values(0, 4) \o Values(7, 7)
SmbiosProcessorFamilyEnum == Values(1, 22) \o Values(24, 88) \o
    Values(96, 107) \o Values(112, 112) \o Values(120, 122) \o
    Values(128, 128) \o Values(130, 150) \o Values(160, 189) \o
    Values(191, 208) \o Values(210, 219) \o Values(221, 224) \o
    Values(228, 239) \o Values(250, 251) \o Values(254, 254)
SmbiosProcessorTypeEnum == Values(1, 6)
SmbiosMemoryControllerInterleaveEnum == Values(1, 7)
SmbiosMemoryControllerErrorDetectingMethodEnum == Values(1, 8)
SmbiosCacheAssociativityEnum == Values(1, 14)
SmbiosCacheSystemCacheTypeEnum == Values(1, 5)
SmbiosCacheErrorCorrectionTypeEnum == Values(1, 6)
SmbiosCacheOperationalModeEnum == Values(0, 3)
SmbiosCacheLocationEnum == Values(0, 3)
SmbiosPortConnectorPortTypeEnum == Values(0, 35) \o Values(160, 161) \o
    Values(255, 255)
SmbiosPortConnectorTypeEnum == Values(0, 35) \o Values(160, 164) \o
    Values(255, 255)
SmbiosSystemSlotsLengthEnum == Values(1, 6)
SmbiosSystemSlotsCurrentUsageEnum == Values(1, 5)
SmbiosSystemSlotsDataBusWidthEnum == Values(1, 14)
SmbiosSystemSlotsTypeEnum == Values(1, 40) \o Values(48, 48) \o
    Values(160, 182) \o Values(184, 198)
SmbiosSystemEventLogHeaderformatEnum == Values(0, 1)
SmbiosSystemEventLogAccessmethodEnum == Values(0, 4)
SmbiosPhysicalMemoryArrayErrorCorrectionTypeEnum == Values(1, 7)
SmbiosPhysicalMemoryArrayUseEnum == Values(1, 7)
SmbiosPhysicalMemoryArrayLocationEnum == Values(1, 10) \o Values(160, 164)
SmbiosMemoryDeviceTechnologyEnum == Values(1, 8)
SmbiosMemoryDeviceTypeEnum == Values(1, 20) \o Values(24, 37)
SmbiosMemoryDeviceFormFactorEnum == Values(1, 19)
SmbiosMemoryErrorOperationEnum == Values(1, 5)
SmbiosMemoryErrorGranularityEnum == Values(1, 4)
SmbiosMemoryErrorTypeEnum == Values(1, 14)
SmbiosBuiltinPointingDeviceInterfaceEnum == Values(1, 8) \o Values(160, 164)
SmbiosBuiltinPointingDeviceTypeEnum == Values(1, 9)
SmbiosSystemResetBootOptionEnum == Values(0, 3)
SmbiosHardwareSecuritySettingsStatusEnum == Values(0, 3)
SmbiosProbeStatusEnum == Values(1, 6)
SmbiosVoltageProbeLocationEnum == Values(1, 11)
SmbiosCoolingDeviceTypeEnum == Values(1, 9) \o Values(16, 17)
SmbiosSystemBootStatusEnum == Values(0, 8)
SmbiosManagementDeviceAddressTypeEnum == Values(1, 5)
SmbiosManagementDeviceTypeEnum == Values(1, 13)
SmbiosMemoryChannelTypeEnum == Values(1, 4)
SmbiosIpmiDeviceBaseaddressRegisterSpacingEnum == Values(0, 3)
SmbiosIpmiDeviceInterfaceTypeEnum == Values(0, 4)
SmbiosSystemPowerSupplyTypeEnum == Values(1, 8)
SmbiosSystemPowerSupplyStatusEnum == Values(1, 5)
SmbiosSystemPowerSupplyInputVoltageRangeSwitchingEnum == Values(1, 6)
SmbiosOnboardDevicesExtendedTypeEnum == Values(1, 16)
FromZero == Values(0, 7)    \* a bug
SmbiosFirmwareInventoryStateEnum == Values(1, 8)
SmbiosFirmwareInventoryIdFormatEnum == Values(0, 1)
SmbiosFirmwareInventoryVersionFormatEnum == Values(0, 3)
SmbiosStringPropertyIdEnum == Values(0, 1)

-----------------------------------------------------------------------------
(* Bit-field rows that several structures share.                           *)
SMBIOS_MEMORY_TYPE_FIELDS == FlattenSeq(<<Flags(0, 10), Bits(11, 5)>>)
SMBIOS_MEMORY_MODULE_SIZE_FIELDS == FlattenSeq(<<Bits(0, 7), Bit(7)>>)
SMBIOS_CACHE_SIZE2_FIELDS == FlattenSeq(<<Bits(0, 31), Bit(31)>>)
SMBIOS_CACHE_SRAM_TYPE_FIELDS == FlattenSeq(<<Flags(0, 6), Bits(7, 9)>>)
GranularityLeftOut == Bits(0, 15)    \* a bug
SMBIOS_CACHE_SIZE_FIELDS == FlattenSeq(<<Bits(0, 15), Bit(15)>>)

-----------------------------------------------------------------------------
(* The rows of each type, SMBIOS_FIELD_TYPE_INFO.                          *)
SmbiosType0FieldInfo == Define(SMBIOS_PLATFORM_FIRMWARE_INFORMATION, <<
  Str("Vendor"), Str("Version"), UInt("BIOSStartingAddressSegment"),
  Str("ReleaseDate"), UInt("ROMSize"), UInt("Characteristics"), Flags(0, 31),
  Bits(32, 16), Bits(48, 16), UInt("CharacteristicsExtensionByte1"),
  Flags(0, 7), UInt("CharacteristicsExtensionByte2"), Flags(0, 7),
  UInt("MajorRelease"), UInt("MinorRelease"), UInt("ECFirmwareMajorRelease"),
  UInt("ECFirmwareMinorRelease"), UInt("ExtendedROMSize"), Bits(0, 14),
  BitEnum(14, 2, SmbiosPlatformFirmwareExtendedRomsizeUnitEnum) >>)

SmbiosType1FieldInfo == Define(SMBIOS_SYSTEM_INFORMATION, <<
  Str("Manufacturer"), Str("ProductName"), Str("Version"),
  Str("SerialNumber"), Uuid("UUID"),
  Enum("WakeUpType", SmbiosSystemWakeuptypeEnum), Str("SKUNumber"),
  Str("Family") >>)

SmbiosType2FieldInfo == Define(SMBIOS_BASEBOARD_INFORMATION, <<
  Str("Manufacturer"), Str("Product"), Str("Version"), Str("SerialNumber"),
  Str("AssetTag"), UInt("FeatureFlags"), Flags(0, 4), Bits(5, 3),
  Str("LocationInChassis"), UInt("ChassisHandle"),
  Enum("BoardType", SmbiosBaseboardTypeEnum),
  UInt("NumberOfContainedObjectHandles") >>)

SmbiosType3FieldInfo == Define(SMBIOS_SYSTEM_ENCLOSURE_OR_CHASSIS, <<
  Str("Manufacturer"), UInt("Type"),
  BitEnum(0, 7, SmbiosSystemEnclosureOrChassisTypeEnum), Bit(7),
  Str("Version"), Str("SerialNumber"), Str("AssetTagNumber"),
  Enum("BootUpState", SmbiosSystemEnclosureOrChassisStateEnum),
  Enum("PowerSupplyState", SmbiosSystemEnclosureOrChassisStateEnum),
  Enum("ThermalState", SmbiosSystemEnclosureOrChassisStateEnum),
  Enum("SecurityStatus", SmbiosSystemEnclosureOrChassisSecurityStateEnum),
  UInt("OEMDefined"), UInt("Height"), UInt("NumberOfPowerCords"),
  UInt("ContainedElementCount"), UInt("ContainedElementRecordLength") >>)

SmbiosType4FieldInfo == Define(SMBIOS_PROCESSOR_INFORMATION, <<
  Str("SocketDesignation"), Enum("Type", SmbiosProcessorTypeEnum),
  Enum("Family", SmbiosProcessorFamilyEnum), Str("Manufacturer"), UInt("ID"),
  Str("Version"), UInt("Voltage"), Flags(0, 3), Bits(4, 3), Bit(7),
  Bits(0, 7), Bit(7), UInt("ExternalClock"), UInt("MaxSpeed"),
  UInt("CurrentSpeed"), UInt("Status"),
  BitEnum(0, 3, SmbiosProcessorCpuStatusEnum), Bits(3, 3), Flags(6, 7),
  Enum("Upgrade", SmbiosProcessorUpgradeEnum), UInt("L1CacheHandle"),
  UInt("L2CacheHandle"), UInt("L3CacheHandle"), Str("SerialNumber"),
  Str("AssetTag"), Str("PartNumber"), UInt("CoreCount"), UInt("CoreEnabled"),
  UInt("ThreadCount"), UInt("Characteristics"), Flags(0, 9), Bits(10, 6),
  Enum("Family2", SmbiosProcessorFamily2Enum), UInt("CoreCount2"),
  UInt("CoreEnabled2"), UInt("ThreadCount2"), UInt("ThreadEnabled"),
  UInt("SocketType") >>)

SmbiosType5FieldInfo == Define(SMBIOS_MEMORY_CONTROLLER_INFORMATION, <<
  Enum("ErrorDetectingMethod",
      SmbiosMemoryControllerErrorDetectingMethodEnum),
  UInt("ErrorCorrectingCapability"), Flags(0, 5), Bits(6, 2),
  Enum("SupportedInterleave", SmbiosMemoryControllerInterleaveEnum),
  Enum("CurrentInterleave", SmbiosMemoryControllerInterleaveEnum),
  UInt("MaximumMemoryModuleSize"), UInt("SupportedSpeeds"), Flags(0, 4),
  Bits(5, 11), UInt("SupportedMemoryTypes"), SMBIOS_MEMORY_TYPE_FIELDS,
  UInt("MemoryModuleVoltage"), Flags(0, 2), Bits(3, 5),
  UInt("NumberOfAssociatedMemorySlots") >>)

SmbiosType6FieldInfo == Define(SMBIOS_MEMORY_MODULE_INFORMATION, <<
  Str("SocketDesignation"), UInt("BankConnections"), UInt("CurrentSpeed"),
  UInt("CurrentMemoryType"), SMBIOS_MEMORY_TYPE_FIELDS, UInt("InstalledSize"),
  SMBIOS_MEMORY_MODULE_SIZE_FIELDS, UInt("EnabledSize"),
  SMBIOS_MEMORY_MODULE_SIZE_FIELDS, UInt("ErrorStatus"), Flags(0, 2),
  Bits(3, 5) >>)

SmbiosType7FieldInfo == Define(SMBIOS_CACHE_INFORMATION, <<
  Str("SocketDesignation"), UInt("Configuration"), Bits(0, 3), Flags(3, 4),
  BitEnum(5, 2, SmbiosCacheLocationEnum), Bit(7),
  BitEnum(8, 2, SmbiosCacheOperationalModeEnum), Bits(10, 6),
  UInt("MaximumCacheSize"), SMBIOS_CACHE_SIZE_FIELDS, UInt("InstalledSize"),
  SMBIOS_CACHE_SIZE_FIELDS, UInt("SupportedSRAMType"),
  SMBIOS_CACHE_SRAM_TYPE_FIELDS, UInt("CurrentSRAMType"),
  SMBIOS_CACHE_SRAM_TYPE_FIELDS, UInt("CacheSpeed"),
  Enum("ErrorCorrectionType", SmbiosCacheErrorCorrectionTypeEnum),
  Enum("SystemCacheType", SmbiosCacheSystemCacheTypeEnum),
  Enum("Associativity", SmbiosCacheAssociativityEnum),
  UInt("MaximumCacheSize2"), SMBIOS_CACHE_SIZE2_FIELDS,
  UInt("InstalledCacheSize2"), SMBIOS_CACHE_SIZE2_FIELDS >>)

SmbiosType8FieldInfo == Define(SMBIOS_PORT_CONNECTOR_INFORMATION, <<
  Str("InternalReferenceDesignator"),
  Enum("InternalConnectorType", SmbiosPortConnectorTypeEnum),
  Str("ExternalReferenceDesignator"),
  Enum("ExternalConnectorType", SmbiosPortConnectorTypeEnum),
  Enum("PortType", SmbiosPortConnectorPortTypeEnum) >>)

SmbiosType9FieldInfo == Define(SMBIOS_SYSTEM_SLOTS, <<
  Str("Designation"), Enum("Type", SmbiosSystemSlotsTypeEnum),
  Enum("DataBusWidth", SmbiosSystemSlotsDataBusWidthEnum),
  Enum("CurrentUsage", SmbiosSystemSlotsCurrentUsageEnum),
  Enum("Length", SmbiosSystemSlotsLengthEnum), UInt("ID"),
  UInt("Characteristics1"), Flags(0, 7), UInt("Characteristics2"),
  Flags(0, 7), UInt("SegmentGroupNumber"), UInt("BusNumber"),
  UInt("DeviceFunctionNumber"), Bits(0, 3), Bits(3, 5),
  UInt("BaseDataBusWidth"), UInt("PeerGroupingCount") >>)

SmbiosType11FieldInfo == Define(SMBIOS_OEM_STRINGS, <<UInt("Count")>>)

SmbiosType12FieldInfo == Define(SMBIOS_SYSTEM_CONFIGURATION_OPTIONS, <<
  UInt("Count") >>)

SmbiosType13FieldInfo == Define(SMBIOS_FIRMWARE_LANGUAGE_INFORMATION, <<
  UInt("InstallableLanguages"), UInt("Flags"), Bit(0), Bits(1, 7),
  Raw("Reserved"), Str("CurrentLanguage") >>)

SmbiosType14FieldInfo == Define(SMBIOS_GROUP_ASSOCIATIONS, <<
  Str("GroupName") >>)

SmbiosType15FieldInfo == Define(SMBIOS_SYSTEM_EVENT_LOG, <<
  UInt("AreaLength"), UInt("HeaderStartOffset"), UInt("DataStartOffset"),
  Enum("AccessMethod", SmbiosSystemEventLogAccessmethodEnum), UInt("Status"),
  Flags(0, 1), Bits(2, 6), UInt("ChangeToken"), UInt("AccessMethodAddress"),
  Enum("HeaderFormat", SmbiosSystemEventLogHeaderformatEnum),
  UInt("NumberOfSupportedTypeDescriptors"), UInt("LengthOfTypeDescriptor") >>)

SmbiosType16FieldInfo == Define(SMBIOS_PHYSICAL_MEMORY_ARRAY, <<
  Enum("Location", SmbiosPhysicalMemoryArrayLocationEnum),
  Enum("Use", SmbiosPhysicalMemoryArrayUseEnum),
  Enum("ErrorCorrection", SmbiosPhysicalMemoryArrayErrorCorrectionTypeEnum),
  UInt("MaximumCapacity"), UInt("ErrorInformationHandle"),
  UInt("NumberOfMemoryDevices"), UInt("ExtendedMaximumCapacity") >>)

SmbiosType17FieldInfo == Define(SMBIOS_MEMORY_DEVICE, <<
  UInt("PhysicalMemoryArrayHandle"), UInt("ErrorInformationHandle"),
  UInt("TotalWidth"), UInt("DataWidth"), UInt("Size"), Bits(0, 15), Bit(15),
  Enum("FormFactor", SmbiosMemoryDeviceFormFactorEnum), UInt("DeviceSet"),
  Str("DeviceLocator"), Str("BankLocator"),
  Enum("Type", SmbiosMemoryDeviceTypeEnum), UInt("TypeDetail"), Flags(0, 15),
  UInt("Speed"), Str("Manufacturer"), Str("SerialNumber"), Str("AssetTag"),
  Str("PartNumber"), UInt("Attributes"), Bits(0, 4), Bits(4, 4),
  UInt("ExtendedSize"), Bits(0, 31), Bit(31), UInt("ConfiguredMemorySpeed"),
  UInt("MinimumVoltage"), UInt("MaximumVoltage"), UInt("ConfiguredVoltage"),
  Enum("Technology", SmbiosMemoryDeviceTechnologyEnum),
  UInt("OperatingModeCapability"), Flags(0, 5), Bits(6, 10),
  Str("FirmwareVersion"), UInt("ModuleManufacturerID"),
  UInt("ModuleProductID"), UInt("SubsystemControllerManufacturerID"),
  UInt("SubsystemControllerProductID"), UInt("NonVolatileSize"),
  UInt("VolatileSize"), UInt("CacheSize"), UInt("LogicalSize"),
  UInt("ExtendedSpeed"), UInt("ExtendedConfiguredSpeed"),
  UInt("PMIC0ManufacturerID"), UInt("PMIC0RevisionNumber"),
  UInt("RCDManufacturerID"), UInt("RCDRevisionNumber") >>)

SmbiosType18FieldInfo == Define(SMBIOS_32BIT_MEMORY_ERROR_INFORMATION, <<
  Enum("Type", SmbiosMemoryErrorTypeEnum),
  Enum("Granularity", SmbiosMemoryErrorGranularityEnum),
  Enum("Operation", SmbiosMemoryErrorOperationEnum), UInt("VendorSyndrome"),
  UInt("MemoryArrayErrorAddress"), UInt("DeviceErrorAddress"),
  UInt("Resolution") >>)

SmbiosType19FieldInfo == Define(SMBIOS_MEMORY_ARRAY_MAPPED_ADDRESS, <<
  UInt("StartingAddress"), UInt("EndingAddress"), UInt("MemoryArrayHandle"),
  UInt("PartitionWidth"), UInt("ExtendedStartingAddress"),
  UInt("ExtendedEndingAddress") >>)

SmbiosType20FieldInfo == Define(SMBIOS_MEMORY_DEVICE_MAPPED_ADDRESS, <<
  UInt("StartingAddress"), UInt("EndingAddress"), UInt("MemoryDeviceHandle"),
  UInt("MemoryArrayMappedAddressHandle"), UInt("PartitionRowPosition"),
  UInt("InterleavePosition"), UInt("InterleavedDataDepth"),
  UInt("ExtendedStartingAddress"), UInt("ExtendedEndingAddress") >>)

SmbiosType21FieldInfo == Define(SMBIOS_BUILTIN_POINTING_DEVICE, <<
  Enum("Type", SmbiosBuiltinPointingDeviceTypeEnum),
  Enum("Interface", SmbiosBuiltinPointingDeviceInterfaceEnum),
  UInt("NumberOfButtons") >>)

SmbiosType22FieldInfo == Define(SMBIOS_PORTABLE_BATTERY, <<
  Str("Location"), Str("Manufacturer"), Str("ManufactureDate"),
  Str("SerialNumber"), Str("DeviceName"), UInt("DeviceChemistry"),
  UInt("DesignCapacity"), UInt("DesignVoltage"), Str("SBDSVersionNumber"),
  UInt("MaximumError"), UInt("SBDSSerialNumber"), UInt("SBDSManufactureDate"),
  Bits(0, 5), Bits(5, 4), Bits(9, 7), Str("SBDSDeviceChemistry"),
  UInt("DesignCapacityMultiplier"), UInt("OEMSpecific") >>)

SmbiosType23FieldInfo == Define(SMBIOS_SYSTEM_RESET, <<
  UInt("Capabilities"), Bit(0),
  BitEnum(1, 2, SmbiosSystemResetBootOptionEnum),
  BitEnum(3, 2, SmbiosSystemResetBootOptionEnum), Bit(5), Bits(6, 2),
  UInt("ResetCount"), UInt("ResetLimit"), UInt("TimerInterval"),
  UInt("Timeout") >>)

SmbiosType24FieldInfo == Define(SMBIOS_HARDWARE_SECURITY, <<
  UInt("Settings"), BitEnum(0, 2, SmbiosHardwareSecuritySettingsStatusEnum),
  BitEnum(2, 2, SmbiosHardwareSecuritySettingsStatusEnum),
  BitEnum(4, 2, SmbiosHardwareSecuritySettingsStatusEnum),
  BitEnum(6, 2, SmbiosHardwareSecuritySettingsStatusEnum) >>)

SmbiosType25FieldInfo == Define(SMBIOS_SYSTEM_POWER_CONTROLS, <<
  UInt("NextScheduledPowerOnMonth"), UInt("NextScheduledPowerOnDayOfMonth"),
  UInt("NextScheduledPowerOnHour"), UInt("NextScheduledPowerOnMinute"),
  UInt("NextScheduledPowerOnSecond") >>)

SmbiosType26FieldInfo == Define(SMBIOS_VOLTAGE_PROBE, <<
  Str("Description"), UInt("LocationAndStatus"),
  BitEnum(0, 5, SmbiosVoltageProbeLocationEnum),
  BitEnum(5, 3, SmbiosProbeStatusEnum), UInt("MaximumValue"),
  UInt("MinimumValue"), UInt("Resolution"), UInt("Tolerance"),
  UInt("Accuracy"), UInt("OEMDefined"), UInt("NominalValue") >>)

SmbiosType27FieldInfo == Define(SMBIOS_COOLING_DEVICE, <<
  UInt("TemperatureProbeHandle"), UInt("DeviceTypeAndStatus"),
  BitEnum(0, 5, SmbiosCoolingDeviceTypeEnum),
  BitEnum(5, 3, SmbiosProbeStatusEnum), UInt("CoolingUnitGroup"),
  UInt("OEMDefined"), UInt("NominalSpeed"), Str("Description") >>)

SmbiosType28FieldInfo == Define(SMBIOS_TEMPERATURE_PROBE, <<
  Str("Description"), UInt("LocationAndStatus"), Bits(0, 5), Bits(5, 3),
  UInt("MaximumValue"), UInt("MinimumValue"), UInt("Resolution"),
  UInt("Tolerance"), UInt("Accuracy"), UInt("OEMDefined"),
  UInt("NominalValue") >>)

SmbiosType29FieldInfo == Define(SMBIOS_ELECTRICAL_CURRENT_PROBE, <<
  Str("Description"), UInt("LocationAndStatus"), Bits(0, 5),
  BitEnum(5, 3, SmbiosProbeStatusEnum), UInt("MaximumValue"),
  UInt("MinimumValue"), UInt("Resolution"), UInt("Tolerance"),
  UInt("Accuracy"), UInt("OEMDefined"), UInt("NominalValue") >>)

SmbiosType30FieldInfo == Define(SMBIOS_OUT_OF_BAND_REMOTE_ACCESS, <<
  Str("ManufacturerName"), UInt("Connections"), Flags(0, 1), Bits(2, 6) >>)

SmbiosType32FieldInfo == Define(SMBIOS_SYSTEM_BOOT_INFORMATION, <<
  Raw("Reserved"), Enum("Status", SmbiosSystemBootStatusEnum),
  Raw("AdditionalData") >>)

SmbiosType33FieldInfo == Define(SMBIOS_64BIT_MEMORY_ERROR_INFORMATION, <<
  Enum("Type", SmbiosMemoryErrorTypeEnum),
  Enum("Granularity", SmbiosMemoryErrorGranularityEnum),
  Enum("Operation", SmbiosMemoryErrorOperationEnum), UInt("VendorSyndrome"),
  UInt("MemoryArrayErrorAddress"), UInt("DeviceErrorAddress"),
  UInt("Resolution") >>)

SmbiosType34FieldInfo == Define(SMBIOS_MANAGEMENT_DEVICE, <<
  Str("Description"), Enum("Type", SmbiosManagementDeviceTypeEnum),
  UInt("Address"),
  Enum("AddressType", SmbiosManagementDeviceAddressTypeEnum) >>)

SmbiosType35FieldInfo == Define(SMBIOS_MANAGEMENT_DEVICE_COMPONENT, <<
  Str("Description"), UInt("ManagementDeviceHandle"), UInt("ComponentHandle"),
  UInt("ThresholdHandle") >>)

SmbiosType36FieldInfo == Define(SMBIOS_MANAGEMENT_DEVICE_THRESHOLD_DATA, <<
  UInt("LowerThresholdNonCritical"), UInt("UpperThresholdNonCritical"),
  UInt("LowerThresholdCritical"), UInt("UpperThresholdCritical"),
  UInt("LowerThresholdNonRecoverable"),
  UInt("UpperThresholdNonRecoverable") >>)

SmbiosType37FieldInfo == Define(SMBIOS_MEMORY_CHANNEL, <<
  Enum("Type", SmbiosMemoryChannelTypeEnum), UInt("MaximumLoad"),
  UInt("MemoryDeviceCount") >>)

SmbiosType38FieldInfo == Define(SMBIOS_IPMI_DEVICE_INFORMATION, <<
  Enum("Type", SmbiosIpmiDeviceInterfaceTypeEnum),
  UInt("SpecificationRevision"), Bits(0, 4), Bits(4, 4),
  UInt("I2CTargetAddress"), UInt("NVStorageDeviceAddress"),
  UInt("BaseAddress"), Bit(0), Bits(1, 63), UInt("BaseAddressInfo"),
  Flags(0, 5),
  BitEnum(6, 2, SmbiosIpmiDeviceBaseaddressRegisterSpacingEnum) >>)

SmbiosType39FieldInfo == Define(SMBIOS_SYSTEM_POWER_SUPPLY, <<
  UInt("PowerUnitGroup"), Str("Location"), Str("DeviceName"),
  Str("Manufacturer"), Str("SerialNumber"), Str("AssetTagNumber"),
  Str("ModelPartNumber"), Str("RevisionLevel"), UInt("MaxPowerCapacity"),
  UInt("Characteristics"), Flags(0, 2),
  BitEnum(3, 4, SmbiosSystemPowerSupplyInputVoltageRangeSwitchingEnum),
  BitEnum(7, 3, SmbiosSystemPowerSupplyStatusEnum),
  BitEnum(10, 4, SmbiosSystemPowerSupplyTypeEnum), Bits(14, 2),
  UInt("InputVoltageProbeHandle"), UInt("CoolingDeviceHandle"),
  UInt("InputCurrentProbeHandle") >>)

SmbiosType40FieldInfo == Define(SMBIOS_ADDITIONAL_INFORMATION, <<
  UInt("Count") >>)

SmbiosType41FieldInfo == Define(SMBIOS_ONBOARD_DEVICES_EXTENDED_INFORMATION, <<
  Str("ReferenceDesignation"), UInt("Type"),
  BitEnum(0, 7, SmbiosOnboardDevicesExtendedTypeEnum), Bit(7),
  UInt("TypeInstance"), UInt("SegmentGroupNumber"), UInt("BusNumber"),
  UInt("DeviceFunctionNumber"), Bits(0, 3), Bits(3, 5) >>)

SmbiosType42FieldInfo == Define(SMBIOS_MANAGEMENT_CONTROLLER_HOST_INTERFACE, <<
  UInt("Type"), UInt("TypeSpecificDataLength") >>)

SmbiosType43FieldInfo == Define(SMBIOS_TPM_DEVICE, <<
  Raw("VendorID"), UInt("MajorSpecVersion"), UInt("MinorSpecVersion"),
  UInt("FirmwareVersion1"), UInt("FirmwareVersion2"), Str("Description"),
  UInt("Characteristics"), Flags(0, 5), Bits(6, 58), UInt("OEMDefined") >>)

SmbiosType44FieldInfo == Define(SMBIOS_PROCESSOR_ADDITIONAL_INFORMATION, <<
  UInt("ReferencedHandle") >>)

SmbiosType45FieldInfo == Define(SMBIOS_FIRMWARE_INVENTORY_INFORMATION, <<
  Str("ComponentName"), Str("Version"),
  Enum("VersionFormat", SmbiosFirmwareInventoryVersionFormatEnum), Str("ID"),
  Enum("IDFormat", SmbiosFirmwareInventoryIdFormatEnum), Str("ReleaseDate"),
  Str("Manufacturer"), Str("LowestSupportedFirmwareVersion"),
  UInt("ImageSize"), UInt("Characteristics"), Flags(0, 1), Bits(2, 14),
  Enum("State", SmbiosFirmwareInventoryStateEnum),
  UInt("NumberOfAssociatedComponents") >>)

SmbiosType46FieldInfo == Define(SMBIOS_STRING_PROPERTY, <<
  Enum("ID", SmbiosStringPropertyIdEnum), Str("String"),
  UInt("ParentHandle") >>)

-----------------------------------------------------------------------------
Described(type, fields) == [Type |-> type, Fields |-> fields]

SmbiosTypeInfo ==
  <<Described(0, SmbiosType0FieldInfo), Described(1, SmbiosType1FieldInfo),
    Described(2, SmbiosType2FieldInfo), Described(3, SmbiosType3FieldInfo),
    Described(4, SmbiosType4FieldInfo), Described(5, SmbiosType5FieldInfo),
    Described(6, SmbiosType6FieldInfo), Described(7, SmbiosType7FieldInfo),
    Described(8, SmbiosType8FieldInfo), Described(9, SmbiosType9FieldInfo),
    Described(10, << >>), Described(11, SmbiosType11FieldInfo),
    Described(12, SmbiosType12FieldInfo),
    Described(13, SmbiosType13FieldInfo),
    Described(14, SmbiosType14FieldInfo),
    Described(15, SmbiosType15FieldInfo),
    Described(16, SmbiosType16FieldInfo),
    Described(17, SmbiosType17FieldInfo),
    Described(18, SmbiosType18FieldInfo),
    Described(19, SmbiosType19FieldInfo),
    Described(20, SmbiosType20FieldInfo),
    Described(21, SmbiosType21FieldInfo),
    Described(22, SmbiosType22FieldInfo),
    Described(23, SmbiosType23FieldInfo),
    Described(24, SmbiosType24FieldInfo),
    Described(25, SmbiosType25FieldInfo),
    Described(26, SmbiosType26FieldInfo),
    Described(27, SmbiosType27FieldInfo),
    Described(28, SmbiosType28FieldInfo),
    Described(29, SmbiosType29FieldInfo),
    Described(30, SmbiosType30FieldInfo), Described(31, << >>),
    Described(32, SmbiosType32FieldInfo),
    Described(33, SmbiosType33FieldInfo),
    Described(34, SmbiosType34FieldInfo),
    Described(35, SmbiosType35FieldInfo),
    Described(36, SmbiosType36FieldInfo),
    Described(37, SmbiosType37FieldInfo),
    Described(38, SmbiosType38FieldInfo),
    Described(39, SmbiosType39FieldInfo),
    Described(40, SmbiosType40FieldInfo),
    Described(41, SmbiosType41FieldInfo),
    Described(42, SmbiosType42FieldInfo),
    Described(43, SmbiosType43FieldInfo),
    Described(44, SmbiosType44FieldInfo),
    Described(45, SmbiosType45FieldInfo),
    Described(46, SmbiosType46FieldInfo), Described(126, << >>),
    Described(127, << >>)>>

=============================================================================
