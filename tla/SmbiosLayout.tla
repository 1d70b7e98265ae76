----------------------------- MODULE SmbiosLayout ----------------------------
(***************************************************************************)
(* The structures of SMBIOS.h, at its default SMBIOS_VERSION: for every    *)
(* structure type the members of its formatted area, and for every member  *)
(* what its declaration and the comment beside it say: size, whether it    *)
(* numbers a string (UCHAR), the enumeration the comment names, and the    *)
(* bit-fields it is broken into.  Flexible array members, which have no    *)
(* size of their own, are left out.                                        *)
(*                                                                         *)
(* Names of bits and texts do not matter here.  Members are declared with  *)
(* the type names of the header.                                           *)
(***************************************************************************)
EXTENDS Integers, Sequences, SequencesExt

HeaderSize == 4    \* sizeof(SMBIOS_HEADER)

Member(name, size, kind) ==
  [Name |-> name, Size |-> size, Kind |-> kind, Names |-> {}, Views |-> << >>]

UCHAR(name) == Member(name, 1, "String")
BYTE(name)  == Member(name, 1, "UInt")
WORD(name)  == Member(name, 2, "UInt")
DWORD(name) == Member(name, 4, "UInt")
QWORD(name) == Member(name, 8, "UInt")
Array(name, n) == Member(name, n, "Raw")
SMBIOS_UUID(name) == Member(name, 16, "Uuid")

(* A member whose comment names the enumeration of these values.           *)
Of(values, member) == [member EXCEPT !.Names = values]

(* A union of the member with a struct of bit-fields, lowest bit first:    *)
(* n of one bit, one of n bits, one of n bits that has an enumeration.     *)
Ones(n) == [i \in 1 .. n |-> [Width |-> 1, Names |-> {}]]
Named(n, values) == <<[Width |-> n, Names |-> values]>>
Wide(n) == Named(n, {})
Union(member, parts) ==
  [member EXCEPT !.Views = Append(@, FlattenSeq(parts))]

(* offsetof under #pragma pack(1): the members follow one another.         *)
Struct(members) ==
  LET End[i \in 0 .. Len(members)] ==
        IF i = 0 THEN HeaderSize ELSE End[i - 1] + members[i].Size
  IN  [i \in DOMAIN members |->
         [Offset |-> End[i - 1], Name |-> members[i].Name,
          Size |-> members[i].Size, Kind |-> members[i].Kind,
          Names |-> members[i].Names, Views |-> members[i].Views]]

-----------------------------------------------------------------------------
(* The enumerations, as the sets of their values.                          *)
PLATFORM_FIRMWARE_EXTENDED_ROMSIZE_UNIT == 0 .. 1
SYSTEM_WAKEUPTYPE == 0 .. 8
BASEBOARD_TYPE == 1 .. 13
SYSTEM_ENCLOSURE_OR_CHASSIS_TYPE == 1 .. 36
SYSTEM_ENCLOSURE_OR_CHASSIS_STATE == 1 .. 6
SYSTEM_ENCLOSURE_OR_CHASSIS_SECURITY_STATE == 1 .. 5
PROCESSOR_TYPE == 1 .. 6
PROCESSOR_FAMILY == (1 .. 22) \cup (24 .. 88) \cup (96 .. 107) \cup
    (120 .. 122) \cup (130 .. 150) \cup (160 .. 189) \cup (191 .. 208) \cup
    (210 .. 219) \cup (221 .. 224) \cup (228 .. 239) \cup (250 .. 251) \cup
    {112, 128, 254}
PROCESSOR_CPU_STATUS == (0 .. 4) \cup {7}
PROCESSOR_UPGRADE == (1 .. 87) \cup {255}
PROCESSOR_FAMILY2 == (256 .. 258) \cup (260 .. 261) \cup (280 .. 281) \cup
    (300 .. 302) \cup (512 .. 514) \cup (600 .. 610) \cup (620 .. 625) \cup
    (768 .. 775) \cup {320, 350, 500}
MEMORY_CONTROLLER_ERROR_DETECTING_METHOD == 1 .. 8
MEMORY_CONTROLLER_INTERLEAVE == 1 .. 7
CACHE_LOCATION == 0 .. 3
CACHE_OPERATIONAL_MODE == 0 .. 3
CACHE_ERROR_CORRECTION_TYPE == 1 .. 6
CACHE_SYSTEM_CACHE_TYPE == 1 .. 5
CACHE_ASSOCIATIVITY == 1 .. 14
PORT_CONNECTOR_TYPE == (0 .. 35) \cup (160 .. 164) \cup {255}
PORT_CONNECTOR_PORT_TYPE == (0 .. 35) \cup (160 .. 161) \cup {255}
SYSTEM_SLOTS_TYPE == (1 .. 40) \cup (160 .. 182) \cup (184 .. 198) \cup {48}
SYSTEM_SLOTS_DATA_BUS_WIDTH == 1 .. 14
SYSTEM_SLOTS_CURRENT_USAGE == 1 .. 5
SYSTEM_SLOTS_LENGTH == 1 .. 6
SYSTEM_EVENT_LOG_ACCESSMETHOD == 0 .. 4
SYSTEM_EVENT_LOG_HEADERFORMAT == 0 .. 1
PHYSICAL_MEMORY_ARRAY_LOCATION == (1 .. 10) \cup (160 .. 164)
PHYSICAL_MEMORY_ARRAY_USE == 1 .. 7
PHYSICAL_MEMORY_ARRAY_ERROR_CORRECTION_TYPE == 1 .. 7
MEMORY_DEVICE_FORM_FACTOR == 1 .. 19
MEMORY_DEVICE_TYPE == (1 .. 20) \cup (24 .. 37)
MEMORY_DEVICE_TECHNOLOGY == 1 .. 8
MEMORY_ERROR_TYPE == 1 .. 14
MEMORY_ERROR_GRANULARITY == 1 .. 4
MEMORY_ERROR_OPERATION == 1 .. 5
BUILTIN_POINTING_DEVICE_TYPE == 1 .. 9
BUILTIN_POINTING_DEVICE_INTERFACE == (1 .. 8) \cup (160 .. 164)
PORTABLE_BATTERY_DEVICE_CHEMISTRY == 1 .. 8
SYSTEM_RESET_BOOT_OPTION == 0 .. 3
HARDWARE_SECURITY_SETTINGS_STATUS == 0 .. 3
VOLTAGE_PROBE_LOCATION == 1 .. 11
PROBE_STATUS == 1 .. 6
COOLING_DEVICE_TYPE == (1 .. 9) \cup (16 .. 17)
TEMPERATURE_PROBE_LOCATION == 1 .. 15
ELECTRICAL_CURRENT_PROBE_LOCATION == 1 .. 11
SYSTEM_BOOT_STATUS == 0 .. 8
MANAGEMENT_DEVICE_TYPE == 1 .. 13
MANAGEMENT_DEVICE_ADDRESS_TYPE == 1 .. 5
MEMORY_CHANNEL_TYPE == 1 .. 4
IPMI_DEVICE_INTERFACE_TYPE == 0 .. 4
IPMI_DEVICE_BASEADDRESS_REGISTER_SPACING == 0 .. 3
SYSTEM_POWER_SUPPLY_INPUT_VOLTAGE_RANGE_SWITCHING == 1 .. 6
SYSTEM_POWER_SUPPLY_STATUS == 1 .. 5
SYSTEM_POWER_SUPPLY_TYPE == 1 .. 8
ONBOARD_DEVICES_EXTENDED_TYPE == 1 .. 16
FIRMWARE_INVENTORY_VERSION_FORMAT == 0 .. 3
FIRMWARE_INVENTORY_ID_FORMAT == 0 .. 1
FIRMWARE_INVENTORY_STATE == 1 .. 8
STRING_PROPERTY_ID == 0 .. 1

-----------------------------------------------------------------------------
(* Bit-fields that several structures share.                               *)
SMBIOS_MEMORY_TYPE == <<Ones(11), Wide(5)>>
SMBIOS_MEMORY_MODULE_SIZE == <<Wide(7), Ones(1)>>
SMBIOS_CACHE_SIZE == <<Wide(15), Ones(1)>>
SMBIOS_CACHE_SIZE2 == <<Wide(31), Ones(1)>>
SMBIOS_CACHE_SRAM_TYPE == <<Ones(7), Wide(9)>>

-----------------------------------------------------------------------------
SMBIOS_PLATFORM_FIRMWARE_INFORMATION == Struct(<<
  UCHAR("Vendor"), UCHAR("Version"), WORD("BIOSStartingAddressSegment"),
  UCHAR("ReleaseDate"), BYTE("ROMSize"),
  Union(QWORD("Characteristics"), <<Ones(32), Wide(16), Wide(16)>>),
  Union(BYTE("CharacteristicsExtensionByte1"), <<Ones(8)>>),
  Union(BYTE("CharacteristicsExtensionByte2"), <<Ones(8)>>),
  BYTE("MajorRelease"), BYTE("MinorRelease"), BYTE("ECFirmwareMajorRelease"),
  BYTE("ECFirmwareMinorRelease"),
  Union(WORD("ExtendedROMSize"), <<Wide(14), Named(2,
      PLATFORM_FIRMWARE_EXTENDED_ROMSIZE_UNIT)>>) >>)

SMBIOS_SYSTEM_INFORMATION == Struct(<<
  UCHAR("Manufacturer"), UCHAR("ProductName"), UCHAR("Version"),
  UCHAR("SerialNumber"), SMBIOS_UUID("UUID"),
  Of(SYSTEM_WAKEUPTYPE, BYTE("WakeUpType")), UCHAR("SKUNumber"),
  UCHAR("Family") >>)

SMBIOS_BASEBOARD_INFORMATION == Struct(<<
  UCHAR("Manufacturer"), UCHAR("Product"), UCHAR("Version"),
  UCHAR("SerialNumber"), UCHAR("AssetTag"),
  Union(BYTE("FeatureFlags"), <<Ones(5), Wide(3)>>),
  UCHAR("LocationInChassis"), WORD("ChassisHandle"),
  Of(BASEBOARD_TYPE, BYTE("BoardType")),
  BYTE("NumberOfContainedObjectHandles") >>)

SMBIOS_SYSTEM_ENCLOSURE_OR_CHASSIS == Struct(<<
  UCHAR("Manufacturer"),
  Union(BYTE("Type"), <<Named(7, SYSTEM_ENCLOSURE_OR_CHASSIS_TYPE),
      Ones(1)>>), UCHAR("Version"), UCHAR("SerialNumber"),
  UCHAR("AssetTagNumber"),
  Of(SYSTEM_ENCLOSURE_OR_CHASSIS_STATE, BYTE("BootUpState")),
  Of(SYSTEM_ENCLOSURE_OR_CHASSIS_STATE, BYTE("PowerSupplyState")),
  Of(SYSTEM_ENCLOSURE_OR_CHASSIS_STATE, BYTE("ThermalState")),
  Of(SYSTEM_ENCLOSURE_OR_CHASSIS_SECURITY_STATE, BYTE("SecurityStatus")),
  DWORD("OEMDefined"), BYTE("Height"), BYTE("NumberOfPowerCords"),
  BYTE("ContainedElementCount"), BYTE("ContainedElementRecordLength") >>)

SMBIOS_PROCESSOR_INFORMATION == Struct(<<
  UCHAR("SocketDesignation"), Of(PROCESSOR_TYPE, BYTE("Type")),
  Of(PROCESSOR_FAMILY, BYTE("Family")), UCHAR("Manufacturer"), QWORD("ID"),
  UCHAR("Version"),
  Union(Union(BYTE("Voltage"), <<Ones(4), Wide(3), Ones(1)>>), <<Wide(7),
      Ones(1)>>), WORD("ExternalClock"), WORD("MaxSpeed"),
  WORD("CurrentSpeed"),
  Union(BYTE("Status"), <<Named(3, PROCESSOR_CPU_STATUS), Wide(3), Ones(2)>>),
  Of(PROCESSOR_UPGRADE, BYTE("Upgrade")), WORD("L1CacheHandle"),
  WORD("L2CacheHandle"), WORD("L3CacheHandle"), UCHAR("SerialNumber"),
  UCHAR("AssetTag"), UCHAR("PartNumber"), BYTE("CoreCount"),
  BYTE("CoreEnabled"), BYTE("ThreadCount"),
  Union(WORD("Characteristics"), <<Ones(10), Wide(6)>>),
  Of(PROCESSOR_FAMILY2, WORD("Family2")), WORD("CoreCount2"),
  WORD("CoreEnabled2"), WORD("ThreadCount2"), WORD("ThreadEnabled"),
  BYTE("SocketType") >>)

SMBIOS_MEMORY_CONTROLLER_INFORMATION == Struct(<<
  Of(MEMORY_CONTROLLER_ERROR_DETECTING_METHOD, BYTE("ErrorDetectingMethod")),
  Union(BYTE("ErrorCorrectingCapability"), <<Ones(6), Wide(2)>>),
  Of(MEMORY_CONTROLLER_INTERLEAVE, BYTE("SupportedInterleave")),
  Of(MEMORY_CONTROLLER_INTERLEAVE, BYTE("CurrentInterleave")),
  BYTE("MaximumMemoryModuleSize"),
  Union(WORD("SupportedSpeeds"), <<Ones(5), Wide(11)>>),
  Union(WORD("SupportedMemoryTypes"), SMBIOS_MEMORY_TYPE),
  Union(BYTE("MemoryModuleVoltage"), <<Ones(3), Wide(5)>>),
  BYTE("NumberOfAssociatedMemorySlots") >>)

SMBIOS_MEMORY_MODULE_INFORMATION == Struct(<<
  UCHAR("SocketDesignation"), BYTE("BankConnections"), BYTE("CurrentSpeed"),
  Union(WORD("CurrentMemoryType"), SMBIOS_MEMORY_TYPE),
  Union(BYTE("InstalledSize"), SMBIOS_MEMORY_MODULE_SIZE),
  Union(BYTE("EnabledSize"), SMBIOS_MEMORY_MODULE_SIZE),
  Union(BYTE("ErrorStatus"), <<Ones(3), Wide(5)>>) >>)

SMBIOS_CACHE_INFORMATION == Struct(<<
  UCHAR("SocketDesignation"),
  Union(WORD("Configuration"), <<Wide(3), Ones(2), Named(2, CACHE_LOCATION),
      Ones(1), Named(2, CACHE_OPERATIONAL_MODE), Wide(6)>>),
  Union(WORD("MaximumCacheSize"), SMBIOS_CACHE_SIZE),
  Union(WORD("InstalledSize"), SMBIOS_CACHE_SIZE),
  Union(WORD("SupportedSRAMType"), SMBIOS_CACHE_SRAM_TYPE),
  Union(WORD("CurrentSRAMType"), SMBIOS_CACHE_SRAM_TYPE), BYTE("CacheSpeed"),
  Of(CACHE_ERROR_CORRECTION_TYPE, BYTE("ErrorCorrectionType")),
  Of(CACHE_SYSTEM_CACHE_TYPE, BYTE("SystemCacheType")),
  Of(CACHE_ASSOCIATIVITY, BYTE("Associativity")),
  Union(DWORD("MaximumCacheSize2"), SMBIOS_CACHE_SIZE2),
  Union(DWORD("InstalledCacheSize2"), SMBIOS_CACHE_SIZE2) >>)

SMBIOS_PORT_CONNECTOR_INFORMATION == Struct(<<
  UCHAR("InternalReferenceDesignator"),
  Of(PORT_CONNECTOR_TYPE, BYTE("InternalConnectorType")),
  UCHAR("ExternalReferenceDesignator"),
  Of(PORT_CONNECTOR_TYPE, BYTE("ExternalConnectorType")),
  Of(PORT_CONNECTOR_PORT_TYPE, BYTE("PortType")) >>)

SMBIOS_SYSTEM_SLOTS == Struct(<<
  UCHAR("Designation"), Of(SYSTEM_SLOTS_TYPE, BYTE("Type")),
  Of(SYSTEM_SLOTS_DATA_BUS_WIDTH, BYTE("DataBusWidth")),
  Of(SYSTEM_SLOTS_CURRENT_USAGE, BYTE("CurrentUsage")),
  Of(SYSTEM_SLOTS_LENGTH, BYTE("Length")), WORD("ID"),
  Union(BYTE("Characteristics1"), <<Ones(8)>>),
  Union(BYTE("Characteristics2"), <<Ones(8)>>), WORD("SegmentGroupNumber"),
  BYTE("BusNumber"),
  Union(BYTE("DeviceFunctionNumber"), <<Wide(3), Wide(5)>>),
  BYTE("BaseDataBusWidth"), BYTE("PeerGroupingCount") >>)

SMBIOS_ONBOARD_DEVICES_INFORMATION == Struct(<<>>)
SMBIOS_OEM_STRINGS == Struct(<<BYTE("Count")>>)
SMBIOS_SYSTEM_CONFIGURATION_OPTIONS == Struct(<<BYTE("Count")>>)

SMBIOS_FIRMWARE_LANGUAGE_INFORMATION == Struct(<<
  BYTE("InstallableLanguages"), Union(BYTE("Flags"), <<Ones(1), Wide(7)>>),
  Array("Reserved", 15), UCHAR("CurrentLanguage") >>)

SMBIOS_GROUP_ASSOCIATIONS == Struct(<<UCHAR("GroupName")>>)

SMBIOS_SYSTEM_EVENT_LOG == Struct(<<
  WORD("AreaLength"), WORD("HeaderStartOffset"), WORD("DataStartOffset"),
  Of(SYSTEM_EVENT_LOG_ACCESSMETHOD, BYTE("AccessMethod")),
  Union(BYTE("Status"), <<Ones(2), Wide(6)>>), DWORD("ChangeToken"),
  DWORD("AccessMethodAddress"),
  Of(SYSTEM_EVENT_LOG_HEADERFORMAT, BYTE("HeaderFormat")),
  BYTE("NumberOfSupportedTypeDescriptors"), BYTE("LengthOfTypeDescriptor") >>)

SMBIOS_PHYSICAL_MEMORY_ARRAY == Struct(<<
  Of(PHYSICAL_MEMORY_ARRAY_LOCATION, BYTE("Location")),
  Of(PHYSICAL_MEMORY_ARRAY_USE, BYTE("Use")),
  Of(PHYSICAL_MEMORY_ARRAY_ERROR_CORRECTION_TYPE, BYTE("ErrorCorrection")),
  DWORD("MaximumCapacity"), WORD("ErrorInformationHandle"),
  WORD("NumberOfMemoryDevices"), QWORD("ExtendedMaximumCapacity") >>)

SMBIOS_MEMORY_DEVICE == Struct(<<
  WORD("PhysicalMemoryArrayHandle"), WORD("ErrorInformationHandle"),
  WORD("TotalWidth"), WORD("DataWidth"),
  Union(WORD("Size"), <<Wide(15), Ones(1)>>),
  Of(MEMORY_DEVICE_FORM_FACTOR, BYTE("FormFactor")), BYTE("DeviceSet"),
  UCHAR("DeviceLocator"), UCHAR("BankLocator"),
  Of(MEMORY_DEVICE_TYPE, BYTE("Type")),
  Union(WORD("TypeDetail"), <<Ones(16)>>), WORD("Speed"),
  UCHAR("Manufacturer"), UCHAR("SerialNumber"), UCHAR("AssetTag"),
  UCHAR("PartNumber"), Union(BYTE("Attributes"), <<Wide(4), Wide(4)>>),
  Union(DWORD("ExtendedSize"), <<Wide(31), Ones(1)>>),
  WORD("ConfiguredMemorySpeed"), WORD("MinimumVoltage"),
  WORD("MaximumVoltage"), WORD("ConfiguredVoltage"),
  Of(MEMORY_DEVICE_TECHNOLOGY, BYTE("Technology")),
  Union(WORD("OperatingModeCapability"), <<Ones(6), Wide(10)>>),
  UCHAR("FirmwareVersion"), WORD("ModuleManufacturerID"),
  WORD("ModuleProductID"), WORD("SubsystemControllerManufacturerID"),
  WORD("SubsystemControllerProductID"), QWORD("NonVolatileSize"),
  QWORD("VolatileSize"), QWORD("CacheSize"), QWORD("LogicalSize"),
  DWORD("ExtendedSpeed"), DWORD("ExtendedConfiguredSpeed"),
  WORD("PMIC0ManufacturerID"), WORD("PMIC0RevisionNumber"),
  WORD("RCDManufacturerID"), WORD("RCDRevisionNumber") >>)

SMBIOS_32BIT_MEMORY_ERROR_INFORMATION == Struct(<<
  Of(MEMORY_ERROR_TYPE, BYTE("Type")),
  Of(MEMORY_ERROR_GRANULARITY, BYTE("Granularity")),
  Of(MEMORY_ERROR_OPERATION, BYTE("Operation")), DWORD("VendorSyndrome"),
  DWORD("MemoryArrayErrorAddress"), DWORD("DeviceErrorAddress"),
  DWORD("Resolution") >>)

SMBIOS_MEMORY_ARRAY_MAPPED_ADDRESS == Struct(<<
  DWORD("StartingAddress"), DWORD("EndingAddress"), WORD("MemoryArrayHandle"),
  BYTE("PartitionWidth"), QWORD("ExtendedStartingAddress"),
  QWORD("ExtendedEndingAddress") >>)

SMBIOS_MEMORY_DEVICE_MAPPED_ADDRESS == Struct(<<
  DWORD("StartingAddress"), DWORD("EndingAddress"),
  WORD("MemoryDeviceHandle"), WORD("MemoryArrayMappedAddressHandle"),
  BYTE("PartitionRowPosition"), BYTE("InterleavePosition"),
  BYTE("InterleavedDataDepth"), QWORD("ExtendedStartingAddress"),
  QWORD("ExtendedEndingAddress") >>)

SMBIOS_BUILTIN_POINTING_DEVICE == Struct(<<
  Of(BUILTIN_POINTING_DEVICE_TYPE, BYTE("Type")),
  Of(BUILTIN_POINTING_DEVICE_INTERFACE, BYTE("Interface")),
  BYTE("NumberOfButtons") >>)

SMBIOS_PORTABLE_BATTERY == Struct(<<
  UCHAR("Location"), UCHAR("Manufacturer"), UCHAR("ManufactureDate"),
  UCHAR("SerialNumber"), UCHAR("DeviceName"),
  Of(PORTABLE_BATTERY_DEVICE_CHEMISTRY, BYTE("DeviceChemistry")),
  WORD("DesignCapacity"), WORD("DesignVoltage"), UCHAR("SBDSVersionNumber"),
  BYTE("MaximumError"), WORD("SBDSSerialNumber"),
  Union(WORD("SBDSManufactureDate"), <<Wide(5), Wide(4), Wide(7)>>),
  UCHAR("SBDSDeviceChemistry"), BYTE("DesignCapacityMultiplier"),
  DWORD("OEMSpecific") >>)

SMBIOS_SYSTEM_RESET == Struct(<<
  Union(BYTE("Capabilities"), <<Ones(1), Named(2, SYSTEM_RESET_BOOT_OPTION),
      Named(2, SYSTEM_RESET_BOOT_OPTION), Ones(1), Wide(2)>>),
  WORD("ResetCount"), WORD("ResetLimit"), WORD("TimerInterval"),
  WORD("Timeout") >>)

SMBIOS_HARDWARE_SECURITY == Struct(<<
  Union(BYTE("Settings"), <<Named(2, HARDWARE_SECURITY_SETTINGS_STATUS),
      Named(2, HARDWARE_SECURITY_SETTINGS_STATUS), Named(2,
      HARDWARE_SECURITY_SETTINGS_STATUS), Named(2,
      HARDWARE_SECURITY_SETTINGS_STATUS)>>) >>)

SMBIOS_SYSTEM_POWER_CONTROLS == Struct(<<
  BYTE("NextScheduledPowerOnMonth"), BYTE("NextScheduledPowerOnDayOfMonth"),
  BYTE("NextScheduledPowerOnHour"), BYTE("NextScheduledPowerOnMinute"),
  BYTE("NextScheduledPowerOnSecond") >>)

SMBIOS_VOLTAGE_PROBE == Struct(<<
  UCHAR("Description"),
  Union(BYTE("LocationAndStatus"), <<Named(5, VOLTAGE_PROBE_LOCATION),
      Named(3, PROBE_STATUS)>>), WORD("MaximumValue"), WORD("MinimumValue"),
  WORD("Resolution"), WORD("Tolerance"), WORD("Accuracy"),
  DWORD("OEMDefined"), WORD("NominalValue") >>)

SMBIOS_COOLING_DEVICE == Struct(<<
  WORD("TemperatureProbeHandle"),
  Union(BYTE("DeviceTypeAndStatus"), <<Named(5, COOLING_DEVICE_TYPE),
      Named(3, PROBE_STATUS)>>), BYTE("CoolingUnitGroup"),
  DWORD("OEMDefined"), WORD("NominalSpeed"), UCHAR("Description") >>)

SMBIOS_TEMPERATURE_PROBE == Struct(<<
  UCHAR("Description"),
  Union(BYTE("LocationAndStatus"), <<Named(5, TEMPERATURE_PROBE_LOCATION),
      Named(3, PROBE_STATUS)>>), WORD("MaximumValue"), WORD("MinimumValue"),
  WORD("Resolution"), WORD("Tolerance"), WORD("Accuracy"),
  DWORD("OEMDefined"), WORD("NominalValue") >>)

SMBIOS_ELECTRICAL_CURRENT_PROBE == Struct(<<
  UCHAR("Description"),
  Union(BYTE("LocationAndStatus"), <<Named(5,
      ELECTRICAL_CURRENT_PROBE_LOCATION), Named(3, PROBE_STATUS)>>),
  WORD("MaximumValue"), WORD("MinimumValue"), WORD("Resolution"),
  WORD("Tolerance"), WORD("Accuracy"), DWORD("OEMDefined"),
  WORD("NominalValue") >>)

SMBIOS_OUT_OF_BAND_REMOTE_ACCESS == Struct(<<
  UCHAR("ManufacturerName"),
  Union(BYTE("Connections"), <<Ones(2), Wide(6)>>) >>)

SMBIOS_SYSTEM_BOOT_INFORMATION == Struct(<<
  Array("Reserved", 6), Of(SYSTEM_BOOT_STATUS, BYTE("Status")),
  Array("AdditionalData", 9) >>)

SMBIOS_64BIT_MEMORY_ERROR_INFORMATION == Struct(<<
  Of(MEMORY_ERROR_TYPE, BYTE("Type")),
  Of(MEMORY_ERROR_GRANULARITY, BYTE("Granularity")),
  Of(MEMORY_ERROR_OPERATION, BYTE("Operation")), DWORD("VendorSyndrome"),
  QWORD("MemoryArrayErrorAddress"), QWORD("DeviceErrorAddress"),
  DWORD("Resolution") >>)

SMBIOS_MANAGEMENT_DEVICE == Struct(<<
  UCHAR("Description"), Of(MANAGEMENT_DEVICE_TYPE, BYTE("Type")),
  DWORD("Address"),
  Of(MANAGEMENT_DEVICE_ADDRESS_TYPE, BYTE("AddressType")) >>)

SMBIOS_MANAGEMENT_DEVICE_COMPONENT == Struct(<<
  UCHAR("Description"), WORD("ManagementDeviceHandle"),
  WORD("ComponentHandle"), WORD("ThresholdHandle") >>)

SMBIOS_MANAGEMENT_DEVICE_THRESHOLD_DATA == Struct(<<
  WORD("LowerThresholdNonCritical"), WORD("UpperThresholdNonCritical"),
  WORD("LowerThresholdCritical"), WORD("UpperThresholdCritical"),
  WORD("LowerThresholdNonRecoverable"),
  WORD("UpperThresholdNonRecoverable") >>)

SMBIOS_MEMORY_CHANNEL == Struct(<<
  Of(MEMORY_CHANNEL_TYPE, BYTE("Type")), BYTE("MaximumLoad"),
  BYTE("MemoryDeviceCount") >>)

SMBIOS_IPMI_DEVICE_INFORMATION == Struct(<<
  Of(IPMI_DEVICE_INTERFACE_TYPE, BYTE("Type")),
  Union(BYTE("SpecificationRevision"), <<Wide(4), Wide(4)>>),
  BYTE("I2CTargetAddress"), BYTE("NVStorageDeviceAddress"),
  Union(QWORD("BaseAddress"), <<Ones(1), Wide(63)>>),
  Union(BYTE("BaseAddressInfo"), <<Ones(6), Named(2,
      IPMI_DEVICE_BASEADDRESS_REGISTER_SPACING)>>) >>)

SMBIOS_SYSTEM_POWER_SUPPLY == Struct(<<
  BYTE("PowerUnitGroup"), UCHAR("Location"), UCHAR("DeviceName"),
  UCHAR("Manufacturer"), UCHAR("SerialNumber"), UCHAR("AssetTagNumber"),
  UCHAR("ModelPartNumber"), UCHAR("RevisionLevel"), WORD("MaxPowerCapacity"),
  Union(WORD("Characteristics"), <<Ones(3), Named(4,
      SYSTEM_POWER_SUPPLY_INPUT_VOLTAGE_RANGE_SWITCHING), Named(3,
      SYSTEM_POWER_SUPPLY_STATUS), Named(4, SYSTEM_POWER_SUPPLY_TYPE),
      Wide(2)>>), WORD("InputVoltageProbeHandle"),
  WORD("CoolingDeviceHandle"), WORD("InputCurrentProbeHandle") >>)

SMBIOS_ADDITIONAL_INFORMATION == Struct(<<BYTE("Count")>>)

SMBIOS_ONBOARD_DEVICES_EXTENDED_INFORMATION == Struct(<<
  UCHAR("ReferenceDesignation"),
  Union(BYTE("Type"), <<Named(7, ONBOARD_DEVICES_EXTENDED_TYPE), Ones(1)>>),
  BYTE("TypeInstance"), WORD("SegmentGroupNumber"), BYTE("BusNumber"),
  Union(BYTE("DeviceFunctionNumber"), <<Wide(3), Wide(5)>>) >>)

SMBIOS_MANAGEMENT_CONTROLLER_HOST_INTERFACE == Struct(<<
  BYTE("Type"), BYTE("TypeSpecificDataLength") >>)

SMBIOS_TPM_DEVICE == Struct(<<
  Array("VendorID", 4), BYTE("MajorSpecVersion"), BYTE("MinorSpecVersion"),
  DWORD("FirmwareVersion1"), DWORD("FirmwareVersion2"), UCHAR("Description"),
  Union(QWORD("Characteristics"), <<Ones(6), Wide(58)>>),
  DWORD("OEMDefined") >>)

SMBIOS_PROCESSOR_ADDITIONAL_INFORMATION == Struct(<<
  WORD("ReferencedHandle") >>)

SMBIOS_FIRMWARE_INVENTORY_INFORMATION == Struct(<<
  UCHAR("ComponentName"), UCHAR("Version"),
  Of(FIRMWARE_INVENTORY_VERSION_FORMAT, BYTE("VersionFormat")), UCHAR("ID"),
  Of(FIRMWARE_INVENTORY_ID_FORMAT, BYTE("IDFormat")), UCHAR("ReleaseDate"),
  UCHAR("Manufacturer"), UCHAR("LowestSupportedFirmwareVersion"),
  QWORD("ImageSize"), Union(WORD("Characteristics"), <<Ones(2), Wide(14)>>),
  Of(FIRMWARE_INVENTORY_STATE, BYTE("State")),
  BYTE("NumberOfAssociatedComponents") >>)

SMBIOS_STRING_PROPERTY == Struct(<<
  Of(STRING_PROPERTY_ID, WORD("ID")), UCHAR("String"),
  WORD("ParentHandle") >>)

-----------------------------------------------------------------------------
(* The structure of each type; types 31, 126 and 127 declare no member.    *)
Structures ==
  <<SMBIOS_PLATFORM_FIRMWARE_INFORMATION, SMBIOS_SYSTEM_INFORMATION,
    SMBIOS_BASEBOARD_INFORMATION, SMBIOS_SYSTEM_ENCLOSURE_OR_CHASSIS,
    SMBIOS_PROCESSOR_INFORMATION, SMBIOS_MEMORY_CONTROLLER_INFORMATION,
    SMBIOS_MEMORY_MODULE_INFORMATION, SMBIOS_CACHE_INFORMATION,
    SMBIOS_PORT_CONNECTOR_INFORMATION, SMBIOS_SYSTEM_SLOTS,
    SMBIOS_ONBOARD_DEVICES_INFORMATION, SMBIOS_OEM_STRINGS,
    SMBIOS_SYSTEM_CONFIGURATION_OPTIONS, SMBIOS_FIRMWARE_LANGUAGE_INFORMATION,
    SMBIOS_GROUP_ASSOCIATIONS, SMBIOS_SYSTEM_EVENT_LOG,
    SMBIOS_PHYSICAL_MEMORY_ARRAY, SMBIOS_MEMORY_DEVICE,
    SMBIOS_32BIT_MEMORY_ERROR_INFORMATION, SMBIOS_MEMORY_ARRAY_MAPPED_ADDRESS,
    SMBIOS_MEMORY_DEVICE_MAPPED_ADDRESS, SMBIOS_BUILTIN_POINTING_DEVICE,
    SMBIOS_PORTABLE_BATTERY, SMBIOS_SYSTEM_RESET, SMBIOS_HARDWARE_SECURITY,
    SMBIOS_SYSTEM_POWER_CONTROLS, SMBIOS_VOLTAGE_PROBE, SMBIOS_COOLING_DEVICE,
    SMBIOS_TEMPERATURE_PROBE, SMBIOS_ELECTRICAL_CURRENT_PROBE,
    SMBIOS_OUT_OF_BAND_REMOTE_ACCESS>>
  \o <<Struct(<< >>)>> \o
  <<SMBIOS_SYSTEM_BOOT_INFORMATION, SMBIOS_64BIT_MEMORY_ERROR_INFORMATION,
    SMBIOS_MANAGEMENT_DEVICE, SMBIOS_MANAGEMENT_DEVICE_COMPONENT,
    SMBIOS_MANAGEMENT_DEVICE_THRESHOLD_DATA, SMBIOS_MEMORY_CHANNEL,
    SMBIOS_IPMI_DEVICE_INFORMATION, SMBIOS_SYSTEM_POWER_SUPPLY,
    SMBIOS_ADDITIONAL_INFORMATION,
    SMBIOS_ONBOARD_DEVICES_EXTENDED_INFORMATION,
    SMBIOS_MANAGEMENT_CONTROLLER_HOST_INTERFACE, SMBIOS_TPM_DEVICE,
    SMBIOS_PROCESSOR_ADDITIONAL_INFORMATION,
    SMBIOS_FIRMWARE_INVENTORY_INFORMATION, SMBIOS_STRING_PROPERTY>>

Layout(type) == IF type + 1 \in DOMAIN Structures THEN Structures[type + 1]
                ELSE << >>

=============================================================================
