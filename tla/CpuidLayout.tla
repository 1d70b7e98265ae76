---------------------------- MODULE CpuidLayout ----------------------------
(***************************************************************************)
(* The bit fields CPUID_INFO (CPUID.h) declares, in order: a name and a    *)
(* width, and no name where bits are reserved or always 0.  Bit fields     *)
(* begin at bit 0 of their register.                                       *)
(***************************************************************************)
EXTENDS Integers, Sequences, SequencesExt

Wide(name, width) == <<[Name |-> name, Width |-> width]>>
Reserved(width) == Wide("", width)
Flags(names) == [i \in DOMAIN names |-> [Name |-> names[i], Width |-> 1]]

F01_00_VersionInfo ==
  Wide("SteppingId", 4) \o Wide("Model", 4) \o Wide("FamilyId", 4) \o
  Wide("ProcessorType", 2) \o Reserved(2) \o Wide("ExtendedModelId", 4) \o
  Wide("ExtendedFamilyId", 8) \o Reserved(4)

F01_00_AdditionalInfo ==
  Wide("BrandIndex", 8) \o Wide("CLFlushLineSize", 8) \o
  Wide("MaxNumberOfAddressableId", 8) \o Wide("InitialAPICId", 8)

F01_00_Ecx ==
  Flags(<<"SSE3", "PCLMULQDQ", "DTES64", "MONITOR", "DS_CPL", "VMX", "SMX",
    "EIST", "TM2", "SSSE3", "CNXT_ID", "SDBG", "FMA", "CMPXCHG16B",
    "xTPRUpdateControl", "PDCM">>) \o
  Reserved(1) \o
  Flags(<<"PCID", "DCA", "SSE4_1", "SSE4_2", "x2APIC", "MOVBE", "POPCNT",
    "TSC_Deadline", "AESNI", "XSAVE", "OSXSAVE", "AVX", "F16C",
    "RDRAND">>) \o
  Reserved(1)

F01_00_Edx ==
  Flags(<<"FPU", "VME", "DE", "PSE", "TSC", "MSR", "PAE", "MCE", "CX8",
    "APIC">>) \o
  Reserved(1) \o
  Flags(<<"SEP", "MTRR", "PGE", "MCA", "CMOV", "PAT", "PSE_36", "PSN",
    "CLFSH">>) \o
  Reserved(1) \o
  Flags(<<"DS", "ACPI", "MMX", "FXSR", "SSE", "SSE2", "SS", "HTT", "TM">>) \o
  Reserved(1) \o Flags(<<"PBE">>)

F07_00_Ebx ==
  Flags(<<"FSGSBASE", "IA32_TSC_ADJUST", "SGX", "BMI1", "HLE", "AVX2",
    "FDP_EXCPTN_ONLY", "SMEP", "BMI2", "ERMS", "INVPCID", "RTM",
    "RDT_M", "DeprecatesFPUCSDS", "MPX", "RDT_A", "AVX512F",
    "AVX512DQ", "RDSEED", "ADX", "SMAP", "AVX512_IFMA">>) \o
  Reserved(1) \o
  Flags(<<"CLFLUSHOPT", "CLWB", "PT", "AVX512PF", "AVX512ER", "AVX512CD",
    "SHA", "AVX512BW", "AVX512VL">>)

F07_00_Ecx ==
  Flags(<<"PREFETCHWT1", "AVX512_VBMI", "UMIP", "PKU", "OSPKE", "WAITPKG",
    "AVX512_VBMI2", "CET_SS", "GFNI", "VAES", "VPCLMULQDQ",
    "AVX512_VNNI", "AVX512_BITALG", "TME_EN", "AVX512_VPOPCNTDQ">>) \o
  Reserved(1) \o Flags(<<"LA57">>) \o Wide("MAWAU", 5) \o
  Flags(<<"RDPID", "KL", "BUS_LOCK_DETECT", "CLDEMOTE">>) \o Reserved(1) \o
  Flags(<<"MOVDIRI", "MOVDIR64B", "ENQCMD", "SGX_LC", "PKS">>)

F07_00_Edx ==
  Reserved(1) \o
  Flags(<<"SGX_KEYS", "AVX512_4VNNIW", "AVX512_4FMAPS", "FSRM", "UINTR">>) \o
  Reserved(2) \o
  Flags(<<"AVX512_VP2INTERSECT", "MCU_OPT_CTRL", "MD_CLEAR",
    "RTM_ALWAYS_ABORT">>) \o
  Reserved(1) \o
  Flags(<<"RTM_FORCE_ABORT", "SERIALIZE", "HYBRID", "TSXLDTRK">>) \o
  Reserved(1) \o Flags(<<"PCONFIG", "ARCH_LBRS", "CET_IBT">>) \o Reserved(1) \o
  Flags(<<"AMX_BF16", "AVX512_FP16", "AMX_TILE", "AMX_INT8", "IBRS_IBPB",
    "SPEC_CTRL_ST_PREDICTORS", "L1D_FLUSH_INTERFACE",
    "ARCH_CAPABILITIES", "CORE_CAPABILITIES", "SPEC_CTRL_SSBD">>)

F07_01_Eax ==
  Flags(<<"SHA512", "SM3", "SM4">>) \o Reserved(1) \o
  Flags(<<"AVX_VNNI", "AVX512_BF16", "LASS", "CMPCCXADD",
    "ARCH_PERFMON_EXT">>) \o
  Reserved(1) \o
  Flags(<<"FAST_REP_MOVSB", "FAST_REP_STOSB", "FAST_REP_CMPSB_SCASB">>) \o
  Reserved(4) \o
  Flags(<<"FRED", "LKGS", "WRMSRNS", "NMI_SRC", "AMX_FP16", "HRESET",
    "AVX_IFMA">>) \o
  Reserved(2) \o Flags(<<"LAM", "MSRLIST">>) \o Reserved(2) \o
  Flags(<<"INVD_DISABLE_POST_BIOS_DONE">>) \o Reserved(1)

F07_01_Ebx ==
  Flags(<<"PPIN", "PBNDKB">>) \o Reserved(1) \o
  Flags(<<"CPUIDMAXVAL_LIM_RMV">>) \o Reserved(28)

F07_01_Ecx ==
  Flags(<<"RDT_M_ASYM", "RDT_A_ASYM">>) \o Reserved(3) \o
  Flags(<<"MSR_IMM">>) \o Reserved(26)

F07_01_Edx ==
  Reserved(4) \o Flags(<<"AVX_VNNI_INT8", "AVX_NE_CONVERT">>) \o Reserved(2) \o
  Flags(<<"AMX_COMPLEX">>) \o Reserved(1) \o Flags(<<"AVX_VNNI_INT16">>) \o
  Reserved(3) \o Flags(<<"PREFETCHI", "USER_MSR">>) \o Reserved(1) \o
  Flags(<<"UIRET_UIF", "CET_SSS", "AVX10">>) \o Reserved(2) \o
  Flags(<<"SEC_TEE_ATTESTATION", "MWAIT", "SLSM">>) \o Reserved(7)

F07_02_Edx ==
  Flags(<<"PSFD", "IPRED_CTRL", "RRSBA_CTRL", "DDPD_U", "BHI_CTRL",
    "MCDT_NO", "UC_LOCK_DISABLE", "MONITOR_MITG_NO">>) \o
  Reserved(24)

CPUID_INFO ==
  [F01_00 |-> [Eax |-> F01_00_VersionInfo, Ebx |-> F01_00_AdditionalInfo,
               Ecx |-> F01_00_Ecx, Edx |-> F01_00_Edx],
   F07_00 |-> [Eax |-> Wide("MaxInputValue", 32), Ebx |-> F07_00_Ebx,
               Ecx |-> F07_00_Ecx, Edx |-> F07_00_Edx],
   F07_01 |-> [Eax |-> F07_01_Eax, Ebx |-> F07_01_Ebx,
               Ecx |-> F07_01_Ecx, Edx |-> F07_01_Edx],
   F07_02 |-> [Eax |-> Reserved(32), Ebx |-> Reserved(32),
               Ecx |-> Reserved(32), Edx |-> F07_02_Edx]]

Widths(members) == FoldLeft(LAMBDA sum, m : sum + m.Width, 0, members)
BitOf(members, i) == Widths(SubSeq(members, 1, i - 1))

(* The static assertion at the end of the header: no register has more or  *)
(* fewer than 32 bits, so that the four are 16 bytes.                      *)
ASSUME RegisterAssumption ==
  \A f \in DOMAIN CPUID_INFO : \A r \in DOMAIN CPUID_INFO[f] :
    Widths(CPUID_INFO[f][r]) = 32
=============================================================================
