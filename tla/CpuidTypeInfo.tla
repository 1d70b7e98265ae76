--------------------------- MODULE CpuidTypeInfo ---------------------------
(***************************************************************************)
(* The two tables of named feature bits: CpuidFeatureInfo of               *)
(* CPUID.TypeInfo.h, and CpuidFeatures.All, the same rows written down once *)
(* more for managed code.  Bits(first, names) are the rows of neighbouring *)
(* bits, first the lowest.                                                 *)
(*                                                                         *)
(* A definition marked "a bug" is no part of the specification: it is a    *)
(* mistake the code could contain in place of the definition after it.     *)
(***************************************************************************)
EXTENDS Integers, Sequences

Bits(first, names) ==
  [i \in DOMAIN names |-> [Bit |-> first + i - 1, Name |-> names[i]]]
CPUID_FEATURE(leaf, subleaf, register, bit) ==
  [Leaf |-> leaf, SubLeaf |-> subleaf, Register |-> register,
   Bit |-> bit.Bit, Name |-> bit.Name]
Rows(leaf, subleaf, register, bits) ==
  [i \in DOMAIN bits |-> CPUID_FEATURE(leaf, subleaf, register, bits[i])]

-----------------------------------------------------------------------------
(* CPUID.TypeInfo.h                                                        *)
Features01_00_Ecx == Rows(1, 0, "Ecx",
  Bits(0, <<"SSE3", "PCLMULQDQ", "DTES64", "MONITOR", "DS_CPL", "VMX", "SMX",
    "EIST", "TM2", "SSSE3", "L1_CONTEXT_ID", "DEBUG_INTERFACE",
    "FMA", "CMPXCHG16B", "XTPR_UPDATE_CONTROL", "PERF_CAPABILITIES">>) \o
  Bits(17, <<"PCID", "DCA", "SSE4.1", "SSE4.2", "x2APIC", "MOVBE", "POPCNT",
    "TSC_DEADLINE", "AESNI", "XSAVE", "OSXSAVE", "AVX", "F16C",
    "RDRAND">>))
Features01_00_Edx == Rows(1, 0, "Edx",
  Bits(0, <<"FPU", "VME", "DE", "PSE", "TSC", "MSR", "PAE", "MCE",
    "CMPXCHG8B", "APIC">>) \o
  Bits(11, <<"SEP", "MTRR", "PGE", "MCA", "CMOV", "PAT", "PSE_36", "PSN",
    "CLFLUSH">>) \o
  Bits(21, <<"DS", "ACPI", "MMX", "FXSR", "SSE", "SSE2", "SELF_SNOOP", "HTT",
    "TM">>) \o
  Bits(31, <<"PBE">>))
Features07_00_Ebx == Rows(7, 0, "Ebx",
  Bits(0, <<"FSGSBASE", "TSC_ADJUST", "SGX", "BMI1", "HLE", "AVX2",
    "FDP_EXCPTN_ONLY", "SMEP", "BMI2", "ERMS", "INVPCID", "RTM",
    "RDT_M", "FCS_FDS_DEPRECATION", "MPX", "RDT_A", "AVX512F",
    "AVX512DQ", "RDSEED", "ADX", "SMAP", "AVX512_IFMA">>) \o
  Bits(23, <<"CLFLUSHOPT", "CLWB", "INTEL_PROC_TRACE", "AVX512PF", "AVX512ER",
    "AVX512CD", "SHA", "AVX512BW", "AVX512VL">>))
Features07_00_Ecx == Rows(7, 0, "Ecx",
  Bits(0, <<"PREFETCHWT1", "AVX512_VBMI", "UMIP", "PKU", "OSPKE", "WAITPKG",
    "AVX512_VBMI2", "CET_SS", "GFNI", "VAES", "VPCLMULQDQ",
    "AVX512_VNNI", "AVX512_BITALG", "TME_EN", "AVX512_VPOPCNTDQ">>) \o
  Bits(16, <<"LA57">>) \o
  Bits(22, <<"RDPID", "KEY_LOCKER", "BUS_LOCK_DETECT", "CLDEMOTE">>) \o
  Bits(27, <<"MOVDIRI", "MOVDIR64B", "ENQCMD", "SGX_LC", "PKS">>))
Features07_00_Edx == Rows(7, 0, "Edx",
  Bits(1, <<"SGX_KEYS", "AVX512_4VNNIW", "AVX512_4FMAPS", "FSRM", "UINTR">>) \o
  Bits(8, <<"AVX512_VP2INTERSECT", "MCU_OPT_CTRL", "MD_CLEAR",
    "RTM_ALWAYS_ABORT">>) \o
  Bits(13, <<"RTM_FORCE_ABORT", "SERIALIZE", "HYBRID", "TSXLDTRK">>) \o
  Bits(18, <<"PCONFIG", "ARCH_LBRS", "CET_IBT">>) \o
  Bits(22, <<"AMX_BF16", "AVX512_FP16", "AMX_TILE", "AMX_INT8", "IBRS_IBPB",
    "SPEC_CTRL_ST_PREDICTORS", "L1D_FLUSH_INTERFACE",
    "ARCH_CAPABILITIES", "CORE_CAPABILITIES", "SPEC_CTRL_SSBD">>))
Features07_01_Eax == Rows(7, 1, "Eax",
  Bits(0, <<"SHA512", "SM3", "SM4">>) \o
  Bits(4, <<"AVX_VNNI", "AVX512_BF16", "LASS", "CMPCCXADD",
    "ARCH_PERFMON_EXT">>) \o
  Bits(10, <<"FAST_REP_MOVSB", "FAST_REP_STOSB", "FAST_REP_CMPSB_SCASB">>) \o
  Bits(17, <<"FRED", "LKGS", "WRMSRNS", "NMI_SRC", "AMX_FP16", "HRESET",
    "AVX_IFMA">>) \o
  Bits(26, <<"LAM", "MSRLIST">>) \o
  Bits(30, <<"INVD_DISABLE_POST_BIOS_DONE">>))
Features07_01_Ebx == Rows(7, 1, "Ebx",
  Bits(0, <<"PPIN", "PBNDKB">>) \o
  Bits(3, <<"CPUIDMAXVAL_LIM_RMV">>))
Features07_01_Ecx == Rows(7, 1, "Ecx",
  Bits(0, <<"RDT_M_ASYM", "RDT_A_ASYM">>) \o
  Bits(5, <<"MSR_IMM">>))
Features07_01_Edx == Rows(7, 1, "Edx",
  Bits(4, <<"AVX_VNNI_INT8", "AVX_NE_CONVERT">>) \o
  Bits(8, <<"AMX_COMPLEX">>) \o
  Bits(10, <<"AVX_VNNI_INT16">>) \o
  Bits(14, <<"PREFETCHI", "USER_MSR">>) \o
  Bits(17, <<"UIRET_UIF", "CET_SSS", "AVX10">>) \o
  Bits(22, <<"SEC_TEE_ATTESTATION", "MWAIT", "SLSM">>))
Features07_02_Edx == Rows(7, 2, "Edx",
  Bits(0, <<"PSFD", "IPRED_CTRL", "RRSBA_CTRL", "DDPD_U", "BHI_CTRL",
    "MCDT_NO", "UC_LOCK_DISABLE", "MONITOR_MITG_NO">>))

CpuidFeatureInfo ==
  Features01_00_Ecx \o Features01_00_Edx \o Features07_00_Ebx \o
  Features07_00_Ecx \o Features07_00_Edx \o Features07_01_Eax \o
  Features07_01_Ebx \o Features07_01_Ecx \o Features07_01_Edx \o
  Features07_02_Edx

-----------------------------------------------------------------------------
(* CpuidFeatures.cs                                                        *)
All01_00_Ecx == Rows(1, 0, "Ecx",
  Bits(0, <<"SSE3", "PCLMULQDQ", "DTES64", "MONITOR", "DS_CPL", "VMX", "SMX",
    "EIST", "TM2", "SSSE3", "L1_CONTEXT_ID", "DEBUG_INTERFACE",
    "FMA", "CMPXCHG16B", "XTPR_UPDATE_CONTROL", "PERF_CAPABILITIES">>) \o
  Bits(17, <<"PCID", "DCA", "SSE4.1", "SSE4.2", "x2APIC", "MOVBE", "POPCNT",
    "TSC_DEADLINE", "AESNI", "XSAVE", "OSXSAVE", "AVX", "F16C",
    "RDRAND">>))
All01_00_Edx == Rows(1, 0, "Edx",
  Bits(0, <<"FPU", "VME", "DE", "PSE", "TSC", "MSR", "PAE", "MCE",
    "CMPXCHG8B", "APIC">>) \o
  Bits(11, <<"SEP", "MTRR", "PGE", "MCA", "CMOV", "PAT", "PSE_36", "PSN",
    "CLFLUSH">>) \o
  Bits(21, <<"DS", "ACPI", "MMX", "FXSR", "SSE", "SSE2", "SELF_SNOOP", "HTT",
    "TM">>) \o
  Bits(31, <<"PBE">>))
All07_00_Ebx == Rows(7, 0, "Ebx",
  Bits(0, <<"FSGSBASE", "TSC_ADJUST", "SGX", "BMI1", "HLE", "AVX2",
    "FDP_EXCPTN_ONLY", "SMEP", "BMI2", "ERMS", "INVPCID", "RTM",
    "RDT_M", "FCS_FDS_DEPRECATION", "MPX", "RDT_A", "AVX512F",
    "AVX512DQ", "RDSEED", "ADX", "SMAP", "AVX512_IFMA">>) \o
  Bits(23, <<"CLFLUSHOPT", "CLWB", "INTEL_PROC_TRACE", "AVX512PF", "AVX512ER",
    "AVX512CD", "SHA", "AVX512BW", "AVX512VL">>))
All07_00_Ecx == Rows(7, 0, "Ecx",
  Bits(0, <<"PREFETCHWT1", "AVX512_VBMI", "UMIP", "PKU", "OSPKE", "WAITPKG",
    "AVX512_VBMI2", "CET_SS", "GFNI", "VAES", "VPCLMULQDQ",
    "AVX512_VNNI", "AVX512_BITALG", "TME_EN", "AVX512_VPOPCNTDQ">>) \o
  Bits(16, <<"LA57">>) \o
  Bits(22, <<"RDPID", "KEY_LOCKER", "BUS_LOCK_DETECT", "CLDEMOTE">>) \o
  Bits(27, <<"MOVDIRI", "MOVDIR64B", "ENQCMD", "SGX_LC", "PKS">>))
All07_00_Edx == Rows(7, 0, "Edx",
  Bits(1, <<"SGX_KEYS", "AVX512_4VNNIW", "AVX512_4FMAPS", "FSRM", "UINTR">>) \o
  Bits(8, <<"AVX512_VP2INTERSECT", "MCU_OPT_CTRL", "MD_CLEAR",
    "RTM_ALWAYS_ABORT">>) \o
  Bits(13, <<"RTM_FORCE_ABORT", "SERIALIZE", "HYBRID", "TSXLDTRK">>) \o
  Bits(18, <<"PCONFIG", "ARCH_LBRS", "CET_IBT">>) \o
  Bits(22, <<"AMX_BF16", "AVX512_FP16", "AMX_TILE", "AMX_INT8", "IBRS_IBPB",
    "SPEC_CTRL_ST_PREDICTORS", "L1D_FLUSH_INTERFACE",
    "ARCH_CAPABILITIES", "CORE_CAPABILITIES", "SPEC_CTRL_SSBD">>))
All07_01_Eax == Rows(7, 1, "Eax",
  Bits(0, <<"SHA512", "SM3", "SM4">>) \o
  Bits(4, <<"AVX_VNNI", "AVX512_BF16", "LASS", "CMPCCXADD",
    "ARCH_PERFMON_EXT">>) \o
  Bits(10, <<"FAST_REP_MOVSB", "FAST_REP_STOSB", "FAST_REP_CMPSB_SCASB">>) \o
  Bits(17, <<"FRED", "LKGS", "WRMSRNS", "NMI_SRC", "AMX_FP16", "HRESET",
    "AVX_IFMA">>) \o
  Bits(26, <<"LAM", "MSRLIST">>) \o
  Bits(30, <<"INVD_DISABLE_POST_BIOS_DONE">>))
All07_01_EbxPacked == Rows(7, 1, "Ebx",                           \* a bug
  Bits(0, <<"PPIN", "PBNDKB">>) \o
  Bits(2, <<"CPUIDMAXVAL_LIM_RMV">>))
All07_01_Ebx == Rows(7, 1, "Ebx",
  Bits(0, <<"PPIN", "PBNDKB">>) \o
  Bits(3, <<"CPUIDMAXVAL_LIM_RMV">>))
All07_01_Ecx == Rows(7, 1, "Ecx",
  Bits(0, <<"RDT_M_ASYM", "RDT_A_ASYM">>) \o
  Bits(5, <<"MSR_IMM">>))
All07_01_Edx == Rows(7, 1, "Edx",
  Bits(4, <<"AVX_VNNI_INT8", "AVX_NE_CONVERT">>) \o
  Bits(8, <<"AMX_COMPLEX">>) \o
  Bits(10, <<"AVX_VNNI_INT16">>) \o
  Bits(14, <<"PREFETCHI", "USER_MSR">>) \o
  Bits(17, <<"UIRET_UIF", "CET_SSS", "AVX10">>) \o
  Bits(22, <<"SEC_TEE_ATTESTATION", "MWAIT", "SLSM">>))
All07_02_Edx == Rows(7, 2, "Edx",
  Bits(0, <<"PSFD", "IPRED_CTRL", "RRSBA_CTRL", "DDPD_U", "BHI_CTRL",
    "MCDT_NO", "UC_LOCK_DISABLE", "MONITOR_MITG_NO">>))

All ==
  All01_00_Ecx \o All01_00_Edx \o All07_00_Ebx \o All07_00_Ecx \o All07_00_Edx
  \o All07_01_Eax \o All07_01_Ebx \o All07_01_Ecx \o All07_01_Edx \o
  All07_02_Edx
=============================================================================
