----------------------------- MODULE CpuidDecode -----------------------------
(***************************************************************************)
(* The CpuidDecode program: vendor, version and features of the processor  *)
(* it runs on, and what the managed CpuidSnapshot answers for a transport  *)
(* with the records of all leaves of the same processor.                   *)
(*                                                                         *)
(* CpuidVisit is about the loop of CpuidVisitFeatures; here the tables are *)
(* the subject, and one step goes to the next feature visited.  Every row  *)
(* tests one bit, so a processor of which one feature bit is set tells all *)
(* of them apart.                                                          *)
(*                                                                         *)
(* A definition marked "a bug" is no part of the specification: it is a    *)
(* mistake the code could contain in place of the definition after it.     *)
(***************************************************************************)
EXTENDS CpuidLayout, CpuidTypeInfo

CONSTANT Processors

(* The version fields of EAX of leaf 1, and what a processor is: Set is    *)
(* the feature bit that is 1.                                              *)
VersionFields ==
  [SteppingId : 0 .. 15, Model : 0 .. 15, FamilyId : 0 .. 15,
   ProcessorType : 0 .. 3, ExtendedModelId : 0 .. 15,
   ExtendedFamilyId : 0 .. 255]
FeatureBit == Nat \X Nat \X {"Eax", "Ebx", "Ecx", "Edx"} \X (0 .. 31)
Machine ==
  [CanExecute : BOOLEAN, MaximumLeaf : Nat, MaximumSubLeaf : Nat,
   Set : FeatureBit, Version : VersionFields]
ASSUME MachineAssumption == Processors \subseteq Machine

(* A row names a bit of a register.  What CpuidVisit assumes of the table: *)
(* the rows of one leaf and subleaf are listed together, so that its loop  *)
(* asks for each only once.                                                *)
FeatureRow ==
  [Leaf : Nat, SubLeaf : Nat, Register : {"Eax", "Ebx", "Ecx", "Edx"},
   Bit : 0 .. 31, Name : STRING]
RowKey(i) == <<CpuidFeatureInfo[i].Leaf, CpuidFeatureInfo[i].SubLeaf>>
ASSUME RowsAssumption == CpuidFeatureInfo \in Seq(FeatureRow)
ASSUME GroupAssumption ==
  \A i, j \in DOMAIN CpuidFeatureInfo :
    i < j /\ RowKey(i) = RowKey(j) => \A k \in i .. j : RowKey(k) = RowKey(i)

VARIABLES
  Processor,
  ReportedLeaf, Version,
  FeatureIndex,        \* of the row the visitor looks at next
  printed,             \* history: the rows printed
  exit,                \* the exit code
  stage                \* "vendor", "version", "features" or "done"

decodevars ==
  <<Processor, ReportedLeaf, Version, FeatureIndex, printed, exit, stage>>

DecodeInit ==
  /\ Processor \in Processors
  /\ ReportedLeaf = 0
  /\ Version = << >>
  /\ FeatureIndex = 1
  /\ printed = {}
  /\ exit = 1
  /\ stage = "vendor"

-----------------------------------------------------------------------------
(* CPUID_MAKE_INTEL_VERSION_INFO, EAX of leaf 1.                           *)
VersionInfo(v) ==
  v.ExtendedFamilyId * 2^20 + v.ExtendedModelId * 2^16 +
  v.ProcessorType * 2^12 + v.FamilyId * 2^8 + v.Model * 2^4 + v.SteppingId

FirmwareExtractBits(value, position, count) ==
  (value \div 2^position) % 2^count

uint8_t(n) == n % 2^8
uint16_t(n) == n % 2^16

FamilyInOneByte(family, extended) == uint8_t(family + extended)   \* a bug
DisplayFamily(family, extended) == uint16_t(family + extended)

ModelAlone(model, extended) == model                    \* a bug
DisplayModel(model, extended) == uint16_t(model + extended * 2^4)

CpuidDecodeVersion(value) ==
  LET model == FirmwareExtractBits(value, 4, 4)
      family == FirmwareExtractBits(value, 8, 4)
      extendedModel == FirmwareExtractBits(value, 16, 4)
      extendedFamily == FirmwareExtractBits(value, 20, 8)
  IN  [ Stepping |-> FirmwareExtractBits(value, 0, 4),
        DisplayFamily |->
          IF family = 15 THEN DisplayFamily(family, extendedFamily) ELSE family,
        DisplayModel |->
          IF family \in {6, 15} THEN DisplayModel(model, extendedModel) ELSE model ]

-----------------------------------------------------------------------------
(* CpuidVisitFeatures: the registers of a leaf are read only when the      *)
(* processor has that leaf.                                                *)
Has(leaf, subleaf) ==
  /\ leaf <= Processor.MaximumLeaf
  /\ leaf = 7 => subleaf <= Processor.MaximumSubLeaf
Place(row) == <<row.Leaf, row.SubLeaf, row.Register, row.Bit>>
IsSet(row) == Place(row) = Processor.Set
Visited ==
  { i \in FeatureIndex .. Len(CpuidFeatureInfo) :
      Has(CpuidFeatureInfo[i].Leaf, CpuidFeatureInfo[i].SubLeaf)
        /\ IsSet(CpuidFeatureInfo[i]) }

Unsupported ==
  /\ stage = "vendor" /\ ~Processor.CanExecute
  /\ exit' = 0
  /\ stage' = "done"
  /\ UNCHANGED <<Processor, ReportedLeaf, Version, FeatureIndex, printed>>

GetVendor ==
  /\ stage = "vendor" /\ Processor.CanExecute
  /\ ReportedLeaf' = Processor.MaximumLeaf
  /\ stage' = "version"
  /\ UNCHANGED <<Processor, Version, FeatureIndex, printed, exit>>

PrintVersion ==
  /\ stage = "version"
  /\ Version' = IF ReportedLeaf >= 1
                THEN CpuidDecodeVersion(VersionInfo(Processor.Version))
                ELSE Version
  /\ stage' = "features"
  /\ UNCHANGED <<Processor, ReportedLeaf, FeatureIndex, printed, exit>>

PrintFeature ==
  /\ stage = "features"
  /\ \E i \in Visited :
       /\ \A j \in Visited : i <= j
       /\ printed' = printed \cup {CpuidFeatureInfo[i]}
       /\ FeatureIndex' = i + 1
  /\ UNCHANGED <<Processor, ReportedLeaf, Version, exit, stage>>

Finish ==
  /\ stage = "features" /\ Visited = {}
  /\ exit' = 0
  /\ stage' = "done"
  /\ UNCHANGED <<Processor, ReportedLeaf, Version, FeatureIndex, printed>>

DecodeNext ==
  \/ Unsupported \/ GetVendor \/ PrintVersion \/ PrintFeature \/ Finish

DecodeSpec == DecodeInit /\ [][DecodeNext]_decodevars

-----------------------------------------------------------------------------
Elements(s) == { s[i] : i \in DOMAIN s }

(* CpuidSnapshot.IsSupported, of a transport with every leaf there is.     *)
ManagedSupports(feature) ==
  /\ feature.Bit < 32
  /\ Has(feature.Leaf, feature.SubLeaf)
  /\ IsSet(feature)
ManagedFeatures == { row \in Elements(All) : ManagedSupports(row) }

(* What CPUID.h declares: the member of one bit that a bit belongs to.     *)
Registers(leaf, subleaf) ==
  CASE <<leaf, subleaf>> = <<1, 0>> -> CPUID_INFO.F01_00
    [] <<leaf, subleaf>> = <<7, 0>> -> CPUID_INFO.F07_00
    [] <<leaf, subleaf>> = <<7, 1>> -> CPUID_INFO.F07_01
    [] <<leaf, subleaf>> = <<7, 2>> -> CPUID_INFO.F07_02
FlagsAt(place) ==
  LET members == Registers(place[1], place[2])[place[3]]
  IN  { members[i].Name : i \in
          { j \in DOMAIN members : /\ members[j].Name # ""
                                   /\ members[j].Width = 1
                                   /\ BitOf(members, j) = place[4] } }
NamedBeside(place) ==
  LET members == Registers(place[1], place[2])[place[3]]
  IN  { members[i].Name : i \in DOMAIN members }

(* The table has one row for a bit CPUID.h declares a flag and none for    *)
(* another, and does not give a flag the name of its neighbour.            *)
RowsAt(place) == { row \in Elements(CpuidFeatureInfo) : Place(row) = place }
RowDeclared(place) ==
  /\ RowsAt(place) = {} <=> FlagsAt(place) = {}
  /\ \A p, q \in RowsAt(place) :
       /\ p = q
       /\ p.Name \in NamedBeside(place) => p.Name \in FlagsAt(place)

(* CPUID.h declares the fields of EAX of leaf 1 at the bits and with the   *)
(* widths the program extracts.                                            *)
Extracted ==
  [SteppingId |-> <<0, 4>>, Model |-> <<4, 4>>, FamilyId |-> <<8, 4>>,
   ProcessorType |-> <<12, 2>>, ExtendedModelId |-> <<16, 4>>,
   ExtendedFamilyId |-> <<20, 8>>]
FieldPlace(name) ==
  LET members == CPUID_INFO.F01_00.Eax
      i == CHOOSE j \in DOMAIN members : members[j].Name = name
  IN  <<BitOf(members, i), members[i].Width>>
FieldsDeclared ==
  \A name \in DOMAIN Extracted : FieldPlace(name) = Extracted[name]

DecodeTypeOK ==
  /\ ReportedLeaf \in {0, Processor.MaximumLeaf}
  /\ FeatureIndex \in 1 .. Len(CpuidFeatureInfo) + 1
  /\ exit \in {0, 1}
  /\ stage \in {"vendor", "version", "features", "done"}

(* Both tables report a bit under the same name; it is reported exactly    *)
(* when CPUID.h declares it a flag and the processor has the leaf, once,   *)
(* and not under the name of another flag of that register.                *)
FlagsExact ==
  stage = "done" /\ Processor.CanExecute =>
    LET place == Processor.Set
    IN  /\ printed = ManagedFeatures
        /\ printed = {} <=> ~Has(place[1], place[2]) \/ FlagsAt(place) = {}
        /\ \A p, q \in printed :
             /\ p = q
             /\ p.Name \in NamedBeside(place) => p.Name \in FlagsAt(place)

(* The version shown is the one the fields CPUID.h declares hold, nothing  *)
(* is cut off, no field is looked for at bits other than its own, and the  *)
(* extended model of the families that have one is kept.                   *)
FieldAt(name) ==
  FirmwareExtractBits(VersionInfo(Processor.Version),
                      FieldPlace(name)[1], FieldPlace(name)[2])
VersionExact ==
  Version # << >> =>
    /\ \A name \in DOMAIN Processor.Version :
         FieldAt(name) = Processor.Version[name]
    /\ Version.Stepping = FieldAt("SteppingId")
    /\ IF FieldAt("FamilyId") = 15
       THEN Version.DisplayFamily - FieldAt("ExtendedFamilyId") = 15
       ELSE Version.DisplayFamily = FieldAt("FamilyId")
    /\ Version.DisplayModel % 16 = FieldAt("Model")
    /\ Version.DisplayModel \div 16 =
         IF FieldAt("FamilyId") \in {6, 15} THEN FieldAt("ExtendedModelId") ELSE 0

(* What the program reports is what the processor is, and the table and    *)
(* the header it is compiled with say the same of the bit that is set.     *)
FeaturesAgree ==
  /\ DecodeTypeOK
  /\ stage = "vendor" => RowDeclared(Processor.Set) /\ FieldsDeclared
  /\ FlagsExact
  /\ VersionExact
=============================================================================
