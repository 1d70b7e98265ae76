---------------------------- MODULE MCCpuidVisit ----------------------------
(* CpuidVisit on a table with the groups of CPUID.TypeInfo.h in their      *)
(* order, PerGroup features each, and processors that report no leaf, only *)
(* leaf 1, or leaf 7 with up to two subleaves.                             *)
EXTENDS CpuidVisit

CONSTANT PerGroup

CpuidFeatureGroups == << <<1, 0>>, <<7, 0>>, <<7, 1>>, <<7, 2>> >>

MCFeatures ==
  [ i \in 1 .. PerGroup * Len(CpuidFeatureGroups) |->
      CpuidFeatureGroups[(i - 1) \div PerGroup + 1] ]
=============================================================================
