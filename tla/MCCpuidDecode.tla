--------------------------- MODULE MCCpuidDecode ---------------------------
(***************************************************************************)
(* Each of the 512 bits of the four answers CPUID.h describes, alone, on   *)
(* processors whose highest leaf and subleaf include it or not, and the    *)
(* versions with the families and extensions at the edges of their fields. *)
(***************************************************************************)
EXTENDS CpuidDecode

Positions ==
  {<<1, 0>>, <<7, 0>>, <<7, 1>>, <<7, 2>>} \X {"Eax", "Ebx", "Ecx", "Edx"}
    \X (0 .. 31)
SomeVersion ==
  [SteppingId |-> 3, Model |-> 10, FamilyId |-> 6, ProcessorType |-> 0,
   ExtendedModelId |-> 9, ExtendedFamilyId |-> 0]
Versions ==
  [SteppingId : {0, 15}, Model : {0, 10, 15}, FamilyId : {0, 5, 6, 15},
   ProcessorType : {0, 3}, ExtendedModelId : {0, 9, 15},
   ExtendedFamilyId : {0, 1, 255}]

MCProcessors ==
  { [CanExecute |-> TRUE, MaximumLeaf |-> l, MaximumSubLeaf |-> s,
     Set |-> <<p[1][1], p[1][2], p[2], p[3]>>, Version |-> SomeVersion] :
      l \in {0, 1, 7}, s \in {0, 1, 2}, p \in Positions }
  \cup
  { [CanExecute |-> c, MaximumLeaf |-> 7, MaximumSubLeaf |-> 2,
     Set |-> <<1, 0, "Edx", 0>>, Version |-> v] : c \in BOOLEAN, v \in Versions }
=============================================================================
