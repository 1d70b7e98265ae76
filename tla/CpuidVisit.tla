----------------------------- MODULE CpuidVisit -----------------------------
(***************************************************************************)
(* CpuidVisitFeatures (CPUID.Decode.h): one pass over the feature table    *)
(* that executes CPUID once per leaf and subleaf and calls the visitor for *)
(* every feature whose bit is set.  Info, the four registers, is reused    *)
(* for three purposes: leaf 0 (the highest leaf), the probe of leaf 7 (the *)
(* highest subleaf) and the leaf a feature is in, so that what it holds    *)
(* has to be the leaf CurrentLeaf and CurrentSubLeaf name whenever a bit   *)
(* is tested.                                                              *)
(*                                                                         *)
(* A feature is its index in the table and the key <<leaf, subleaf>> that  *)
(* table gives it; register and bit are abstracted to that index.  The     *)
(* processor answers each execution with the set of features whose bits    *)
(* are set, afresh: the thread may have moved to a core with other         *)
(* features since the last one.                                            *)
(*                                                                         *)
(* A definition marked "a bug" is no part of the specification: it is a    *)
(* mistake the code could contain in place of the definition after it.     *)
(***************************************************************************)
EXTENDS Integers, Sequences

CONSTANTS
  Features,      \* the table: a sequence of keys, in the order of the source
  Leaves,        \* the highest leaves a processor may report
  SubLeaves,     \* the highest subleaves of leaf 7 it may report
  Sentinel       \* UINT32_MAX, "not probed yet"

Key == Nat \X Nat
StructuredLeaf == 7

(* The table lists the features of one leaf and subleaf together, and no   *)
(* processor reports UINT32_MAX subleaves, which the code cannot tell from *)
(* not having asked.                                                       *)
ASSUME TableAssumption ==
  /\ Features \in Seq(Key)
  /\ \A i, j, k \in 1 .. Len(Features) :
       i < j /\ j < k /\ Features[i] = Features[k] => Features[j] = Features[i]
ASSUME ProcessorAssumption ==
  /\ Leaves \subseteq Nat
  /\ SubLeaves \subseteq Nat
  /\ Sentinel \in Nat \ SubLeaves

VARIABLES
  Supported,                 \* CPUID can be executed on this architecture
  HighestLeaf, HighestSub,   \* what the processor reports
  MaximumLeaf, MaximumStructuredSubLeaf,
  Info,                      \* [Key, Bits]: whose registers Info holds
  HasInfo, Current,          \* Current is <<CurrentLeaf, CurrentSubLeaf>>
  Index,
  Status,
  answers,                   \* history: every Info fetched to test features
  visited,                   \* history: the features visited, in order
  pc                         \* "vendor", "gate", "fetch", "test" or "done"

hardware == <<Supported, HighestLeaf, HighestSub>>
vars == <<hardware, MaximumLeaf, MaximumStructuredSubLeaf, Info, HasInfo,
          Current, Index, Status, answers, visited, pc>>

InGroup(key) == { i \in 1 .. Len(Features) : Features[i] = key }
Answer(key) == { [Key |-> key, Bits |-> b] : b \in SUBSET InGroup(key) }

Init ==
  /\ Supported \in BOOLEAN
  /\ HighestLeaf \in Leaves /\ HighestSub \in SubLeaves
  /\ MaximumLeaf = 0
  /\ MaximumStructuredSubLeaf = Sentinel
  /\ Info = [Key |-> <<0, 0>>, Bits |-> {}]
  /\ HasInfo = FALSE
  /\ Current = <<Sentinel, Sentinel>>
  /\ Index = 1
  /\ Status = "Success"
  /\ answers = << >>
  /\ visited = << >>
  /\ pc = "vendor"

Return(status) ==
  /\ Status' = status
  /\ pc' = "done"
  /\ UNCHANGED <<hardware, MaximumLeaf, MaximumStructuredSubLeaf, Info, HasInfo,
                 Current, Index, answers, visited>>

NoVisitor == pc = "vendor" /\ Return("InvalidArgument")
NoCpuid == pc = "vendor" /\ ~Supported /\ Return("Unsupported")

CpuidGetVendor ==
  /\ pc = "vendor"
  /\ Supported
  /\ MaximumLeaf' = HighestLeaf
  /\ pc' = "gate"
  /\ UNCHANGED <<hardware, MaximumStructuredSubLeaf, Info, HasInfo, Current,
                 Index, Status, answers, visited>>

-----------------------------------------------------------------------------
Gating == pc = "gate" /\ Index <= Len(Features)
Leaf == Features[Index][1]
SubLeaf == Features[Index][2]
NeedsProbe == Leaf = StructuredLeaf /\ SubLeaf # 0

Finished == pc = "gate" /\ Index > Len(Features) /\ Return("Success")

(* The for statement's continue.                                           *)
Continue(next) ==
  /\ Index' = Index + 1
  /\ pc' = next
  /\ UNCHANGED <<hardware, MaximumLeaf, MaximumStructuredSubLeaf, Info, HasInfo,
                 Current, Status, answers, visited>>

LeafTooHigh == Leaf > MaximumLeaf

SkipLeaf == Gating /\ LeafTooHigh /\ Continue("gate")

ProbedSubLeaf == HighestSub

(* Info now holds leaf 7.0, but Current still names the leaf before it.    *)
Probe ==
  /\ Gating /\ ~LeafTooHigh
  /\ NeedsProbe
  /\ MaximumStructuredSubLeaf = Sentinel
  /\ MaximumStructuredSubLeaf' = ProbedSubLeaf
  /\ Info' \in Answer(<<StructuredLeaf, 0>>)
  /\ UNCHANGED <<hardware, MaximumLeaf, HasInfo, Current, Index, Status,
                 answers, visited, pc>>

SkipSubLeaf ==
  /\ Gating /\ ~LeafTooHigh
  /\ NeedsProbe
  /\ MaximumStructuredSubLeaf # Sentinel
  /\ SubLeaf > MaximumStructuredSubLeaf
  /\ Continue("gate")

Pass ==
  /\ Gating /\ ~LeafTooHigh
  /\ NeedsProbe => /\ MaximumStructuredSubLeaf # Sentinel
                   /\ SubLeaf <= MaximumStructuredSubLeaf
  /\ pc' = "fetch"
  /\ UNCHANGED <<hardware, MaximumLeaf, MaximumStructuredSubLeaf, Info, HasInfo,
                 Current, Index, Status, answers, visited>>

CachedByLeaf == HasInfo /\ Leaf = Current[1]            \* a bug
NeverCached == FALSE                                    \* a bug
Cached == HasInfo /\ <<Leaf, SubLeaf>> = Current

UseCached ==
  /\ pc = "fetch"
  /\ Cached
  /\ pc' = "test"
  /\ UNCHANGED <<hardware, MaximumLeaf, MaximumStructuredSubLeaf, Info, HasInfo,
                 Current, Index, Status, answers, visited>>

CpuidExecute ==
  /\ pc = "fetch"
  /\ ~Cached
  /\ Info' \in Answer(<<Leaf, SubLeaf>>)
  /\ answers' = Append(answers, Info')
  /\ Current' = <<Leaf, SubLeaf>>
  /\ HasInfo' = TRUE
  /\ pc' = "test"
  /\ UNCHANGED <<hardware, MaximumLeaf, MaximumStructuredSubLeaf, Index, Status,
                 visited>>

(* The bit is read from whatever Info holds: the registers of another leaf *)
(* may have that bit set or not.                                           *)
BitSet == IF Info.Key = Features[Index] THEN {Index \in Info.Bits} ELSE BOOLEAN

SkipsOne == Index + 2                                   \* a bug
NextFeature == Index + 1

BitClear ==
  /\ pc = "test"
  /\ FALSE \in BitSet
  /\ Index' = NextFeature
  /\ pc' = "gate"
  /\ UNCHANGED <<hardware, MaximumLeaf, MaximumStructuredSubLeaf, Info, HasInfo,
                 Current, Status, answers, visited>>

Visit(more) ==
  /\ pc = "test"
  /\ TRUE \in BitSet
  /\ visited' = Append(visited, Index)
  /\ Index' = IF more THEN NextFeature ELSE Index
  /\ pc' = IF more THEN "gate" ELSE "done"
  /\ UNCHANGED <<hardware, MaximumLeaf, MaximumStructuredSubLeaf, Info, HasInfo,
                 Current, Status, answers>>

VisitorContinues == Visit(TRUE)
VisitorStops == Visit(FALSE)

Next ==
  \/ NoVisitor \/ NoCpuid \/ CpuidGetVendor \/ Finished
  \/ SkipLeaf \/ Probe \/ SkipSubLeaf \/ Pass
  \/ UseCached \/ CpuidExecute
  \/ BitClear \/ VisitorContinues \/ VisitorStops

Spec == Init /\ [][Next]_vars

-----------------------------------------------------------------------------
TypeOK ==
  /\ Supported \in BOOLEAN
  /\ HighestLeaf \in Nat /\ HighestSub \in SubLeaves
  /\ MaximumLeaf \in Nat
  /\ MaximumStructuredSubLeaf \in {Sentinel, HighestSub}
  /\ Info.Key \in Key /\ Info.Bits \subseteq InGroup(Info.Key)
  /\ HasInfo \in BOOLEAN
  /\ Current \in Key
  /\ Index \in 1 .. Len(Features) + 1
  /\ Status \in {"Success", "InvalidArgument", "Unsupported"}
  /\ answers \in Seq([Key : Key, Bits : SUBSET (1 .. Len(Features))])
  /\ visited \in Seq(1 .. Len(Features))
  /\ pc \in {"vendor", "gate", "fetch", "test", "done"}

(* A feature's bit is only ever tested in the registers of its own leaf    *)
(* and subleaf, although the probe overwrites Info behind the cache's      *)
(* back, and the probe answers what the processor reports (TypeOK).        *)
InfoFresh ==
  /\ TypeOK
  /\ pc = "test" => Info.Key = Features[Index]

(* Every group of features is fetched once: what is reported of one leaf   *)
(* and subleaf comes from one execution, on one core.                      *)
OneAnswerPerGroup ==
  \A i, j \in 1 .. Len(answers) : answers[i].Key = answers[j].Key => i = j

Reachable(key) ==
  /\ key[1] <= HighestLeaf
  /\ key[1] = StructuredLeaf /\ key[2] # 0 => key[2] <= HighestSub

(* A pass that is not stopped visits, in the order of the table and once   *)
(* each, exactly the features whose bits are set in the leaves the         *)
(* processor reports.  No other leaf is tested: above the highest one,     *)
(* CPUID answers with another leaf's registers, and what is reported of    *)
(* one leaf comes from one execution.                                      *)
Present(i) ==
  \E a \in 1 .. Len(answers) :
    answers[a].Key = Features[i] /\ i \in answers[a].Bits

VisitExact ==
  /\ OneAnswerPerGroup
  /\ \A a \in 1 .. Len(answers) : Reachable(answers[a].Key)
  /\ \A a, b \in 1 .. Len(visited) : a < b => visited[a] < visited[b]
  /\ \A a \in 1 .. Len(visited) : Present(visited[a])
  /\ \A i \in 1 .. Index - 1 :
       Reachable(Features[i]) =>
         /\ \E a \in 1 .. Len(answers) : answers[a].Key = Features[i]
         /\ Present(i) => \E a \in 1 .. Len(visited) : visited[a] = i

=============================================================================
