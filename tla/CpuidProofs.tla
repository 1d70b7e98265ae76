----------------------------- MODULE CpuidProofs -----------------------------
(***************************************************************************)
(* Proofs about the three programs that read CPUID.                        *)
(*                                                                         *)
(* CpuidVisitFeatures, for every table that lists the features of a leaf   *)
(* together, every processor, and every answer of it: the registers a bit  *)
(* is tested in are those of its own leaf, and the features visited are    *)
(* exactly those there are.                                                *)
(*                                                                         *)
(* The managed parser of the CPUID transport, for every number of records, *)
(* every size of a record and of a leaf: it gives all records or none, and *)
(* answers for a feature what its record says.                             *)
(***************************************************************************)
EXTENDS CpuidVisit, CpuidParse, CpuidDecode, SequenceTheorems, TLAPS

(***************************************************************************)
(* CpuidVisitFeatures                                                      *)
(***************************************************************************)
N == Len(Features)
Answered == [Key : Key, Bits : SUBSET (1 .. N)]
LastAnswer == answers[Len(answers)]

(* What the limits let through is what the processor has.                  *)
Limits ==
  /\ pc = "vendor" => Index = 1
  /\ pc \in {"gate", "fetch", "test"} => MaximumLeaf = HighestLeaf
  /\ pc \in {"fetch", "test"} => Index <= N /\ Reachable(Features[Index])

(* What was fetched last is what Current names, a key of the table, and    *)
(* the feature before the next one was tested there.                       *)
Fetched ==
  /\ HasInfo => answers # << >> /\ LastAnswer.Key = Current
  /\ ~HasInfo => answers = << >>
  /\ \A a \in 1 .. Len(answers) : \E j \in 1 .. N :
       /\ j <= Index /\ (j = Index => pc \in {"test", "done"})
       /\ answers[a].Key = Features[j]
  /\ pc \in {"gate", "fetch"} /\ Index > 1 /\ Reachable(Features[Index - 1])
       => HasInfo /\ Current = Features[Index - 1]

(* The probe overwrites Info only when no feature of Current is left.      *)
Stale ==
  /\ HasInfo /\ Current[1] = StructuredLeaf /\ Current[2] # 0
       => MaximumStructuredSubLeaf # Sentinel
  /\ pc \in {"fetch", "test"} /\ Leaf = StructuredLeaf /\ SubLeaf # 0
       => MaximumStructuredSubLeaf # Sentinel
  /\ HasInfo => \/ Info = LastAnswer
                \/ \A i \in Index .. N : Features[i] # Current
  /\ pc = "test" => HasInfo /\ Current = Features[Index]

(* What was visited lies behind the cursor.                                *)
Behind == pc # "done" => \A a \in 1 .. Len(visited) : visited[a] < Index

(* The parts of VisitExact.                                                *)
Owned == \A a \in 1 .. Len(answers) : Reachable(answers[a].Key)
Ordered == \A a, b \in 1 .. Len(visited) : a < b => visited[a] < visited[b]
Covered(i) ==
  Reachable(Features[i]) =>
    /\ \E a \in 1 .. Len(answers) : answers[a].Key = Features[i]
    /\ Present(i) => \E a \in 1 .. Len(visited) : visited[a] = i

IInv == TypeOK /\ Limits /\ Fetched /\ Stale /\ Behind /\ VisitExact

-----------------------------------------------------------------------------
LEMMA VisitParts ==
  VisitExact <=> /\ OneAnswerPerGroup /\ Owned /\ Ordered
                 /\ \A a \in 1 .. Len(visited) : Present(visited[a])
                 /\ \A i \in 1 .. Index - 1 : Covered(i)
BY DEF VisitExact, Owned, Ordered, Covered

LEMMA FeatureKeys ==
  /\ N \in Nat
  /\ \A i \in 1 .. N : Features[i] \in Key
BY TableAssumption DEF N

(* Once another leaf has begun, the one before it does not come back.      *)
LEMMA Together ==
  ASSUME NEW j \in 1 .. N, NEW k \in 1 .. N, NEW i \in 1 .. N,
         j < k, k <= i, Features[j] # Features[k]
  PROVE  Features[i] # Features[j]
<1>1. CASE i = k
  BY <1>1
<1>2. CASE k < i
  BY <1>2, TableAssumption DEF N
<1> QED
  BY <1>1, <1>2, FeatureKeys

LEMMA InitInv == Init => IInv
<1> SUFFICES ASSUME Init PROVE IInv
  OBVIOUS
<1> USE DEF Init
<1>1. TypeOK
  <2>1. Info.Key \in Key /\ Info.Bits \subseteq InGroup(Info.Key)
    BY DEF Key
  <2>2. Current \in Key
    BY ProcessorAssumption DEF Key
  <2>3. Index \in 1 .. Len(Features) + 1
    BY FeatureKeys DEF N
  <2>4. HighestLeaf \in Nat /\ HighestSub \in SubLeaves
    BY ProcessorAssumption
  <2>5. Supported \in BOOLEAN /\ HasInfo \in BOOLEAN
    BY Zenon
  <2>6. answers \in Seq([Key : Key, Bits : SUBSET (1 .. Len(Features))])
    OBVIOUS
  <2>7. visited \in Seq(1 .. Len(Features))
    OBVIOUS
  <2> HIDE DEF Init
  <2> QED
    BY <2>1, <2>2, <2>3, <2>4, <2>5, <2>6, <2>7 DEF TypeOK, Init
<1>2. Limits /\ Behind
  BY DEF Limits, Behind
<1>3. Fetched /\ Stale
  BY DEF Fetched, Stale
<1>4. VisitExact
  BY DEF VisitExact, OneAnswerPerGroup
<1> QED
  BY <1>1, <1>2, <1>3, <1>4 DEF IInv

(* What happens on the way out, and a stuttering step.                     *)
LEMMA QuietInv ==
  ASSUME IInv,
         UNCHANGED <<hardware, MaximumLeaf, MaximumStructuredSubLeaf, Info,
                     HasInfo, Current, Index, answers, visited>>,
         \/ pc' = pc /\ Status' = Status
         \/ pc' = "done" /\ Status' \in {"Success", "InvalidArgument", "Unsupported"}
  PROVE  IInv'
<1> USE DEF IInv, hardware
<1>1. TypeOK'
  BY DEF TypeOK, InGroup
<1>2. Limits' /\ Behind'
  BY DEF Limits, Behind, Reachable
<1>3. Fetched'
  BY DEF Fetched, LastAnswer, Reachable
<1>4. Stale'
  BY DEF Stale, LastAnswer, Leaf, SubLeaf
<1>5. VisitExact'
  BY DEF VisitExact, OneAnswerPerGroup, Reachable, Present
<1> QED
  BY <1>1, <1>2, <1>3, <1>4, <1>5

LEMMA ReturnInv ==
  ASSUME IInv, NEW result \in {"Success", "InvalidArgument", "Unsupported"},
         Return(result)
  PROVE  IInv'
BY QuietInv DEF Return

LEMMA GetVendorInv == IInv /\ CpuidGetVendor => IInv'
<1> SUFFICES ASSUME IInv, CpuidGetVendor PROVE IInv'
  OBVIOUS
<1>0. /\ pc = "vendor" /\ pc' = "gate" /\ MaximumLeaf' = HighestLeaf
      /\ UNCHANGED <<hardware, MaximumStructuredSubLeaf, Info, HasInfo, Current,
                     Index, Status, answers, visited>>
  BY DEF CpuidGetVendor
<1>1. TypeOK'
  BY <1>0 DEF IInv, TypeOK, InGroup, hardware
<1>2. Limits' /\ Behind'
  BY <1>0 DEF IInv, Limits, Behind, hardware
<1>3. Fetched'
  BY <1>0 DEF IInv, Limits, Fetched, LastAnswer
<1>4. Stale'
  BY <1>0 DEF IInv, Stale, LastAnswer
<1>5. VisitExact'
  BY <1>0 DEF IInv, VisitExact, OneAnswerPerGroup, Reachable, Present, hardware
<1> QED
  BY <1>1, <1>2, <1>3, <1>4, <1>5 DEF IInv

-----------------------------------------------------------------------------
(* A feature whose leaf the processor does not have is left out.           *)
LEMMA SkipInv ==
  ASSUME IInv, Gating, ~Reachable(Features[Index]), Continue("gate")
  PROVE  IInv'
<1>0. /\ pc = "gate" /\ pc' = "gate" /\ Index <= N /\ Index' = Index + 1
      /\ Index \in 1 .. N /\ Index \in Nat
      /\ UNCHANGED <<hardware, MaximumLeaf, MaximumStructuredSubLeaf, Info,
                     HasInfo, Current, Status, answers, visited>>
  BY FeatureKeys DEF Gating, Continue, IInv, TypeOK, N
<1>1. TypeOK' /\ Limits'
  BY <1>0, FeatureKeys DEF IInv, TypeOK, InGroup, Limits, hardware, N
<1>2. Behind'
  <2> SUFFICES ASSUME NEW a \in (1 .. Len(visited))'
               PROVE  (visited[a] < Index)'
    BY DEF Behind
  <2>1. visited[a] \in 1 .. N
    <3>1. a \in 1 .. Len(visited) /\ visited \in Seq(1 .. N)
      BY <1>0 DEF IInv, TypeOK, N
    <3> QED
      BY <3>1, ElementOfSeq
  <2>2. visited[a] < Index
    BY <1>0 DEF IInv, Behind
  <2> QED
    BY <1>0, <2>1, <2>2, FeatureKeys
<1>3. Fetched'
  <2>1. Index' - 1 = Index
    BY <1>0
  <2>2. ~Reachable(Features[Index - 1])'
    BY <1>0, <2>1 DEF Reachable, hardware
  <2>3. ASSUME NEW a \in 1 .. Len(answers)
        PROVE  \E j \in 1 .. N : j < Index' /\ answers[a].Key = Features[j]
    <3>1. PICK j \in 1 .. N : j <= Index /\ answers[a].Key = Features[j]
      BY DEF IInv, Fetched
    <3> QED
      BY <1>0, <3>1, FeatureKeys
  <2>4. (HasInfo => answers # << >> /\ LastAnswer.Key = Current)'
        /\ (~HasInfo => answers = << >>)'
    BY <1>0 DEF IInv, Fetched, LastAnswer
  <2> QED
    BY <1>0, <2>1, <2>2, <2>3, <2>4 DEF Fetched
<1>4. Stale'
  BY <1>0, FeatureKeys DEF IInv, Stale, LastAnswer
<1>5. VisitExact'
  <2>1. OneAnswerPerGroup' /\ Owned' /\ Ordered'
        /\ \A a \in 1 .. Len(visited)' : Present(visited[a])'
    BY <1>0, VisitParts
    DEF IInv, OneAnswerPerGroup, Owned, Ordered, Present, Reachable, hardware
  <2>2. ASSUME NEW i \in 1 .. Index' - 1 PROVE Covered(i)'
    <3>1. CASE i = Index
      BY <1>0, <3>1 DEF Covered, Reachable, hardware
    <3>2. CASE i < Index
      <4>1. Covered(i)
        BY <1>0, <3>2, VisitParts DEF IInv
      <4> QED
        BY <1>0, <4>1 DEF Covered, Reachable, Present, hardware
    <3> QED
      BY <1>0, <3>1, <3>2
  <2> QED
    BY <2>1, <2>2, VisitParts DEF VisitExact, Owned, Ordered, Covered
<1> QED
  BY <1>1, <1>2, <1>3, <1>4, <1>5 DEF IInv

LEMMA GatingFacts ==
  ASSUME IInv, Gating
  PROVE  /\ pc = "gate" /\ Index \in 1 .. N /\ Index \in Nat
         /\ Features[Index] = <<Leaf, SubLeaf>>
         /\ Leaf \in Nat /\ SubLeaf \in Nat
         /\ MaximumLeaf = HighestLeaf /\ HighestLeaf \in Nat
         /\ HighestSub \in Nat
<1>1. Index \in 1 .. N
  BY FeatureKeys DEF IInv, TypeOK, Gating, N
<1>2. Features[Index] \in Key
  BY <1>1, FeatureKeys
<1> QED
  BY <1>1, <1>2, FeatureKeys, ProcessorAssumption
  DEF IInv, Gating, Limits, TypeOK, Leaf, SubLeaf, Key

LEMMA SkipsInv == IInv /\ (SkipLeaf \/ SkipSubLeaf) => IInv'
<1> SUFFICES ASSUME IInv, SkipLeaf \/ SkipSubLeaf PROVE IInv'
  OBVIOUS
<1>1. CASE SkipLeaf
  <2>1. ~Reachable(Features[Index])
    BY <1>1, GatingFacts DEF SkipLeaf, LeafTooHigh, Reachable, Leaf
  <2> QED
    BY <1>1, <2>1, SkipInv DEF SkipLeaf
<1>2. CASE SkipSubLeaf
  <2>1. ~Reachable(Features[Index])
    BY <1>2, GatingFacts
    DEF SkipSubLeaf, NeedsProbe, Reachable, Leaf, SubLeaf, IInv, TypeOK
  <2> QED
    BY <1>2, <2>1, SkipInv DEF SkipSubLeaf
<1> QED
  BY <1>1, <1>2

LEMMA PassInv == IInv /\ Pass => IInv'
<1> SUFFICES ASSUME IInv, Pass PROVE IInv'
  OBVIOUS
<1>0. /\ pc = "gate" /\ pc' = "fetch"
      /\ UNCHANGED <<hardware, MaximumLeaf, MaximumStructuredSubLeaf, Info,
                     HasInfo, Current, Index, Status, answers, visited>>
      /\ Gating /\ ~LeafTooHigh
      /\ NeedsProbe => /\ MaximumStructuredSubLeaf # Sentinel
                       /\ SubLeaf <= MaximumStructuredSubLeaf
  BY DEF Pass, Gating
<1>1. TypeOK' /\ Behind'
  BY <1>0 DEF IInv, TypeOK, InGroup, Behind, hardware
<1>2. Limits'
  <2>1. NeedsProbe => SubLeaf <= HighestSub
    BY <1>0 DEF IInv, TypeOK
  <2>2. Reachable(Features[Index])
    BY <1>0, <2>1, GatingFacts DEF Reachable, LeafTooHigh, NeedsProbe, Leaf, SubLeaf
  <2> QED
    BY <1>0, <2>2, GatingFacts DEF IInv, Limits, Reachable, hardware
<1>3. Fetched'
  BY <1>0 DEF IInv, Fetched, LastAnswer, Reachable, hardware
<1>4. Stale'
  BY <1>0 DEF IInv, Stale, LastAnswer, NeedsProbe, Leaf, SubLeaf
<1>5. VisitExact'
  BY <1>0 DEF IInv, VisitExact, OneAnswerPerGroup, Reachable, Present, hardware
<1> QED
  BY <1>1, <1>2, <1>3, <1>4, <1>5 DEF IInv

(* The registers fetched last belong to a leaf before the one the probe is *)
(* for, which therefore does not come back.                                *)
LEMMA ProbeInv == IInv /\ Probe => IInv'
<1> SUFFICES ASSUME IInv, Probe PROVE IInv'
  OBVIOUS
<1>0. /\ pc = "gate" /\ Gating /\ NeedsProbe
      /\ MaximumStructuredSubLeaf = Sentinel
      /\ MaximumStructuredSubLeaf' = HighestSub
      /\ Info' \in Answer(<<StructuredLeaf, 0>>)
      /\ UNCHANGED <<hardware, MaximumLeaf, HasInfo, Current, Index, Status,
                     answers, visited, pc>>
  BY DEF Probe, Gating, ProbedSubLeaf
<1>1. TypeOK'
  <2>1. Info'.Key \in Key /\ Info'.Bits \subseteq InGroup(Info'.Key)
    BY <1>0 DEF Answer, Key, StructuredLeaf
  <2> QED
    BY <1>0, <2>1 DEF IInv, TypeOK, InGroup, hardware
<1>2. Limits' /\ Behind'
  BY <1>0 DEF IInv, Limits, Behind, hardware
<1>3. Fetched'
  BY <1>0 DEF IInv, Fetched, LastAnswer, Reachable, hardware
<1>4. HighestSub # Sentinel
  BY ProcessorAssumption DEF IInv, TypeOK
<1>5. ASSUME HasInfo, NEW i \in Index .. N PROVE Features[i] # Current
  <2>1. Current # Features[Index]
    BY <1>0, <1>5 DEF IInv, Stale, NeedsProbe, Leaf, SubLeaf
  <2>2. PICK j \in 1 .. N : j < Index /\ Current = Features[j]
    <3>1. Len(answers) \in 1 .. Len(answers)
      BY <1>5 DEF IInv, Fetched, TypeOK
    <3> QED
      BY <1>0, <1>5, <3>1, GatingFacts DEF IInv, Fetched, LastAnswer
  <2> QED
    BY <2>1, <2>2, <1>0, GatingFacts, Together, FeatureKeys
<1>6. Stale'
  BY <1>0, <1>4, <1>5 DEF IInv, Stale
<1>7. VisitExact'
  BY <1>0 DEF IInv, VisitExact, OneAnswerPerGroup, Reachable, Present, hardware
<1> QED
  BY <1>1, <1>2, <1>3, <1>6, <1>7 DEF IInv

-----------------------------------------------------------------------------
LEMMA UseCachedInv == IInv /\ UseCached => IInv'
<1> SUFFICES ASSUME IInv, UseCached PROVE IInv'
  OBVIOUS
<1>0. /\ pc = "fetch" /\ pc' = "test" /\ HasInfo
      /\ <<Leaf, SubLeaf>> = Current
      /\ UNCHANGED <<hardware, MaximumLeaf, MaximumStructuredSubLeaf, Info,
                     HasInfo, Current, Index, Status, answers, visited>>
  BY DEF UseCached, Cached
<1>1. TypeOK' /\ Behind'
  BY <1>0 DEF IInv, TypeOK, InGroup, Behind, hardware
<1>2. Limits'
  BY <1>0 DEF IInv, Limits, Reachable, hardware
<1>3. Fetched'
  BY <1>0 DEF IInv, Fetched, LastAnswer
<1>4. Current = Features[Index]
  <2>1. Index \in 1 .. N
    BY <1>0, FeatureKeys DEF IInv, Limits, TypeOK, N
  <2> QED
    BY <1>0, <2>1, FeatureKeys DEF Leaf, SubLeaf, Key
<1>5. Stale'
  BY <1>0, <1>4 DEF IInv, Stale, LastAnswer, Leaf, SubLeaf
<1>6. VisitExact'
  BY <1>0 DEF IInv, VisitExact, OneAnswerPerGroup, Reachable, Present, hardware
<1> QED
  BY <1>1, <1>2, <1>3, <1>5, <1>6 DEF IInv

(* The leaf of the next feature has not been asked for: its features come  *)
(* together, and the one before would have left it in Current.             *)
LEMMA NotAsked ==
  ASSUME IInv, pc = "fetch", ~Cached
  PROVE  \A a \in 1 .. Len(answers) : answers[a].Key # Features[Index]
<1>0. Index \in 1 .. N /\ Index \in Nat /\ Reachable(Features[Index])
  BY FeatureKeys DEF IInv, Limits, TypeOK, N
<1> SUFFICES ASSUME NEW a \in 1 .. Len(answers),
                    answers[a].Key = Features[Index]
             PROVE  FALSE
  OBVIOUS
<1>1. PICK j \in 1 .. N : j < Index /\ Features[j] = Features[Index]
  BY <1>0 DEF IInv, Fetched
<1>2. Features[Index - 1] = Features[Index]
  <2>1. CASE j = Index - 1
    BY <1>1, <2>1
  <2>2. CASE j < Index - 1
    <3>1. Index - 1 \in 1 .. N /\ Index - 1 < Index
      BY <1>0, <1>1, FeatureKeys
    <3>2. Features[j] = Features[Index - 1]
      BY <1>0, <1>1, <2>2, <3>1, FeatureKeys, Together
    <3> QED
      BY <1>1, <3>2
  <2> QED
    BY <1>0, <1>1, <2>1, <2>2
<1>3. HasInfo /\ Current = Features[Index]
  BY <1>0, <1>1, <1>2 DEF IInv, Fetched
<1>4. Features[Index] = <<Leaf, SubLeaf>>
  BY <1>0, FeatureKeys DEF Leaf, SubLeaf, Key
<1> QED
  BY <1>3, <1>4 DEF Cached

LEMMA ExecuteInv == IInv /\ CpuidExecute => IInv'
<1> SUFFICES ASSUME IInv, CpuidExecute PROVE IInv'
  OBVIOUS
<1>0. /\ pc = "fetch" /\ pc' = "test" /\ ~Cached
      /\ Info' \in Answer(<<Leaf, SubLeaf>>)
      /\ answers' = Append(answers, Info')
      /\ Current' = <<Leaf, SubLeaf>>
      /\ HasInfo' = TRUE
      /\ UNCHANGED <<hardware, MaximumLeaf, MaximumStructuredSubLeaf, Index,
                     Status, visited>>
  BY DEF CpuidExecute
<1>1. /\ Index \in 1 .. N /\ Index \in Nat
      /\ Reachable(Features[Index])
      /\ Features[Index] = <<Leaf, SubLeaf>> /\ Features[Index] \in Key
  BY <1>0, FeatureKeys DEF IInv, Limits, TypeOK, Leaf, SubLeaf, Key, N
<1>2. /\ Info'.Key = Features[Index] /\ Info' \in Answered
      /\ Info'.Bits \subseteq InGroup(Info'.Key)
  <2>1. PICK bits \in SUBSET InGroup(Features[Index]) :
          Info' = [Key |-> Features[Index], Bits |-> bits]
    BY <1>0, <1>1 DEF Answer
  <2>2. bits \in SUBSET (1 .. N)
    BY <2>1 DEF InGroup, N
  <2> QED
    BY <1>1, <2>1, <2>2 DEF Answered
<1>3. answers \in Seq(Answered) /\ Len(answers) \in Nat
  BY DEF IInv, TypeOK, Answered, N
<1>4. /\ answers' \in Seq(Answered)
      /\ Len(answers') = Len(answers) + 1
      /\ \A a \in 1 .. Len(answers) : answers'[a] = answers[a]
      /\ answers'[Len(answers')] = Info'
  BY <1>0, <1>2, <1>3, AppendProperties
<1>5. TypeOK'
  <2>1. HasInfo' \in BOOLEAN
    BY <1>0, Zenon
  <2>2. answers' \in Seq([Key : Key, Bits : SUBSET (1 .. Len(Features))])
    BY <1>4 DEF Answered, N
  <2>3. Info'.Key \in Key /\ Info'.Bits \subseteq InGroup(Info'.Key)
    BY <1>1, <1>2
  <2>4. Current' \in Key
    BY <1>0, <1>1
  <2> QED
    BY <1>0, <2>1, <2>2, <2>3, <2>4 DEF IInv, TypeOK, InGroup, hardware
<1>6. Limits' /\ Behind'
  BY <1>0, <1>1 DEF IInv, Limits, Behind, Reachable, hardware
<1>7. Fetched'
  <2>1. answers' # << >> /\ LastAnswer' = Info' /\ Info'.Key = Current'
    BY <1>0, <1>1, <1>2, <1>3, <1>4 DEF LastAnswer
  <2>2. ASSUME NEW a \in 1 .. Len(answers')
        PROVE  \E j \in 1 .. N : j <= Index /\ answers'[a].Key = Features[j]
    <3>1. CASE a = Len(answers')
      <4>1. answers'[a].Key = Features[Index]
        BY <1>2, <1>4, <3>1, Zenon
      <4>2. Index <= Index /\ Index \in 1 .. N
        BY <1>1
      <4> QED
        BY <4>1, <4>2, Zenon
    <3>2. CASE a \in 1 .. Len(answers)
      BY <1>4, <3>2 DEF IInv, Fetched
    <3> QED
      BY <1>3, <1>4, <3>1, <3>2
  <2> QED
    BY <1>0, <2>1, <2>2 DEF Fetched
<1>8. Stale'
  BY <1>0, <1>1, <1>4 DEF IInv, Stale, LastAnswer, Leaf, SubLeaf
<1>9. VisitExact'
  <2>1. OneAnswerPerGroup'
    BY <1>0, <1>2, <1>3, <1>4, NotAsked, VisitParts DEF IInv, OneAnswerPerGroup
  <2>2. Owned'
    <3> SUFFICES ASSUME NEW a \in 1 .. Len(answers')
                 PROVE  Reachable(answers'[a].Key)
      BY <1>0 DEF Owned, Reachable, hardware
    <3>1. CASE a = Len(answers')
      BY <1>1, <1>2, <1>4, <3>1
    <3>2. CASE a \in 1 .. Len(answers)
      BY <1>4, <3>2, VisitParts DEF IInv, Owned
    <3> QED
      BY <1>3, <1>4, <3>1, <3>2
  <2>3. Ordered'
    BY <1>0, VisitParts DEF IInv, Ordered
  <2>4. ASSUME NEW i \in 1 .. N, Present(i) PROVE Present(i)'
    BY <1>3, <1>4, <2>4 DEF Present
  <2>5. ASSUME NEW a \in 1 .. Len(visited) PROVE Present(visited[a])
        /\ visited[a] \in 1 .. N
    BY VisitParts, ElementOfSeq DEF IInv, TypeOK, N
  <2>6. \A a \in 1 .. Len(visited)' : Present(visited[a])'
    BY <1>0, <2>4, <2>5 DEF Present
  <2>7. ASSUME NEW i \in 1 .. Index - 1 PROVE Covered(i)'
    <3>1. Covered(i)
      BY VisitParts DEF IInv
    <3> SUFFICES ASSUME Reachable(Features[i])
                 PROVE  /\ \E a \in 1 .. Len(answers') :
                             answers'[a].Key = Features[i]
                        /\ Present(i)' =>
                             \E a \in 1 .. Len(visited) : visited[a] = i
      BY <1>0 DEF Covered, Reachable, hardware
    <3>2. PICK b \in 1 .. Len(answers) : answers[b].Key = Features[i]
      BY <3>1 DEF Covered
    <3>3. Features[i] # Features[Index]
      BY <1>0, <3>2, NotAsked
    <3>4. Present(i)' => Present(i)
      BY <1>2, <1>3, <1>4, <3>3 DEF Present
    <3> QED
      BY <1>3, <1>4, <3>1, <3>2, <3>4 DEF Covered
  <2> QED
    BY <1>0, <2>1, <2>2, <2>3, <2>6, <2>7 
    DEF VisitExact, Owned, Ordered, Covered
<1> QED
  BY <1>5, <1>6, <1>7, <1>8, <1>9 DEF IInv

-----------------------------------------------------------------------------
(* What is known when a bit is tested: Info is the answer of its leaf.     *)
LEMMA TestFacts ==
  ASSUME IInv, pc = "test"
  PROVE  /\ Index \in 1 .. N /\ Index \in Nat
         /\ HasInfo /\ Current = Features[Index]
         /\ Info.Key = Features[Index]
         /\ \E a \in 1 .. Len(answers) : answers[a].Key = Features[Index]
         /\ Present(Index) <=> Index \in Info.Bits
<1>1. Index \in 1 .. N /\ Index \in Nat
  BY FeatureKeys DEF IInv, Limits, TypeOK, N
<1>2. HasInfo /\ Current = Features[Index]
  BY DEF IInv, Stale
<1>3. answers # << >> /\ Info = LastAnswer /\ LastAnswer.Key = Current
  BY <1>1, <1>2 DEF IInv, Stale, Fetched
<1>4. Len(answers) \in 1 .. Len(answers)
  BY <1>3 DEF IInv, TypeOK
<1>5. \A a \in 1 .. Len(answers) :
        answers[a].Key = Features[Index] => a = Len(answers)
  BY <1>2, <1>3, <1>4, VisitParts DEF IInv, OneAnswerPerGroup, LastAnswer
<1> QED
  BY <1>1, <1>2, <1>3, <1>4, <1>5 DEF Present, LastAnswer

(* The test of a bit moves on, whether its feature was visited or not.     *)
LEMMA MoveOn ==
  ASSUME IInv, pc = "test", pc' \in {"gate", "done"},
         UNCHANGED <<hardware, MaximumLeaf, MaximumStructuredSubLeaf, Info,
                     HasInfo, Current, Status, answers>>,
         Index' = IF pc' = "gate" THEN Index + 1 ELSE Index
  PROVE  /\ Index' \in 1 .. N + 1
         /\ Limits' /\ Fetched' /\ Stale'
<1>1. Index' \in 1 .. N + 1
  BY TestFacts, FeatureKeys
<1>2. Limits'
  BY DEF IInv, Limits, hardware
<1>3. Fetched'
  <2>1. pc' = "gate" => Features[Index' - 1] = Current
    BY TestFacts
  <2>2. ASSUME NEW a \in 1 .. Len(answers)
        PROVE  \E j \in 1 .. N :
                 /\ j <= Index' /\ (j = Index' => pc' \in {"test", "done"})
                 /\ answers[a].Key = Features[j]
    <3>1. PICK j \in 1 .. N : j <= Index /\ answers[a].Key = Features[j]
      BY DEF IInv, Fetched
    <3> QED
      BY <3>1, TestFacts, FeatureKeys
  <2> QED
    BY <2>1, <2>2, TestFacts DEF IInv, Fetched, LastAnswer
<1>4. Stale'
  BY TestFacts, FeatureKeys DEF IInv, Stale, LastAnswer
<1> QED
  BY <1>1, <1>2, <1>3, <1>4

LEMMA BitClearInv == IInv /\ BitClear => IInv'
<1> SUFFICES ASSUME IInv, BitClear PROVE IInv'
  OBVIOUS
<1>0. /\ pc = "test" /\ pc' = "gate" /\ Index' = Index + 1
      /\ UNCHANGED <<hardware, MaximumLeaf, MaximumStructuredSubLeaf, Info,
                     HasInfo, Current, Status, answers, visited>>
  BY DEF BitClear, NextFeature
<1>1. Index' \in 1 .. N + 1 /\ Limits' /\ Fetched' /\ Stale'
  BY <1>0, MoveOn
<1>2. TypeOK'
  BY <1>0, <1>1 DEF IInv, TypeOK, InGroup, hardware, N
<1>3. ASSUME NEW a \in 1 .. Len(visited)
      PROVE  visited[a] \in 1 .. N /\ visited[a] < Index
  BY <1>0, ElementOfSeq DEF IInv, TypeOK, Behind, N
<1>4. Behind'
  BY <1>0, <1>3, TestFacts, FeatureKeys DEF Behind
<1>5. ~Present(Index)
  BY <1>0, TestFacts DEF BitClear, BitSet
<1>6. VisitExact'
  <2>1. OneAnswerPerGroup' /\ Owned' /\ Ordered'
        /\ \A a \in 1 .. Len(visited)' : Present(visited[a])'
    BY <1>0, VisitParts
    DEF IInv, OneAnswerPerGroup, Owned, Ordered, Present, Reachable, hardware
  <2>2. ASSUME NEW i \in 1 .. Index' - 1 PROVE Covered(i)'
    <3>1. CASE i = Index
      <4>1. Covered(i)
        BY <1>0, <1>5, <3>1, TestFacts DEF Covered
      <4> QED
        BY <1>0, <4>1 DEF Covered, Reachable, Present, hardware
    <3>2. CASE i \in 1 .. Index - 1
      <4>1. Covered(i)
        BY <3>2, VisitParts DEF IInv
      <4> QED
        BY <1>0, <4>1 DEF Covered, Reachable, Present, hardware
    <3> QED
      BY <1>0, <3>1, <3>2, TestFacts
  <2> QED
    BY <2>1, <2>2, VisitParts DEF VisitExact, Owned, Ordered, Covered
<1> QED
  BY <1>1, <1>2, <1>4, <1>6 DEF IInv

LEMMA VisitInv ==
  ASSUME IInv, NEW more \in BOOLEAN, Visit(more)
  PROVE  IInv'
<1>0. /\ pc = "test" /\ pc' \in {"gate", "done"}
      /\ visited' = Append(visited, Index)
      /\ Index' = IF pc' = "gate" THEN Index + 1 ELSE Index
      /\ UNCHANGED <<hardware, MaximumLeaf, MaximumStructuredSubLeaf, Info,
                     HasInfo, Current, Status, answers>>
  BY DEF Visit, NextFeature
<1>1. Index' \in 1 .. N + 1 /\ Limits' /\ Fetched' /\ Stale'
  BY <1>0, MoveOn
<1>2. /\ visited \in Seq(1 .. N) /\ Len(visited) \in Nat
      /\ visited' \in Seq(1 .. N)
      /\ Len(visited') = Len(visited) + 1
      /\ \A a \in 1 .. Len(visited) : visited'[a] = visited[a]
      /\ visited'[Len(visited')] = Index
  <2>1. visited \in Seq(1 .. N) /\ Len(visited) \in Nat
    BY DEF IInv, TypeOK, N
  <2> QED
    BY <1>0, <2>1, TestFacts, AppendProperties
<1>3. TypeOK'
  BY <1>0, <1>1, <1>2 DEF IInv, TypeOK, InGroup, hardware, N
<1>4. ASSUME NEW a \in 1 .. Len(visited)
      PROVE  visited[a] \in 1 .. N /\ visited[a] < Index
  BY <1>0, <1>2, ElementOfSeq DEF IInv, Behind
<1>5. ASSUME NEW a \in 1 .. Len(visited')
      PROVE  a \in 1 .. Len(visited) \/ a = Len(visited')
  BY <1>2
<1>6. Behind'
  <2> SUFFICES ASSUME pc' = "gate", NEW a \in 1 .. Len(visited')
               PROVE  visited'[a] < Index'
    BY <1>0 DEF Behind
  <2> QED
    BY <1>0, <1>2, <1>4, <1>5, TestFacts, FeatureKeys
<1>7. Present(Index)
  BY <1>0, TestFacts DEF Visit, BitSet
<1>8. VisitExact'
  <2>1. OneAnswerPerGroup' /\ Owned'
    BY <1>0, VisitParts DEF IInv, OneAnswerPerGroup, Owned, Reachable, hardware
  <2>2. Ordered'
    <3> SUFFICES ASSUME NEW a \in 1 .. Len(visited'),
                        NEW b \in 1 .. Len(visited'), a < b
                 PROVE  visited'[a] < visited'[b]
      BY DEF Ordered
    <3>1. a \in 1 .. Len(visited) /\ visited'[a] = visited[a]
      BY <1>2
    <3>2. CASE b = Len(visited')
      BY <1>2, <1>4, <3>1, <3>2
    <3>3. CASE b \in 1 .. Len(visited)
      BY <1>2, <3>1, <3>3, VisitParts DEF IInv, Ordered
    <3> QED
      BY <1>5, <3>2, <3>3
  <2>3. ASSUME NEW a \in 1 .. Len(visited') PROVE Present(visited'[a])
    BY <1>0, <1>2, <1>5, <1>7, VisitParts DEF IInv
  <2>4. \A a \in 1 .. Len(visited)' : Present(visited[a])'
    BY <1>0, <2>3 DEF Present
  <2>5. ASSUME NEW i \in 1 .. Index' - 1 PROVE Covered(i)'
    <3>1. CASE i = Index
      <4>1. Len(visited') \in 1 .. Len(visited')
        BY <1>2
      <4>2. \E a \in 1 .. Len(answers) : answers[a].Key = Features[i]
        BY <1>0, <3>1, TestFacts
      <4> QED
        BY <1>0, <1>2, <3>1, <4>1, <4>2 DEF Covered
    <3>2. CASE i \in 1 .. Index - 1
      <4>1. Covered(i)
        BY <3>2, VisitParts DEF IInv
      <4>2. ASSUME NEW a \in 1 .. Len(visited), visited[a] = i
            PROVE  \E b \in 1 .. Len(visited') : visited'[b] = i
        BY <1>2, <4>2
      <4> QED
        BY <1>0, <4>1, <4>2 DEF Covered, Reachable, Present, hardware
    <3> QED
      BY <1>0, <3>1, <3>2, TestFacts
  <2>6. \A i \in (1 .. Index - 1)' : Covered(i)'
    BY <2>5
  <2> QED
    BY <2>1, <2>2, <2>4, <2>6 DEF VisitExact, Owned, Ordered, Covered
<1> QED
  BY <1>1, <1>3, <1>6, <1>8 DEF IInv

-----------------------------------------------------------------------------
LEMMA StepInv == IInv /\ [Next]_vars => IInv'
<1> SUFFICES ASSUME IInv, [Next]_vars PROVE IInv'
  OBVIOUS
<1>1. CASE NoVisitor \/ NoCpuid \/ Finished
  BY <1>1, ReturnInv DEF NoVisitor, NoCpuid, Finished
<1>2. CASE CpuidGetVendor
  BY <1>2, GetVendorInv
<1>3. CASE SkipLeaf \/ SkipSubLeaf
  BY <1>3, SkipsInv
<1>4. CASE Probe
  BY <1>4, ProbeInv
<1>5. CASE Pass
  BY <1>5, PassInv
<1>6. CASE UseCached
  BY <1>6, UseCachedInv
<1>7. CASE CpuidExecute
  BY <1>7, ExecuteInv
<1>8. CASE BitClear
  BY <1>8, BitClearInv
<1>9. CASE VisitorContinues \/ VisitorStops
  BY <1>9, VisitInv DEF VisitorContinues, VisitorStops
<1>10. CASE UNCHANGED vars
  BY <1>10, QuietInv DEF vars
<1> QED
  BY <1>1, <1>2, <1>3, <1>4, <1>5, <1>6, <1>7, <1>8, <1>9, <1>10 DEF Next

LEMMA Invariance == Spec => []IInv
BY InitInv, StepInv, PTL DEF Spec

(* No bit is tested in the registers of another leaf than its own,         *)
(* although CpuidVisitFeatures reuses them for the probe of leaf 7.        *)
THEOREM RegistersAreFresh == Spec => []InfoFresh
<1>1. IInv => InfoFresh
  BY TestFacts DEF IInv, InfoFresh
<1> QED
  BY <1>1, Invariance, PTL

(* The visitor of CpuidVisitFeatures is called for exactly the features    *)
(* whose bits are set in the leaves the processor has, in the order of the *)
(* table and once each, from one execution of CPUID for each leaf.         *)
THEOREM VisitsAreExact == Spec => []VisitExact
<1>1. IInv => VisitExact
  BY DEF IInv
<1> QED
  BY <1>1, Invariance, PTL

(***************************************************************************)
(* The parser of the CPUID transport                                       *)
(***************************************************************************)
Known == Len(data.Records)
Taken == Len(records)

(* The loop has taken the first Taken records, no two of which have one    *)
(* key, and offset stands behind them.                                     *)
TakenInv ==
  phase = "loop" =>
    /\ Whole
    /\ Taken <= Known /\ offset = Taken * RecordSize
    /\ \A i \in 1 .. Taken : records[i] = data.Records[i]
    /\ keys = { Pack(data.Records[i]) : i \in 1 .. Taken }
    /\ \A i, j \in 1 .. Taken :
         KeyOf(data.Records[i]) = KeyOf(data.Records[j]) => i = j

EnterInv ==
  /\ phase = "enter" => offset = 0 /\ keys = {} /\ records = << >>
  /\ ~Returned => snapshot = NoSnapshot

ParseInv == SnapshotExact /\ TakenInv /\ EnterInv /\ FeatureExact

-----------------------------------------------------------------------------
(* Two 32-bit values packed into 64 bits are two values again.             *)
LEMMA PackExact ==
  ASSUME NEW w \in Nat, NEW a \in Nat, NEW b \in 0 .. w - 1,
         NEW c \in Nat, NEW d \in 0 .. w - 1,
         a * w + b = c * w + d
  PROVE  a = c /\ b = d
<1>1. ~(a < c)
  <2> SUFFICES ASSUME a < c PROVE FALSE
    OBVIOUS
  <2>1. PICK k \in Nat : c = a + 1 + k
    <3>1. c - a - 1 \in Nat /\ c = a + 1 + (c - a - 1)
      OBVIOUS
    <3> QED
      BY <3>1
  <2>2. c * w = a * w + w + k * w /\ k * w \in Nat /\ a * w \in Nat
    BY <2>1
  <2> QED
    BY <2>2
<1>2. ~(c < a)
  <2> SUFFICES ASSUME c < a PROVE FALSE
    OBVIOUS
  <2>1. PICK k \in Nat : a = c + 1 + k
    <3>1. a - c - 1 \in Nat /\ a = c + 1 + (a - c - 1)
      OBVIOUS
    <3> QED
      BY <3>1
  <2>2. a * w = c * w + w + k * w /\ k * w \in Nat /\ c * w \in Nat
    BY <2>1
  <2> QED
    BY <2>2
<1>3. a = c
  BY <1>1, <1>2
<1> QED
  BY <1>3

LEMMA PackInRange ==
  ASSUME NEW w \in Nat, NEW a \in 0 .. w - 1, NEW b \in 0 .. w - 1
  PROVE  a * w + b \in 0 .. w * w - 1
<1>1. PICK k \in Nat : w = a + 1 + k
  <2>1. w - a - 1 \in Nat /\ w = a + 1 + (w - a - 1)
    OBVIOUS
  <2> QED
    BY <2>1
<1>2. w * w = a * w + w + k * w /\ k * w \in Nat /\ a * w \in Nat
  BY <1>1
<1> QED
  BY <1>2

LEMMA PackUnique ==
  ASSUME NEW q \in CpuidRecord, NEW r \in CpuidRecord
  PROVE  /\ Pack(q) = Pack(r) <=> KeyOf(q) = KeyOf(r)
         /\ Pack(q) \in 0 .. Word * Word - 1
<1>1. /\ q.Leaf \in 0 .. Word - 1 /\ q.SubLeaf \in 0 .. Word - 1
      /\ r.Leaf \in 0 .. Word - 1 /\ r.SubLeaf \in 0 .. Word - 1
      /\ Word \in Nat
  BY ParseAssumption DEF CpuidRecord
<1>2. q.Leaf * Word + q.SubLeaf = r.Leaf * Word + r.SubLeaf
      => q.Leaf = r.Leaf /\ q.SubLeaf = r.SubLeaf
  <2>1. q.Leaf \in Nat /\ r.Leaf \in Nat
    BY <1>1
  <2> QED
    BY <1>1, <2>1, PackExact
<1>3. q.Leaf * Word + q.SubLeaf \in 0 .. Word * Word - 1
  BY <1>1, PackInRange
<1> QED
  BY <1>2, <1>3 DEF Pack, KeyOf

(* Whole records: the n-th begins at n * RecordSize.                       *)
LEMMA RecordAt ==
  ASSUME NEW s \in Nat, NEW w \in Nat \ {0}, s % w = 0, NEW n \in Nat
  PROVE  /\ s = (s \div w) * w /\ s \div w \in Nat
         /\ (n * w) \div w = n
         /\ n * w < s <=> n < s \div w
         /\ n <= s \div w => n * w <= s /\ n * w \in Nat
<1> DEFINE m == s \div w
<1>1. s = m * w /\ m \in Nat
  OBVIOUS
<1>2. (n * w) \div w = n
  OBVIOUS
<1> HIDE DEF m
<1>3. n < m => n * w < m * w
  <2> SUFFICES ASSUME n < m PROVE n * w < m * w
    OBVIOUS
  <2>1. PICK k \in Nat : m = n + 1 + k
    <3>1. m - n - 1 \in Nat /\ m = n + 1 + (m - n - 1)
      BY <1>1
    <3> QED
      BY <3>1
  <2>2. m * w = n * w + w + k * w /\ k * w \in Nat /\ n * w \in Nat
    BY <2>1
  <2> QED
    BY <2>2
<1>4. m <= n => m * w <= n * w
  <2> SUFFICES ASSUME m <= n PROVE m * w <= n * w
    OBVIOUS
  <2>1. PICK k \in Nat : n = m + k
    <3>1. n - m \in Nat /\ n = m + (n - m)
      BY <1>1
    <3> QED
      BY <3>1
  <2>2. n * w = m * w + k * w /\ k * w \in Nat /\ m * w \in Nat
    BY <1>1, <2>1
  <2> QED
    BY <2>2
<1>5. n * w \in Nat /\ m * w \in Nat
  BY <1>1
<1>6. n * w < s <=> n < m
  BY <1>1, <1>3, <1>4, <1>5
<1>7. n <= m => n * w <= s
  BY <1>1, <1>3, <1>5
<1> QED
  BY <1>1, <1>2, <1>5, <1>6, <1>7 DEF m

-----------------------------------------------------------------------------
LEMMA InputFacts ==
  ASSUME ParseTypeOK
  PROVE  /\ data.Size \in Nat /\ RecordSize \in Nat \ {0}
         /\ data.Records \in Seq(CpuidRecord) /\ Known \in Nat
         /\ Known = data.Size \div RecordSize
         /\ records \in Seq(CpuidRecord) /\ Taken \in Nat
         /\ offset \in Nat
BY ParseAssumption DEF ParseTypeOK, IsInput, Known, Taken

LEMMA NothingFacts ==
  /\ NoSnapshot.Null = TRUE /\ NoSnapshot.Records = << >>
  /\ NoFeature \in [Key : TransportKey, Bit : Bit]
<1>1. (CHOOSE b \in Bit : TRUE) \in Bit
  BY ParseAssumption
<1>2. <<0, 0>> \in TransportKey
  BY ParseAssumption DEF TransportKey
<1> QED
  BY <1>1, <1>2 DEF NoSnapshot, NoFeature

LEMMA ParseStartsInv == ParseInit => ParseInv
<1> SUFFICES ASSUME ParseInit PROVE ParseInv
  OBVIOUS
<1>1. IsInput(data) /\ data.Size \in Nat
  BY ParseAssumption DEF ParseInit, IsInput
<1>2. << >> \in Seq(CpuidRecord) /\ 0 \in 0 .. data.Size
  BY <1>1
<1>3. ParseTypeOK
  BY <1>1, <1>2, NothingFacts DEF ParseInit, ParseTypeOK
<1> QED
  BY <1>3 DEF ParseInit, ParseInv, SnapshotExact, TakenInv, EnterInv, FeatureExact, Returned

(* A return with the answer the bytes deserve.                             *)
LEMMA LeaveParseInv ==
  ASSUME ParseInv, phase # "asked",
         NEW result \in {"Success", "InvalidLength", "InvalidArgument"}, NEW out,
         Leave(result, out),
         result = IF ~Whole THEN "InvalidLength"
                  ELSE IF Distinct THEN "Success" ELSE "InvalidArgument",
         out = IF Whole /\ Distinct
               THEN [Null |-> FALSE, Records |-> data.Records] ELSE NoSnapshot
  PROVE  ParseInv'
<1>1. /\ status' = result /\ snapshot' = out /\ phase' = "returned"
      /\ UNCHANGED <<data, offset, keys, records, asked, found>>
  BY DEF Leave
<1>2. ParseTypeOK
  BY DEF ParseInv, SnapshotExact
<1>3. out.Null \in BOOLEAN /\ out.Records \in Seq(CpuidRecord)
  <2>1. << >> \in Seq(CpuidRecord) /\ data.Records \in Seq(CpuidRecord)
    BY <1>2, InputFacts
  <2>2. CASE Whole /\ Distinct
    BY <2>1, <2>2
  <2>3. CASE ~(Whole /\ Distinct)
    BY <2>1, <2>3, NothingFacts
  <2> QED
    BY <2>2, <2>3
<1>4. ParseTypeOK'
  BY <1>1, <1>2, <1>3 DEF ParseTypeOK
<1>5. Whole' = Whole /\ Distinct' = Distinct
  BY <1>1 DEF Whole, Distinct
<1>6. SnapshotExact'
  BY <1>1, <1>4, <1>5 DEF SnapshotExact
<1> QED
  BY <1>1, <1>6 DEF ParseInv, TakenInv, EnterInv, FeatureExact, Returned

LEMMA BadLengthParseInv == ParseInv /\ BadLength => ParseInv'
<1> SUFFICES ASSUME ParseInv, BadLength PROVE ParseInv'
  OBVIOUS
<1>1. data.Size \in Nat
  BY InputFacts DEF ParseInv, SnapshotExact
<1>2. ~Whole
  BY <1>1 DEF BadLength, WholeRecords, Whole
<1> QED
  BY <1>2, LeaveParseInv DEF BadLength

LEMMA StartParseInv == ParseInv /\ StartParse => ParseInv'
<1> SUFFICES ASSUME ParseInv, StartParse PROVE ParseInv'
  OBVIOUS
<1>1. /\ phase = "enter" /\ phase' = "loop" /\ WholeRecords
      /\ UNCHANGED <<data, offset, keys, records, snapshot, status, asked, found>>
  BY DEF StartParse
<1>2. ParseTypeOK
  BY DEF ParseInv, SnapshotExact
<1>3. ParseTypeOK' /\ SnapshotExact'
  BY <1>1, <1>2 DEF ParseTypeOK, SnapshotExact, Returned
<1>4. Whole' /\ Known' = Known /\ Known \in Nat /\ RecordSize \in Nat
  BY <1>1, <1>2, InputFacts DEF Whole, WholeRecords, Known
<1>5. records' = << >> /\ Taken' = 0 /\ keys' = {} /\ offset' = 0
  BY <1>1 DEF ParseInv, EnterInv, Taken
<1>6. TakenInv'
  BY <1>4, <1>5 DEF TakenInv
<1> QED
  BY <1>1, <1>3, <1>6 DEF ParseInv, EnterInv, FeatureExact, Returned

-----------------------------------------------------------------------------
(* Inside the loop Read is the record after those taken.                   *)
LEMMA LoopFacts ==
  ASSUME ParseInv, phase = "loop"
  PROVE  /\ Whole /\ Taken \in Nat /\ Known \in Nat
         /\ offset < data.Size <=> Taken < Known
         /\ Read = data.Records[Taken + 1]
         /\ Taken < Known =>
              /\ Read \in CpuidRecord /\ offset + RecordSize <= data.Size
              /\ offset + RecordSize = (Taken + 1) * RecordSize
              /\ offset + RecordSize \in Nat
<1>1. ParseTypeOK /\ Whole /\ offset = Taken * RecordSize
  BY DEF ParseInv, SnapshotExact, TakenInv
<1>2. /\ data.Size \in Nat /\ RecordSize \in Nat \ {0}
      /\ data.Records \in Seq(CpuidRecord) /\ Known \in Nat
      /\ Known = data.Size \div RecordSize /\ Taken \in Nat
      /\ data.Size % RecordSize = 0
  BY <1>1, InputFacts DEF Whole
<1>3. (Taken * RecordSize) \div RecordSize = Taken
  BY <1>2, RecordAt
<1>4. Taken * RecordSize < data.Size <=> Taken < Known
  BY <1>2, RecordAt
<1>5. Taken + 1 <= Known => /\ (Taken + 1) * RecordSize <= data.Size
                           /\ (Taken + 1) * RecordSize \in Nat
  <2>1. Taken + 1 \in Nat
    BY <1>2
  <2> QED
    BY <1>2, <2>1, RecordAt
<1>6. (Taken + 1) * RecordSize = Taken * RecordSize + RecordSize
  BY <1>2
<1>7. Read = data.Records[Taken + 1]
  BY <1>1, <1>3 DEF Read
<1>8. Taken < Known => data.Records[Taken + 1] \in CpuidRecord
  BY <1>2 DEF Known
<1> QED
  BY <1>1, <1>2, <1>4, <1>5, <1>6, <1>7, <1>8

(* A packed key was met before exactly if the key was.                     *)
LEMMA KeyMet ==
  ASSUME ParseInv, Looping
  PROVE  Pack(Read) \in keys
           <=> \E i \in 1 .. Taken : KeyOf(data.Records[i]) = KeyOf(Read)
<1>1. phase = "loop" /\ offset < data.Size
  BY DEF Looping
<1>2. Taken < Known /\ Taken \in Nat /\ Known \in Nat /\ Read \in CpuidRecord
  BY <1>1, LoopFacts
<1>3. data.Records \in Seq(CpuidRecord)
  BY InputFacts DEF ParseInv, SnapshotExact
<1>4. \A i \in 1 .. Taken : data.Records[i] \in CpuidRecord
  BY <1>2, <1>3 DEF Known
<1>5. keys = { Pack(data.Records[i]) : i \in 1 .. Taken }
  BY <1>1 DEF ParseInv, TakenInv
<1>6. \A i \in 1 .. Taken :
        Pack(data.Records[i]) = Pack(Read) <=> KeyOf(data.Records[i]) = KeyOf(Read)
  BY <1>2, <1>4, PackUnique
<1> QED
  BY <1>5, <1>6

LEMMA DuplicateParseInv == ParseInv /\ Duplicate => ParseInv'
<1> SUFFICES ASSUME ParseInv, Duplicate PROVE ParseInv'
  OBVIOUS
<1>1. Looping /\ phase = "loop" /\ offset < data.Size /\ Pack(Read) \in keys
  BY DEF Duplicate, Looping
<1>2. PICK i \in 1 .. Taken : KeyOf(data.Records[i]) = KeyOf(Read)
  BY <1>1, KeyMet
<1>3. /\ Taken \in Nat /\ Known \in Nat /\ Taken < Known /\ Whole
      /\ Read = data.Records[Taken + 1]
  BY <1>1, LoopFacts
<1>4. ~Distinct
  <2>1. i \in 1 .. Known /\ Taken + 1 \in 1 .. Known /\ i # Taken + 1
    BY <1>3
  <2>2. KeyOf(data.Records[i]) = KeyOf(data.Records[Taken + 1])
    BY <1>2, <1>3
  <2> QED
    BY <2>1, <2>2 DEF Distinct, Known
<1> QED
  BY <1>1, <1>3, <1>4, LeaveParseInv DEF Duplicate

LEMMA AddRecordParseInv == ParseInv /\ AddRecord => ParseInv'
<1> SUFFICES ASSUME ParseInv, AddRecord PROVE ParseInv'
  OBVIOUS
<1>1. /\ Looping /\ phase = "loop" /\ offset < data.Size /\ Pack(Read) \notin keys
      /\ keys' = keys \cup {Pack(Read)} /\ records' = Append(records, Read)
      /\ offset' = offset + RecordSize
      /\ UNCHANGED <<data, snapshot, status, asked, found, phase>>
  BY DEF AddRecord, Looping, Advance
<1>2. /\ ParseTypeOK /\ offset = Taken * RecordSize
      /\ \A i \in 1 .. Taken : records[i] = data.Records[i]
      /\ keys = { Pack(data.Records[i]) : i \in 1 .. Taken }
      /\ \A i, j \in 1 .. Taken :
           KeyOf(data.Records[i]) = KeyOf(data.Records[j]) => i = j
  BY <1>1 DEF ParseInv, SnapshotExact, TakenInv
<1>3. /\ Whole /\ Taken \in Nat /\ Known \in Nat /\ Taken < Known
      /\ Read = data.Records[Taken + 1] /\ Read \in CpuidRecord
      /\ offset + RecordSize <= data.Size
      /\ offset + RecordSize = (Taken + 1) * RecordSize
      /\ offset + RecordSize \in Nat
  BY <1>1, LoopFacts
<1>4. /\ records \in Seq(CpuidRecord) /\ data.Size \in Nat
      /\ records' \in Seq(CpuidRecord) /\ Taken' = Taken + 1
      /\ \A i \in 1 .. Taken : records'[i] = records[i]
      /\ records'[Taken + 1] = Read
  BY <1>1, <1>2, <1>3, InputFacts DEF Taken
<1>5. Pack(Read) \in 0 .. Word * Word - 1
  BY <1>3, PackUnique
<1>6. ParseTypeOK'
  <2>1. keys' \subseteq 0 .. Word * Word - 1
    BY <1>1, <1>2, <1>5 DEF ParseTypeOK
  <2>2. offset' \in 0 .. data'.Size
    BY <1>1, <1>3, <1>4
  <2> QED
    BY <1>1, <1>2, <1>4, <2>1, <2>2 DEF ParseTypeOK
<1>7. /\ Whole' /\ Known' = Known /\ Taken + 1 <= Known
      /\ offset' = Taken' * RecordSize
  BY <1>1, <1>3, <1>4 DEF Whole, Known
<1>8. \A i \in 1 .. Taken' : records'[i] = data'.Records[i]
  <2>1. \A i \in 1 .. Taken + 1 : i \in 1 .. Taken \/ i = Taken + 1
    BY <1>3
  <2> QED
    BY <1>1, <1>2, <1>3, <1>4, <2>1
<1>9. keys' = { Pack(data.Records[i]) : i \in 1 .. Taken + 1 }
  <2>1. 1 .. Taken + 1 = (1 .. Taken) \cup {Taken + 1}
    BY <1>3
  <2> QED
    BY <1>1, <1>2, <1>3, <2>1
<1>10. ASSUME NEW i \in 1 .. Taken + 1, NEW j \in 1 .. Taken + 1,
              KeyOf(data.Records[i]) = KeyOf(data.Records[j])
       PROVE  i = j
  <2>1. \A k \in 1 .. Taken : KeyOf(data.Records[k]) # KeyOf(data.Records[Taken + 1])
    BY <1>1, <1>3, KeyMet
  <2>2. /\ i \in 1 .. Taken \/ i = Taken + 1
        /\ j \in 1 .. Taken \/ j = Taken + 1
    BY <1>3
  <2> QED
    BY <1>2, <1>10, <2>1, <2>2
<1>11. TakenInv'
  <2>1. keys' = { Pack(data'.Records[i]) : i \in 1 .. Taken' }
    BY <1>1, <1>4, <1>9
  <2>2. \A i, j \in 1 .. Taken' :
          KeyOf(data'.Records[i]) = KeyOf(data'.Records[j]) => i = j
    BY <1>1, <1>4, <1>10
  <2> QED
    BY <1>4, <1>7, <1>8, <2>1, <2>2 DEF TakenInv, KeyOf, Pack
<1>12. SnapshotExact' /\ EnterInv' /\ FeatureExact'
  BY <1>1, <1>6 DEF ParseInv, SnapshotExact, EnterInv, FeatureExact, Returned
<1> QED
  BY <1>11, <1>12 DEF ParseInv

LEMMA TryParseParseInv == ParseInv /\ TryParse => ParseInv'
<1> SUFFICES ASSUME ParseInv, TryParse PROVE ParseInv'
  OBVIOUS
<1>1. phase = "loop" /\ ~(offset < data.Size) /\ Leave("Success", Snapshot)
  <2>1. data.Size \in Nat /\ offset \in Nat
    BY InputFacts DEF ParseInv, SnapshotExact
  <2> QED
    BY <2>1 DEF TryParse
<1>2. /\ Whole /\ Taken \in Nat /\ Known \in Nat /\ Taken = Known
  BY <1>1, LoopFacts DEF ParseInv, TakenInv
<1>3. Distinct
  BY <1>1, <1>2 DEF ParseInv, TakenInv, Distinct, Known
<1>4. records = data.Records
  <2>1. /\ records \in Seq(CpuidRecord) /\ data.Records \in Seq(CpuidRecord)
        /\ Len(records) = Len(data.Records)
    BY <1>2, InputFacts DEF ParseInv, SnapshotExact, Taken, Known
  <2>2. \A i \in 1 .. Len(records) : records[i] = data.Records[i]
    BY <1>1 DEF ParseInv, TakenInv, Taken
  <2> QED
    BY <2>1, <2>2
<1> QED
  BY <1>1, <1>2, <1>3, <1>4, LeaveParseInv DEF Snapshot

(* A record found by its key is the only one with it.                      *)
LEMMA IsSupportedParseInv == ParseInv /\ IsSupported => ParseInv'
<1> SUFFICES ASSUME ParseInv, IsSupported PROVE ParseInv'
  OBVIOUS
<1>1. PICK key \in TransportKey, bit \in Bit :
        /\ asked' = [Key |-> key, Bit |-> bit]
        /\ found' = (/\ HasRecord(key)
                     /\ bit \in snapshot.Records[FirstRecord(key)].Bits)
  BY DEF IsSupported
<1>2. /\ phase = "returned" /\ ~snapshot.Null /\ phase' = "asked"
      /\ UNCHANGED <<data, offset, keys, records, snapshot, status>>
  BY DEF IsSupported
<1>3. ParseTypeOK /\ Whole /\ Distinct /\ snapshot.Records = data.Records
  BY <1>2, NothingFacts DEF ParseInv, SnapshotExact, Returned
<1>4. found' \in BOOLEAN /\ asked' \in [Key : TransportKey, Bit : Bit]
  BY <1>1
<1>5. ParseTypeOK'
  BY <1>2, <1>3, <1>4 DEF ParseTypeOK
<1>6. Whole' = Whole /\ Distinct' = Distinct
  BY <1>2 DEF Whole, Distinct
<1>7. SnapshotExact'
  BY <1>2, <1>5, <1>6 DEF ParseInv, SnapshotExact, Returned
<1>8. found' <=> \E i \in 1 .. Len(data.Records) :
                   /\ KeyOf(data.Records[i]) = key
                   /\ bit \in data.Records[i].Bits
  <2>1. CASE HasRecord(key)
    <3>1. PICK i \in 1 .. Len(data.Records) : KeyOf(data.Records[i]) = key
      BY <1>3, <2>1 DEF HasRecord, Matches
    <3>2. \A j \in 1 .. Len(data.Records) : KeyOf(data.Records[j]) = key => j = i
      BY <1>3, <3>1 DEF Distinct
    <3>3. \A j \in 1 .. i - 1 : KeyOf(data.Records[j]) # key
      <4>1. Len(data.Records) \in Nat
        BY <1>3, InputFacts DEF Known
      <4> QED
        BY <3>2, <4>1
    <3>4. FirstRecord(key) = i
      BY <1>3, <3>1, <3>2, <3>3 DEF FirstRecord, Matches
    <3>5. found' <=> bit \in data.Records[i].Bits
      BY <1>1, <1>3, <2>1, <3>4
    <3> QED
      BY <3>1, <3>2, <3>5
  <2>2. CASE ~HasRecord(key)
    BY <1>1, <1>3, <2>2 DEF HasRecord, Matches
  <2> QED
    BY <2>1, <2>2
<1>9. FeatureExact'
  <2>1. asked'.Key = key /\ asked'.Bit = bit
    BY <1>1
  <2>2. data' = data
    BY <1>2
  <2> QED
    BY <1>8, <2>1, <2>2 DEF FeatureExact, KeyOf
<1> QED
  BY <1>2, <1>7, <1>9 DEF ParseInv, TakenInv, EnterInv, Returned

LEMMA ParseStepInv == ParseInv /\ [ParseNext]_parsevars => ParseInv'
<1> SUFFICES ASSUME ParseInv, [ParseNext]_parsevars PROVE ParseInv'
  OBVIOUS
<1>1. CASE ParseNext
  BY <1>1, BadLengthParseInv, StartParseInv, DuplicateParseInv, AddRecordParseInv,
     TryParseParseInv, IsSupportedParseInv DEF ParseNext
<1>2. CASE UNCHANGED parsevars
  <2>1. /\ data' = data /\ offset' = offset /\ keys' = keys /\ records' = records
        /\ snapshot' = snapshot /\ status' = status /\ asked' = asked
        /\ found' = found /\ phase' = phase
    BY <1>2 DEF parsevars
  <2>2. ParseTypeOK'
    BY <2>1 DEF ParseInv, SnapshotExact, ParseTypeOK
  <2>3. SnapshotExact'
    BY <2>1, <2>2 DEF ParseInv, SnapshotExact, Returned, Whole, Distinct
  <2>4. TakenInv'
    BY <2>1 DEF ParseInv, TakenInv, Whole, Taken, Known
  <2>5. EnterInv' /\ FeatureExact'
    BY <2>1 DEF ParseInv, EnterInv, FeatureExact, Returned
  <2> QED
    BY <2>3, <2>4, <2>5 DEF ParseInv
<1> QED
  BY <1>1, <1>2

-----------------------------------------------------------------------------
(* CpuidParser.TryParse gives all records, in the order of the transport,  *)
(* when the bytes are whole records with different keys, and none          *)
(* otherwise.                                                              *)
THEOREM SnapshotsAreExact == ParseSpec => []SnapshotExact
<1>1. ParseInv => SnapshotExact
  BY DEF ParseInv
<1> QED
  BY ParseStartsInv, ParseStepInv, <1>1, PTL DEF ParseSpec

(* IsSupported answers with the bit of the record of that leaf and         *)
(* subleaf.                                                                *)
THEOREM FeaturesAreExact == ParseSpec => []FeatureExact
<1>1. ParseInv => FeatureExact
  BY DEF ParseInv
<1> QED
  BY ParseStartsInv, ParseStepInv, <1>1, PTL DEF ParseSpec

(***************************************************************************)
(* The CpuidDecode program                                                 *)
(***************************************************************************)
Table == 1 .. Len(CpuidFeatureInfo)

(* The rows before the cursor whose bit the processor shows.               *)
Shown(i) ==
  Has(CpuidFeatureInfo[i].Leaf, CpuidFeatureInfo[i].SubLeaf)
    /\ IsSet(CpuidFeatureInfo[i])
PrintedBefore(n) ==
  { CpuidFeatureInfo[i] : i \in { j \in Table : j < n /\ Shown(j) } }

DecodeInv ==
  /\ DecodeTypeOK
  /\ Processor \in Machine
  /\ stage \in {"vendor", "version"} => FeatureIndex = 1 /\ printed = {}
  /\ stage = "features" => printed = PrintedBefore(FeatureIndex)
  /\ stage = "done" /\ Processor.CanExecute =>
       printed = PrintedBefore(Len(CpuidFeatureInfo) + 1)
  /\ stage \in {"version", "features"} => Processor.CanExecute
  /\ Version # << >> =>
       Version = CpuidDecodeVersion(VersionInfo(Processor.Version))

LEMMA TableFacts ==
  /\ Len(CpuidFeatureInfo) \in Nat
  /\ DOMAIN CpuidFeatureInfo = Table
  /\ \A i \in Table : CpuidFeatureInfo[i] \in FeatureRow
BY RowsAssumption DEF Table

LEMMA DecodeStartsInv == DecodeInit => DecodeInv
<1> SUFFICES ASSUME DecodeInit PROVE DecodeInv
  OBVIOUS
<1>1. Processor \in Machine
  BY MachineAssumption DEF DecodeInit
<1>2. DecodeTypeOK
  BY TableFacts DEF DecodeInit, DecodeTypeOK
<1> QED
  BY <1>1, <1>2 DEF DecodeInit, DecodeInv

LEMMA LeavesInv ==
  ASSUME DecodeInv, Unsupported \/ GetVendor \/ PrintVersion
  PROVE  DecodeInv'
<1>1. PrintedBefore(1) = {}
  BY DEF PrintedBefore, Table
<1>2. CASE Unsupported
  BY <1>2 DEF Unsupported, DecodeInv, DecodeTypeOK
<1>3. CASE GetVendor
  BY <1>3 DEF GetVendor, DecodeInv, DecodeTypeOK
<1>4. CASE PrintVersion
  <2>1. PrintedBefore(1)' = {}
    BY DEF PrintedBefore, Table
  <2>2. (printed = PrintedBefore(FeatureIndex))'
    BY <1>4, <2>1 DEF PrintVersion, DecodeInv
  <2>3. (Version # << >> =>
           Version = CpuidDecodeVersion(VersionInfo(Processor.Version)))'
    BY <1>4 DEF PrintVersion, DecodeInv
  <2>4. DecodeTypeOK' /\ stage' = "features" /\ UNCHANGED Processor
        /\ Processor.CanExecute
    BY <1>4 DEF PrintVersion, DecodeInv, DecodeTypeOK
  <2> QED
    BY <2>2, <2>3, <2>4 DEF DecodeInv
<1> QED
  BY <1>2, <1>3, <1>4

(* The rows between the cursor and the next feature visited are not shown. *)
LEMMA PrintFeatureInv ==
  ASSUME DecodeInv, PrintFeature PROVE DecodeInv'
<1>1. PICK i \in Visited :
        /\ \A j \in Visited : i <= j
        /\ printed' = printed \cup {CpuidFeatureInfo[i]}
        /\ FeatureIndex' = i + 1
  BY DEF PrintFeature
<1>2. /\ stage = "features"
      /\ UNCHANGED <<Processor, ReportedLeaf, Version, exit, stage>>
  BY DEF PrintFeature
<1>3. /\ i \in Table /\ FeatureIndex <= i /\ Shown(i)
      /\ FeatureIndex \in 1 .. Len(CpuidFeatureInfo) + 1
  BY TableFacts DEF Visited, Shown, Table, DecodeInv, DecodeTypeOK
<1>4. \A j \in Table : j < i + 1 /\ Shown(j)
                         <=> (j < FeatureIndex /\ Shown(j)) \/ j = i
  <2> SUFFICES ASSUME NEW j \in Table
               PROVE  j < i + 1 /\ Shown(j)
                        <=> (j < FeatureIndex /\ Shown(j)) \/ j = i
    OBVIOUS
  <2>1. Shown(j) /\ FeatureIndex <= j => i <= j
    BY <1>1, <1>3, TableFacts DEF Visited, Shown, Table
  <2> QED
    BY <2>1, <1>3, TableFacts DEF Table
<1>5. PrintedBefore(i + 1) =
        PrintedBefore(FeatureIndex) \cup {CpuidFeatureInfo[i]}
  BY <1>3, <1>4 DEF PrintedBefore
<1>6. (printed = PrintedBefore(FeatureIndex))'
  BY <1>1, <1>2, <1>5 DEF DecodeInv, PrintedBefore, Shown, Has, IsSet, Place, Table
<1>7. DecodeTypeOK'
  BY <1>1, <1>2, <1>3, TableFacts DEF DecodeInv, DecodeTypeOK, Table
<1> QED
  BY <1>2, <1>6, <1>7 DEF DecodeInv

LEMMA FinishInv ==
  ASSUME DecodeInv, Finish PROVE DecodeInv'
<1>1. /\ stage = "features" /\ Visited = {} /\ stage' = "done" /\ exit' = 0
      /\ UNCHANGED <<Processor, ReportedLeaf, Version, FeatureIndex, printed>>
  BY DEF Finish
<1>2. ASSUME NEW j \in Table, Shown(j) PROVE j < FeatureIndex
  BY <1>1, <1>2, TableFacts
  DEF Visited, Shown, Table, DecodeInv, DecodeTypeOK
<1>3. \A j \in Table : j < Len(CpuidFeatureInfo) + 1
  BY TableFacts DEF Table
<1>4. printed = PrintedBefore(Len(CpuidFeatureInfo) + 1)
  BY <1>1, <1>2, <1>3 DEF DecodeInv, PrintedBefore
<1>5. (printed = PrintedBefore(Len(CpuidFeatureInfo) + 1))'
  BY <1>1, <1>4 DEF PrintedBefore, Shown, Has, IsSet, Place, Table
<1>6. DecodeTypeOK'
  BY <1>1 DEF DecodeInv, DecodeTypeOK
<1> QED
  BY <1>1, <1>5, <1>6 DEF DecodeInv

LEMMA DecodeStepInv == DecodeInv /\ [DecodeNext]_decodevars => DecodeInv'
<1> SUFFICES ASSUME DecodeInv, [DecodeNext]_decodevars PROVE DecodeInv'
  OBVIOUS
<1>1. CASE DecodeNext
  BY <1>1, LeavesInv, PrintFeatureInv, FinishInv DEF DecodeNext
<1>2. CASE UNCHANGED decodevars
  BY <1>2
  DEF decodevars, DecodeInv, DecodeTypeOK, PrintedBefore, Shown, Has, IsSet,
      Place, Table
<1> QED
  BY <1>1, <1>2

-----------------------------------------------------------------------------
(* CpuidFeatures.cs repeats CPUID.TypeInfo.h row for row.                  *)
THEOREM TablesAreTheSame == All = CpuidFeatureInfo
<1>1. All01_00_Ecx = Features01_00_Ecx
  BY DEF All01_00_Ecx, Features01_00_Ecx
<1>2. All01_00_Edx = Features01_00_Edx
  BY DEF All01_00_Edx, Features01_00_Edx
<1>3. All07_00_Ebx = Features07_00_Ebx
  BY DEF All07_00_Ebx, Features07_00_Ebx
<1>4. All07_00_Ecx = Features07_00_Ecx
  BY DEF All07_00_Ecx, Features07_00_Ecx
<1>5. All07_00_Edx = Features07_00_Edx
  BY DEF All07_00_Edx, Features07_00_Edx
<1>6. All07_01_Eax = Features07_01_Eax
  BY DEF All07_01_Eax, Features07_01_Eax
<1>7. All07_01_Ebx = Features07_01_Ebx
  BY DEF All07_01_Ebx, Features07_01_Ebx
<1>8. All07_01_Ecx = Features07_01_Ecx
  BY DEF All07_01_Ecx, Features07_01_Ecx
<1>9. All07_01_Edx = Features07_01_Edx
  BY DEF All07_01_Edx, Features07_01_Edx
<1>10. All07_02_Edx = Features07_02_Edx
  BY DEF All07_02_Edx, Features07_02_Edx
<1> QED
  BY <1>1, <1>2, <1>3, <1>4, <1>5, <1>6, <1>7, <1>8, <1>9, <1>10
  DEF All, CpuidFeatureInfo

(* What is printed in the end are the rows at the bit that is set, when    *)
(* the processor has its leaf, and the managed parser reports those too.   *)
LEMMA PrintedAtEnd ==
  ASSUME DecodeInv, stage = "done", Processor.CanExecute
  PROVE  /\ printed = { row \in RowsAt(Processor.Set) :
                          Has(Processor.Set[1], Processor.Set[2]) }
         /\ printed = ManagedFeatures
<1>1. printed = { CpuidFeatureInfo[i] : i \in { j \in Table : Shown(j) } }
  <2>1. \A j \in Table : j < Len(CpuidFeatureInfo) + 1
    BY TableFacts DEF Table
  <2> QED
    BY <2>1 DEF DecodeInv, PrintedBefore
<1>2. Elements(CpuidFeatureInfo) = { CpuidFeatureInfo[i] : i \in Table }
  BY TableFacts DEF Elements
<1>3. printed = { row \in Elements(CpuidFeatureInfo) :
                    Has(row.Leaf, row.SubLeaf) /\ IsSet(row) }
  BY <1>1, <1>2 DEF Shown
<1>4. \A row : IsSet(row) => /\ row.Leaf = Processor.Set[1]
                            /\ row.SubLeaf = Processor.Set[2]
  BY DEF IsSet, Place
<1>5. printed = { row \in RowsAt(Processor.Set) :
                    Has(Processor.Set[1], Processor.Set[2]) }
  <2>1. \A row : Has(row.Leaf, row.SubLeaf) /\ IsSet(row)
           <=> Has(Processor.Set[1], Processor.Set[2]) /\ IsSet(row)
    BY <1>4
  <2> QED
    BY <1>3, <2>1 DEF RowsAt, IsSet
<1>6. \A row \in Elements(CpuidFeatureInfo) : row.Bit < 32
  <2>1. \A row \in FeatureRow : row.Bit \in 0 .. 31
    BY DEF FeatureRow
  <2>2. \A row \in FeatureRow : row.Bit < 32
    BY <2>1
  <2> QED
    BY <1>2, <2>2, TableFacts
<1>7. ManagedFeatures = { row \in Elements(CpuidFeatureInfo) :
                            Has(row.Leaf, row.SubLeaf) /\ IsSet(row) }
  BY <1>6, TablesAreTheSame DEF ManagedFeatures, ManagedSupports
<1> QED
  BY <1>3, <1>5, <1>7

LEMMA FlagsAreExact ==
  ASSUME DecodeInv, RowDeclared(Processor.Set) PROVE FlagsExact
<1> SUFFICES ASSUME stage = "done", Processor.CanExecute PROVE FlagsExact
  BY DEF FlagsExact
<1> QED
  BY PrintedAtEnd DEF FlagsExact, RowDeclared

-----------------------------------------------------------------------------
LEMMA DivMod ==
  ASSUME NEW n \in Nat, NEW w \in Nat \ {0}
  PROVE  /\ n = (n \div w) * w + (n % w)
         /\ n \div w \in Nat /\ n % w \in 0 .. w - 1
OBVIOUS

LEMMA Digits ==
  ASSUME NEW w \in Nat \ {0}, NEW q \in Nat, NEW lo \in 0 .. w - 1
  PROVE  (q * w + lo) \div w = q /\ (q * w + lo) % w = lo
<1> DEFINE n == q * w + lo
           d == n \div w
           r == n % w
<1>1. n = d * w + r /\ d \in Nat /\ r \in 0 .. w - 1
  <2>1. n \in Nat
    OBVIOUS
  <2> QED
    BY <2>1, DivMod
<1> HIDE DEF d, r
<1>2. d = q /\ r = lo
  BY <1>1, PackExact
<1> QED
  BY <1>2 DEF d, r

(* Dividing twice is dividing by the product.                              *)
LEMMA DivTwice ==
  ASSUME NEW n \in Nat, NEW a \in Nat \ {0}, NEW b \in Nat \ {0}
  PROVE n \div (b * a) = (n \div a) \div b
<1> DEFINE q == n \div a
           r == n % a
           d == q \div b
           c == q % b
<1>1. n = q * a + r /\ q \in Nat /\ r \in 0 .. a - 1
  BY DivMod
<1>2. q = d * b + c /\ d \in Nat /\ c \in 0 .. b - 1
  BY <1>1, DivMod
<1> HIDE DEF q, r, d, c
<1>3. n = d * (b * a) + (c * a + r)
  <2>1. (d * b + c) * a = d * (b * a) + c * a
    BY <1>2
  <2> QED
    BY <1>1, <1>2, <2>1
<1>4. c * a + r \in 0 .. b * a - 1
  <2>1. PICK k \in Nat : b = c + 1 + k
    <3>1. b - c - 1 \in Nat /\ b = c + 1 + (b - c - 1)
      BY <1>2
    <3> QED
      BY <3>1
  <2>2. b * a = c * a + a + k * a /\ k * a \in Nat /\ c * a \in Nat
    BY <1>2, <2>1
  <2> QED
    BY <1>1, <2>2
<1>5. b * a \in Nat \ {0}
  OBVIOUS
<1>6. n \div (b * a) = d
  BY <1>2, <1>3, <1>4, <1>5, Digits
<1> QED
  BY <1>6 DEF d, q

(* Extracted from the bits it was put at, every version field is itself.   *)
LEMMA FieldsComeBack ==
  ASSUME NEW v \in VersionFields
  PROVE  /\ FirmwareExtractBits(VersionInfo(v), 0, 4) = v.SteppingId
         /\ FirmwareExtractBits(VersionInfo(v), 4, 4) = v.Model
         /\ FirmwareExtractBits(VersionInfo(v), 8, 4) = v.FamilyId
         /\ FirmwareExtractBits(VersionInfo(v), 12, 2) = v.ProcessorType
         /\ FirmwareExtractBits(VersionInfo(v), 16, 4) = v.ExtendedModelId
         /\ FirmwareExtractBits(VersionInfo(v), 20, 8) = v.ExtendedFamilyId
<1> DEFINE s == v.SteppingId
           m == v.Model
           f == v.FamilyId
           t == v.ProcessorType
           x == v.ExtendedModelId
           e == v.ExtendedFamilyId
           value == VersionInfo(v)
           n5 == e * 16 + x
           n4 == n5 * 16 + t
           n3 == n4 * 16 + f
           n2 == n3 * 16 + m
<1>1. /\ s \in 0 .. 15 /\ m \in 0 .. 15 /\ f \in 0 .. 15 /\ t \in 0 .. 3
      /\ x \in 0 .. 15 /\ e \in 0 .. 255
  BY DEF VersionFields
<1>2. value = e * 2^20 + x * 2^16 + t * 2^12 + f * 2^8 + m * 2^4 + s
  BY DEF VersionInfo
<1>3. /\ FirmwareExtractBits(value, 0, 4) = (value \div 2^0) % 2^4
      /\ FirmwareExtractBits(value, 4, 4) = (value \div 2^4) % 2^4
      /\ FirmwareExtractBits(value, 8, 4) = (value \div 2^8) % 2^4
      /\ FirmwareExtractBits(value, 12, 2) = (value \div 2^12) % 2^2
      /\ FirmwareExtractBits(value, 16, 4) = (value \div 2^16) % 2^4
      /\ FirmwareExtractBits(value, 20, 8) = (value \div 2^20) % 2^8
  BY DEF FirmwareExtractBits
<1> HIDE DEF s, m, f, t, x, e, value
<1>4. value = n2 * 16 + s
  BY <1>1, <1>2, SMT
<1>5. /\ e \in Nat /\ n5 \in Nat /\ n4 \in Nat /\ n3 \in Nat /\ n2 \in Nat
      /\ value \in Nat /\ t \in 0 .. 15
  BY <1>1, <1>4
<1>6. n4 = (n5 * 4) * 4 + t /\ n5 * 4 \in Nat
  BY <1>1, <1>5
<1>7. n5 = e * 16 + x /\ n4 = n5 * 16 + t /\ n3 = n4 * 16 + f /\ n2 = n3 * 16 + m
  OBVIOUS
<1> HIDE DEF n2, n3, n4, n5
<1>8. /\ value \div 16 = n2 /\ n2 \div 16 = n3 /\ n3 \div 16 = n4
      /\ n4 \div 16 = n5 /\ n5 \div 16 = e
  BY <1>1, <1>4, <1>5, <1>7, Digits
<1>9. /\ value % 16 = s /\ n2 % 16 = m /\ n3 % 16 = f /\ n4 % 4 = t
      /\ n5 % 16 = x /\ e % 256 = e
  <2>1. value % 16 = s /\ n2 % 16 = m /\ n3 % 16 = f /\ n5 % 16 = x
    BY <1>1, <1>4, <1>5, <1>7, Digits
  <2>2. n4 % 4 = t
    BY <1>1, <1>6, Digits
  <2> QED
    BY <1>1, <2>1, <2>2
<1>10. value \div 2^0 = value /\ value \div 2^4 = n2
  <2>1. 2^0 = 1 /\ 2^4 = 16
    BY SMT
  <2> QED
    BY <1>5, <1>8, <2>1
<1>11. value \div 2^8 = n3
  <2>1. 2^8 = 16 * 2^4 /\ 2^4 \in Nat \ {0}
    BY SMT
  <2> QED
    BY <1>5, <1>8, <1>10, <2>1, DivTwice
<1>12. value \div 2^12 = n4
  <2>1. 2^12 = 16 * 2^8 /\ 2^8 \in Nat \ {0}
    BY SMT
  <2> QED
    BY <1>5, <1>8, <1>11, <2>1, DivTwice
<1>13. value \div 2^16 = n5
  <2>1. 2^16 = 16 * 2^12 /\ 2^12 \in Nat \ {0}
    BY SMT
  <2> QED
    BY <1>5, <1>8, <1>12, <2>1, DivTwice
<1>14. value \div 2^20 = e
  <2>1. 2^20 = 16 * 2^16 /\ 2^16 \in Nat \ {0}
    BY SMT
  <2> QED
    BY <1>5, <1>8, <1>13, <2>1, DivTwice
<1>15. 2^4 = 16 /\ 2^2 = 4 /\ 2^8 = 256
  BY SMT
<1>16. /\ FirmwareExtractBits(value, 0, 4) = s
       /\ FirmwareExtractBits(value, 4, 4) = m
       /\ FirmwareExtractBits(value, 8, 4) = f
       /\ FirmwareExtractBits(value, 12, 2) = t
       /\ FirmwareExtractBits(value, 16, 4) = x
       /\ FirmwareExtractBits(value, 20, 8) = e
  BY <1>3, <1>9, <1>10, <1>11, <1>12, <1>13, <1>14, <1>15
<1> QED
  BY <1>16 DEF s, m, f, t, x, e, value

(* The 16-bit sums of the display family and model lose nothing.           *)
LEMMA DisplayFits ==
  ASSUME NEW low \in 0 .. 15, NEW high \in 0 .. 255
  PROVE  /\ DisplayFamily(low, high) = low + high
         /\ high \in 0 .. 15 =>
              /\ uint16_t(low + high * 2^4) % 16 = low
              /\ uint16_t(low + high * 2^4) \div 16 = high
<1>1. 2^16 = 65536 /\ 2^4 = 16
  BY SMT
<1>2. (low + high) % 65536 = low + high
  BY SMT
<1>3. high \in 0 .. 15 => (low + high * 16) % 65536 = high * 16 + low
  BY SMT
<1>4. (high * 16 + low) % 16 = low /\ (high * 16 + low) \div 16 = high
  BY Digits
<1>5. DisplayFamily(low, high) = (low + high) % 2^16
  BY DEF DisplayFamily, uint16_t
<1>6. uint16_t(low + high * 2^4) = (low + high * 2^4) % 2^16
  BY DEF uint16_t
<1> QED
  BY <1>1, <1>2, <1>3, <1>4, <1>5, <1>6, SMT

LEMMA VersionsAreExact ==
  ASSUME DecodeInv, FieldsDeclared PROVE VersionExact
<1> DEFINE v == Processor.Version
           value == VersionInfo(v)
<1> SUFFICES ASSUME Version # << >> PROVE VersionExact
  BY DEF VersionExact
<1>1. v \in VersionFields
  BY DEF DecodeInv, Machine
<1>2. DOMAIN v = DOMAIN Extracted
  BY <1>1 DEF VersionFields, Extracted
<1>3. /\ v.SteppingId \in 0 .. 15 /\ v.Model \in 0 .. 15 /\ v.FamilyId \in 0 .. 15
      /\ v.ExtendedModelId \in 0 .. 15 /\ v.ExtendedFamilyId \in 0 .. 255
  BY <1>1 DEF VersionFields
<1>4. /\ FieldAt("SteppingId") = v.SteppingId
      /\ FieldAt("Model") = v.Model
      /\ FieldAt("FamilyId") = v.FamilyId
      /\ FieldAt("ProcessorType") = v.ProcessorType
      /\ FieldAt("ExtendedModelId") = v.ExtendedModelId
      /\ FieldAt("ExtendedFamilyId") = v.ExtendedFamilyId
  <2>1. /\ FieldPlace("SteppingId") = <<0, 4>> /\ FieldPlace("Model") = <<4, 4>>
        /\ FieldPlace("FamilyId") = <<8, 4>>
        /\ FieldPlace("ProcessorType") = <<12, 2>>
        /\ FieldPlace("ExtendedModelId") = <<16, 4>>
        /\ FieldPlace("ExtendedFamilyId") = <<20, 8>>
    BY DEF FieldsDeclared, Extracted
  <2> QED
    BY <1>1, <2>1, FieldsComeBack DEF FieldAt
<1>5. \A name \in DOMAIN v : FieldAt(name) = v[name]
  BY <1>2, <1>4 DEF Extracted
<1>6. Version =
        [ Stepping |-> v.SteppingId,
          DisplayFamily |-> IF v.FamilyId = 15
                            THEN DisplayFamily(v.FamilyId, v.ExtendedFamilyId)
                            ELSE v.FamilyId,
          DisplayModel |-> IF v.FamilyId \in {6, 15}
                           THEN uint16_t(v.Model + v.ExtendedModelId * 2^4)
                           ELSE v.Model ]
  BY <1>1, FieldsComeBack DEF DecodeInv, CpuidDecodeVersion, DisplayModel
<1>7. DisplayFamily(v.FamilyId, v.ExtendedFamilyId)
        = v.FamilyId + v.ExtendedFamilyId
  BY <1>3, DisplayFits
<1>8. /\ uint16_t(v.Model + v.ExtendedModelId * 2^4) % 16 = v.Model
      /\ uint16_t(v.Model + v.ExtendedModelId * 2^4) \div 16
           = v.ExtendedModelId
  <2>1. v.ExtendedModelId \in 0 .. 255
    BY <1>3
  <2> QED
    BY <1>3, <2>1, DisplayFits
<1>9. v.Model % 16 = v.Model /\ v.Model \div 16 = 0
  BY <1>3
<1>10. Version.Stepping = FieldAt("SteppingId")
  BY <1>4, <1>6
<1>11. IF FieldAt("FamilyId") = 15
       THEN Version.DisplayFamily - FieldAt("ExtendedFamilyId") = 15
       ELSE Version.DisplayFamily = FieldAt("FamilyId")
  <2>1. CASE v.FamilyId = 15
    <3>1. Version.DisplayFamily = v.FamilyId + v.ExtendedFamilyId
      BY <1>6, <1>7, <2>1
    <3>2. \A n \in 0 .. 255 : (15 + n) - n = 15
      OBVIOUS
    <3>3. Version.DisplayFamily = 15 + v.ExtendedFamilyId
      BY <2>1, <3>1, Zenon
    <3>4. (15 + v.ExtendedFamilyId) - v.ExtendedFamilyId = 15
      BY <1>3, <3>2, Zenon
    <3>5. Version.DisplayFamily - v.ExtendedFamilyId = 15
      BY <3>3, <3>4, Zenon
    <3> QED
      BY <1>4, <2>1, <3>5, Zenon
  <2>2. CASE v.FamilyId # 15
    BY <1>4, <1>6, <2>2
  <2> QED
    BY <2>1, <2>2
<1>12. /\ Version.DisplayModel % 16 = FieldAt("Model")
       /\ Version.DisplayModel \div 16 =
            IF FieldAt("FamilyId") \in {6, 15} THEN FieldAt("ExtendedModelId") ELSE 0
  <2>1. CASE v.FamilyId \in {6, 15}
    <3>1. Version.DisplayModel = uint16_t(v.Model + v.ExtendedModelId * 2^4)
      BY <1>6, <2>1, Zenon
    <3> QED
      BY <1>4, <1>8, <2>1, <3>1, Zenon
  <2>2. CASE v.FamilyId \notin {6, 15}
    <3>1. Version.DisplayModel = v.Model
      BY <1>6, <2>2, Zenon
    <3> QED
      BY <1>4, <1>9, <2>2, <3>1, Zenon
  <2> QED
    BY <2>1, <2>2, Zenon
<1> QED
  BY <1>5, <1>10, <1>11, <1>12 DEF VersionExact

(* CpuidDecode prints, of the feature bits of every processor, exactly the *)
(* one it shows, under the name the managed parser gives it too, and the   *)
(* version its fields hold: when CPUID.TypeInfo.h has one row for each bit *)
(* CPUID.h declares a flag and CPUID.h declares the version fields where   *)
(* the program extracts them.                                              *)
THEOREM DeclaredFeaturesAgree ==
  ASSUME FieldsDeclared, \A machine \in Processors : RowDeclared(machine.Set)
  PROVE  DecodeSpec => []FeaturesAgree
<1>1. DecodeInit => DecodeInv /\ RowDeclared(Processor.Set)
  BY DecodeStartsInv DEF DecodeInit
<1>2. DecodeInv /\ RowDeclared(Processor.Set) /\ [DecodeNext]_decodevars
        => (DecodeInv /\ RowDeclared(Processor.Set))'
  <2> SUFFICES ASSUME DecodeInv, RowDeclared(Processor.Set),
                      [DecodeNext]_decodevars
               PROVE  DecodeInv' /\ RowDeclared(Processor.Set)'
    OBVIOUS
  <2>1. Processor' = Processor
    BY DEF DecodeNext, Unsupported, GetVendor, PrintVersion, PrintFeature,
           Finish, decodevars
  <2>2. Processor'.Set = Processor.Set
    BY <2>1
  <2>3. RowDeclared(Processor'.Set)
    BY <2>2
  <2> QED
    BY <2>3, DecodeStepInv
<1>3. DecodeInv /\ RowDeclared(Processor.Set) => FeaturesAgree
  BY FlagsAreExact, VersionsAreExact DEF FeaturesAgree, DecodeInv
<1> QED
  BY <1>1, <1>2, <1>3, PTL DEF DecodeSpec
=============================================================================
