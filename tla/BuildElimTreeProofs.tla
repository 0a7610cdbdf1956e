------------------------- MODULE BuildElimTreeProofs ------------------------
(***************************************************************************)
(* First ElimSets, for every number of vertices and every network: what    *)
(* gathering and reducing keep, and that the maximal cliques remain.       *)
(* Then the whole of BNet_BuildElimTree: every family of the network ends  *)
(* up inside one vertex of the tree, for every network and every ordering, *)
(* and the tree is a junction tree when the ordering needs no fill-in: the *)
(* elimination sets have one, RemoveNonCliques preserves that, and         *)
(* Kruskal's loop finds one where there is one.                            *)
(***************************************************************************)
EXTENDS BuildElimTree, Lemmas, FiniteSetTheorems

-----------------------------------------------------------------------------
(***************************************************************************)
(* The inductive invariant, one named part per idea.                       *)
(***************************************************************************)

\* Where the loop indices can be in each phase.
IndexInv ==
  /\ pc = "moralize" => i = N-1
  /\ pc = "gather" => i < N
  /\ pc = "reduce" => 0 <= i /\ i < j
  /\ pc = "done" => i = N

\* The moral graph keeps the arcs of the network, and marries the parents of
\* every vertex MoralGraph has visited.
MoralInv ==
  /\ Skeleton(dag) \subseteq moral
  /\ \A v \in Vertex \ unwed : ConnectAll(Parents(v)) \subseteq moral
  /\ pc # "moralize" => unwed = {}

\* The sets gathered so far are those of the moral graph.
GatherInv ==
  pc = "gather" => \A k \in Vertex : k > i => slots[k] = ElimSetOf(moral, k)

\* No two slots hold the same set.
DistinctInv ==
  pc \in {"reduce", "done"} =>
    \A a, b \in Vertex : a # b /\ slots[a] = slots[b] => slots[a] = NoSet

\* What RemoveNonCliques has compared and found not to be contained.
ScanInv ==
  pc \in {"reduce", "done"} =>
    /\ \A a, b \in Vertex :
         a < i /\ a < b /\ slots[a] # NoSet => ~ Contained(a, b)
    /\ \A b \in Vertex :
         i < b /\ b < j /\ i < N /\ slots[i] # NoSet => ~ Contained(i, b)

IInv == TypeOK /\ IndexInv /\ MoralInv /\ GatherInv /\ FamilyCovered
          /\ DistinctInv /\ ScanInv

-----------------------------------------------------------------------------
(***************************************************************************)
(* Facts about the operators.                                              *)
(***************************************************************************)

\* A non-empty set of vertices has a highest-ranked member.
LEMMA HighestVertex ==
  ASSUME NEW S \in SUBSET Vertex, S # {}
  PROVE  \E m \in S : \A x \in S : x <= m
<1> DEFINE D == {n \in Nat : \E x \in S : n = N - x}
<1>1. D \subseteq Nat /\ D # {}
  <2>1. PICK x \in S : TRUE
    OBVIOUS
  <2>2. N - x \in D
    BY NAssumption DEF Vertex
  <2> QED BY <2>2
<1>2. PICK n \in D : \A k \in D : ~ (<<k, n>> \in OpToRel(<, Nat))
  <2> HIDE DEF D
  <2> QED BY <1>1, WFMin, NatLessThanWellFounded
<1>3. \A k \in D : ~ (k < n)
  BY <1>1, <1>2 DEF OpToRel
<1>4. PICK m \in S : n = N - m
  OBVIOUS
<1>5. ASSUME NEW x \in S
      PROVE  x <= m
  <2>1. N - x \in D
    BY NAssumption DEF Vertex
  <2> QED BY <1>3, <1>4, <2>1, NAssumption DEF Vertex
<1> QED BY <1>5

\* An edge joins two distinct members of the set Graph_ConnectAll is given.
LEMMA ConnectAllEdges ==
  ASSUME NEW S, NEW a \in S, NEW b \in S, a # b
  PROVE  {a, b} \in ConnectAll(S)
BY DEF ConnectAll

\* The list ElimSet_GetVertexList returns is empty, whatever the set.
LEMMA VertexListEmpty ==
  ASSUME NEW S
  PROVE  ConnectAll(VertexList(S)) = {}
BY NAssumption DEF VertexList, ConnectAll

\* An elimination set holds its own vertex and no vertex of a higher rank.
LEMMA ElimSetBounds ==
  ASSUME NEW g, NEW v \in Vertex
  PROVE  /\ ElimSetOf(g, v) \in SUBSET Vertex
         /\ v \in ElimSetOf(g, v)
         /\ \A u \in ElimSetOf(g, v) : u <= v
BY NAssumption DEF ElimSetOf, Neighbors, Vertex

(***************************************************************************)
(* In a graph that keeps the arcs and marries the parents, a family lies   *)
(* in the elimination set of its highest-ranked member.                    *)
(***************************************************************************)
LEMMA FamilyInElimSet ==
  ASSUME TypeOK, NEW v \in Vertex,
         Skeleton(dag) \subseteq moral,
         ConnectAll(Parents(v)) \subseteq moral
  PROVE  \E k \in Vertex : Family(v) \subseteq ElimSetOf(moral, k)
<1>1. Family(v) \in SUBSET Vertex /\ Family(v) # {}
  BY DEF Family, Parents
<1>2. PICK k \in Family(v) : \A x \in Family(v) : x <= k
  BY <1>1, HighestVertex
<1>3. ASSUME NEW x \in Family(v), x # k
      PROVE  {x, k} \in moral
  <2>1. CASE x = v
    <3>1. <<k, v>> \in dag
      BY <2>1, <1>2, <1>3 DEF Family, Parents
    <3>2. {k, v} \in Skeleton(dag)
      BY <3>1 DEF Skeleton
    <3> QED BY <3>2, <2>1
  <2>2. CASE k = v
    <3>1. <<x, v>> \in dag
      BY <2>2, <1>3 DEF Family, Parents
    <3>2. {x, v} \in Skeleton(dag)
      BY <3>1 DEF Skeleton
    <3> QED BY <3>2, <2>2
  <2>3. CASE x # v /\ k # v
    <3>1. x \in Parents(v) /\ k \in Parents(v)
      BY <2>3, <1>2, <1>3 DEF Family
    <3> QED BY <3>1, <1>3, ConnectAllEdges
  <2> QED BY <2>1, <2>2, <2>3
<1>4. ASSUME NEW x \in Family(v)
      PROVE  x \in ElimSetOf(moral, k)
  <2>1. CASE x = k
    BY <2>1 DEF ElimSetOf
  <2>2. CASE x # k
    <3>1. x < k
      BY <2>2, <1>1, <1>2, NAssumption DEF Vertex
    <3>2. x \in Neighbors(moral, k)
      BY <2>2, <1>1, <1>3 DEF Neighbors
    <3> QED BY <3>1, <3>2 DEF ElimSetOf
  <2> QED BY <2>1, <2>2
<1> QED BY <1>1, <1>2, <1>4

-----------------------------------------------------------------------------
LEMMA InitInv == Init => IInv
<1> SUFFICES ASSUME Init PROVE IInv
  OBVIOUS
<1>1. TypeOK
  BY NAssumption, DagsAssumption DEF Init, TypeOK, Vertex, NoSet, Skeleton
<1> QED BY <1>1 DEF Init, IInv, IndexInv, MoralInv, GatherInv, FamilyCovered,
                    DistinctInv, ScanInv

-----------------------------------------------------------------------------
(***************************************************************************)
(* One lemma per part of the invariant, each with one step per action.     *)
(***************************************************************************)
LEMMA StepTypeOK ==
  ASSUME TypeOK, IndexInv, [Next]_vars
  PROVE  TypeOK'
<1> USE NAssumption DEF TypeOK, IndexInv
<1>1. ASSUME NEW v \in Vertex, Marry(v) PROVE TypeOK'
  <2>1. ConnectAll(Parents(v)) \subseteq SUBSET Vertex
    BY DEF ConnectAll, Parents
  <2> QED BY <1>1, <2>1 DEF Marry
<1>2. CASE Moralized BY <1>2 DEF Moralized
<1>3. CASE Gather
  <2>1. i \in Vertex BY <1>3 DEF Gather, Vertex
  <2>2. ElimSetOf(moral, i) \in SUBSET Vertex BY <2>1, ElimSetBounds
  <2>3. moral' = moral BY <1>3, VertexListEmpty DEF Gather
  <2>4. slots' \in [Vertex -> SUBSET Vertex] BY <1>3, <2>2 DEF Gather
  <2>5. i' \in -1 .. N BY <1>3 DEF Gather
  <2> QED BY <1>3, <2>3, <2>4, <2>5 DEF Gather
<1>4. CASE Gathered BY <1>4 DEF Gathered
<1>5. CASE NextSlot BY <1>5 DEF NextSlot
<1>6. CASE NotContained BY <1>6 DEF NotContained
<1>7. CASE ReMap
  <2>1. i \in Vertex /\ j \in Vertex BY <1>7 DEF ReMap, Vertex
  <2> QED BY <1>7, <2>1 DEF ReMap, NoSet
<1>8. CASE Reduced BY <1>8 DEF Reduced
<1>9. CASE UNCHANGED vars BY <1>9 DEF vars
<1> QED BY <1>1, <1>2, <1>3, <1>4, <1>5, <1>6, <1>7, <1>8, <1>9 DEF Next

LEMMA StepIndexInv ==
  ASSUME TypeOK, IndexInv, [Next]_vars
  PROVE  IndexInv'
BY NAssumption
   DEF TypeOK, IndexInv, Next, vars, Marry, Moralized, Gather, Gathered,
       NextSlot, NotContained, ReMap, Reduced

\* The network never changes, and the moral graph only while it is moralized.
LEMMA StepGraphs ==
  ASSUME [Next]_vars
  PROVE  /\ dag' = dag
         /\ \A v : Parents(v)' = Parents(v) /\ Family(v)' = Family(v)
         /\ pc # "moralize" => moral' = moral
         /\ moral \subseteq moral'
BY VertexListEmpty
   DEF Next, vars, Marry, Moralized, Gather, Gathered, NextSlot, NotContained,
       ReMap, Reduced, Parents, Family

LEMMA StepMoralInv ==
  ASSUME TypeOK, MoralInv, [Next]_vars
  PROVE  MoralInv'
<1>1. Skeleton(dag)' \subseteq moral'
  BY StepGraphs DEF MoralInv
<1>2. ASSUME NEW v \in Vertex, Marry(v) PROVE MoralInv'
  BY <1>1, <1>2, StepGraphs DEF Marry, MoralInv, TypeOK
<1>3. CASE ~ \E v \in Vertex : Marry(v)
  <2>1. unwed' = unwed
    BY <1>3 DEF Next, vars, Moralized, Gather, Gathered, NextSlot,
                NotContained, ReMap, Reduced
  <2>2. pc' # "moralize" => unwed = {}
    BY <1>3 DEF Next, vars, Moralized, Gather, Gathered, NextSlot,
                NotContained, ReMap, Reduced, MoralInv
  <2> QED BY <1>1, <2>1, <2>2, StepGraphs DEF MoralInv
<1> QED BY <1>2, <1>3

LEMMA StepGatherInv ==
  ASSUME TypeOK, IndexInv, GatherInv, [Next]_vars
  PROVE  GatherInv'
<1> USE NAssumption DEF TypeOK, IndexInv, GatherInv, Vertex
<1>1. ASSUME NEW v \in Vertex, Marry(v) PROVE GatherInv'
  BY <1>1 DEF Marry
<1>2. CASE Moralized BY <1>2 DEF Moralized
<1>3. CASE Gather
  <2>1. moral' = moral BY <1>3, VertexListEmpty DEF Gather
  <2> SUFFICES ASSUME NEW k \in Vertex, k > i'
               PROVE  slots'[k] = ElimSetOf(moral, k)
    BY <2>1
  <2>2. CASE k = i BY <1>3, <2>2 DEF Gather
  <2>3. CASE k # i BY <1>3, <2>3 DEF Gather
  <2> QED BY <2>2, <2>3
<1>4. CASE Gathered BY <1>4 DEF Gathered
<1>5. CASE NextSlot BY <1>5 DEF NextSlot
<1>6. CASE NotContained BY <1>6 DEF NotContained
<1>7. CASE ReMap BY <1>7 DEF ReMap
<1>8. CASE Reduced BY <1>8 DEF Reduced
<1>9. CASE UNCHANGED vars BY <1>9 DEF vars
<1> QED BY <1>1, <1>2, <1>3, <1>4, <1>5, <1>6, <1>7, <1>8, <1>9 DEF Next

\* When the last set is gathered every slot holds an elimination set.
LEMMA AllGathered ==
  ASSUME GatherInv, Gathered
  PROVE  \A k \in Vertex : slots[k] = ElimSetOf(moral, k)
BY NAssumption DEF GatherInv, Gathered, Vertex

LEMMA StepFamilyCovered ==
  ASSUME TypeOK, IndexInv, MoralInv, GatherInv, FamilyCovered, [Next]_vars
  PROVE  FamilyCovered'
<1> SUFFICES ASSUME pc' \in {"reduce", "done"}, NEW v \in Vertex
             PROVE  \E k \in Vertex : Family(v) \subseteq slots'[k]
  BY StepGraphs DEF FamilyCovered
<1>1. CASE Gathered
  <2>1. Skeleton(dag) \subseteq moral /\ ConnectAll(Parents(v)) \subseteq moral
    BY <1>1 DEF Gathered, MoralInv
  <2>2. PICK k \in Vertex : Family(v) \subseteq ElimSetOf(moral, k)
    BY <2>1, FamilyInElimSet
  <2>3. slots'[k] = ElimSetOf(moral, k)
    BY <1>1, AllGathered DEF Gathered
  <2> QED BY <2>2, <2>3
<1>2. CASE ReMap
  <2>1. PICK k \in Vertex : Family(v) \subseteq slots[k]
    BY <1>2 DEF ReMap, FamilyCovered
  <2>2. i \in Vertex /\ j \in Vertex /\ slots'[i] = slots[j]
    <3>1. i \in Vertex /\ j \in Vertex /\ i # j
      BY <1>2, NAssumption DEF ReMap, TypeOK, IndexInv, Vertex
    <3> QED BY <1>2, <3>1 DEF ReMap, TypeOK
  <2>3. CASE k \in {i, j}
    <3>1. slots[i] \subseteq slots[j]
      BY <1>2 DEF ReMap, Contained
    <3> QED BY <2>1, <2>2, <2>3, <3>1
  <2>4. CASE k \notin {i, j}
    <3>1. slots'[k] = slots[k]
      BY <1>2, <2>4 DEF ReMap, TypeOK
    <3> QED BY <2>1, <3>1
  <2> QED BY <2>3, <2>4
<1>3. CASE ~ Gathered /\ ~ ReMap
  <2>1. pc \in {"reduce", "done"} /\ slots' = slots
    BY <1>3 DEF Next, vars, Marry, Moralized, Gather, NextSlot, NotContained,
                Reduced
  <2> QED BY <2>1 DEF FamilyCovered
<1> QED BY <1>1, <1>2, <1>3

LEMMA StepDistinctInv ==
  ASSUME TypeOK, IndexInv, GatherInv, DistinctInv, [Next]_vars
  PROVE  DistinctInv'
<1> SUFFICES ASSUME pc' \in {"reduce", "done"},
                    NEW a \in Vertex, NEW b \in Vertex,
                    a # b, slots'[a] = slots'[b]
             PROVE  slots'[a] = NoSet
  BY DEF DistinctInv
<1>1. CASE Gathered
  <2>1. slots'[a] = ElimSetOf(moral, a) /\ slots'[b] = ElimSetOf(moral, b)
    BY <1>1, AllGathered DEF Gathered
  <2>2. a <= b /\ b <= a
    BY <2>1, ElimSetBounds
  <2> QED BY <2>2 DEF Vertex
<1>2. CASE ReMap
  <2>1. i \in Vertex /\ j \in Vertex /\ i # j
    BY <1>2, NAssumption DEF ReMap, TypeOK, IndexInv, Vertex
  <2>2. \A k \in Vertex :
          slots'[k] = IF k = j THEN NoSet ELSE IF k = i THEN slots[j] ELSE slots[k]
    BY <1>2, <2>1 DEF ReMap, TypeOK
  <2>3. \A c, d \in Vertex : c # d /\ slots[c] = slots[d] => slots[c] = NoSet
    BY <1>2 DEF ReMap, DistinctInv
  <2> QED BY <2>1, <2>2, <2>3
<1>3. CASE ~ Gathered /\ ~ ReMap
  <2>1. pc \in {"reduce", "done"} /\ slots' = slots
    BY <1>3 DEF Next, vars, Marry, Moralized, Gather, NextSlot, NotContained,
                Reduced
  <2> QED BY <2>1 DEF DistinctInv
<1> QED BY <1>1, <1>2, <1>3

(***************************************************************************)
(* The scan.  A set moved down from slot j into slot i cannot contain a    *)
(* set in a slot a < i, because slot a was compared with slot j.           *)
(***************************************************************************)
LEMMA StepScanInv ==
  ASSUME TypeOK, IndexInv, ScanInv, [Next]_vars
  PROVE  ScanInv'
<1> USE NAssumption DEF TypeOK, IndexInv, Vertex
<1>1. CASE Gathered
  <2>1. i' = 0 /\ j' = 1
    BY <1>1 DEF Gathered
  <2> QED BY <2>1 DEF ScanInv
<1>2. CASE NextSlot
  <2>1. i' = i + 1 /\ j' = i + 2 /\ slots' = slots /\ pc = "reduce"
    BY <1>2 DEF NextSlot
  <2>2. \A a, b \in Vertex :
          a < i' /\ a < b /\ slots[a] # NoSet => ~ Contained(a, b)
    <3> SUFFICES ASSUME NEW a \in Vertex, NEW b \in Vertex,
                        a < i', a < b, slots[a] # NoSet
                 PROVE  ~ Contained(a, b)
      OBVIOUS
    <3>1. CASE a < i BY <2>1, <3>1 DEF ScanInv
    <3>2. CASE a = i BY <1>2, <3>2 DEF NextSlot, ScanInv
    <3> QED BY <2>1, <3>1, <3>2
  <2> QED BY <2>1, <2>2 DEF ScanInv, Contained
<1>3. CASE NotContained
  <2>1. j' = j + 1 /\ i' = i /\ slots' = slots /\ pc = "reduce"
    BY <1>3 DEF NotContained
  <2>2. \A b \in Vertex : i < b /\ b < j' => ~ Contained(i, b)
    <3> SUFFICES ASSUME NEW b \in Vertex, i < b, b < j'
                 PROVE  ~ Contained(i, b)
      OBVIOUS
    <3>1. CASE b < j BY <1>3, <3>1 DEF NotContained, ScanInv
    <3>2. CASE b = j BY <1>3, <3>2 DEF NotContained
    <3> QED BY <2>1, <3>1, <3>2
  <2> QED BY <2>1, <2>2 DEF ScanInv, Contained
<1>4. CASE ReMap
  <2>1. i \in Vertex /\ j \in Vertex /\ i < j /\ pc = "reduce" /\ i' = i /\ j' = i + 1
    BY <1>4 DEF ReMap
  <2>2. \A k \in Vertex :
          slots'[k] = IF k = j THEN NoSet ELSE IF k = i THEN slots[j] ELSE slots[k]
    BY <1>4, <2>1 DEF ReMap
  <2>3. slots[j] # NoSet
    BY <1>4 DEF ReMap, Contained
  <2>4. ASSUME NEW a \in Vertex, NEW b \in Vertex,
               a < i', a < b, slots'[a] # NoSet
        PROVE  ~ Contained(a, b)'
    <3>1. slots'[a] = slots[a] /\ slots[a] # NoSet
      BY <2>1, <2>2, <2>4
    <3>2. ~ Contained(a, b) /\ ~ Contained(a, j)
      BY <2>1, <2>4, <3>1 DEF ScanInv
    <3> QED BY <2>1, <2>2, <2>3, <3>1, <3>2 DEF Contained
  <2>5. \A b \in Vertex : ~ (i' < b /\ b < j') BY <2>1
  <2> QED BY <2>4, <2>5 DEF ScanInv
<1>5. CASE Reduced
  BY <1>5 DEF Reduced, ScanInv, Contained
<1>6. CASE UNCHANGED vars
  BY <1>6 DEF vars, ScanInv, Contained
<1>7. CASE Moralized \/ Gather \/ \E v \in Vertex : Marry(v)
  BY <1>7 DEF Moralized, Gather, Marry, ScanInv
<1> QED BY <1>1, <1>2, <1>3, <1>4, <1>5, <1>6, <1>7 DEF Next

-----------------------------------------------------------------------------
(***************************************************************************)
(* The theorems.                                                           *)
(***************************************************************************)

\* The invariant holds of every state of the pipeline.
LEMMA StepInv == IInv /\ [Next]_vars => IInv'
BY StepTypeOK, StepIndexInv, StepMoralInv, StepGatherInv, StepFamilyCovered,
   StepDistinctInv, StepScanInv DEF IInv

LEMMA Invariance == Spec => []IInv
BY InitInv, StepInv, PTL DEF Spec

\* Every variable of the pipeline keeps its type: in particular no loop index
\* of RemoveNonCliques leaves the array by more than one past its end.
THEOREM TypeCorrect == Spec => []TypeOK
<1>1. IInv => TypeOK BY DEF IInv
<1> QED BY Invariance, <1>1, PTL

\* For every network and ordering, every CPT scope lies inside one surviving
\* elimination set: BNet_InitializePotentials finds a clique for it.
THEOREM FamiliesCovered == Spec => []FamilyCovered
<1>1. IInv => FamilyCovered BY DEF IInv
<1> QED BY Invariance, <1>1, PTL

\* For every network and ordering, no surviving set is contained in a set of
\* a later slot.
THEOREM NothingBelowASuperset == Spec => []NoSetBelowASuperset
<1>1. IInv => NoSetBelowASuperset
  BY DEF IInv, IndexInv, ScanInv, NoSetBelowASuperset, Vertex, TypeOK
<1> QED BY Invariance, <1>1, PTL

\* RemoveNonCliques only moves sets and absorbs contained ones, step by step.
THEOREM AbsorbsOnly == Spec => OnlyAbsorbs
<1> DEFINE Act ==
      pc = "reduce" =>
        /\ Survivors' \subseteq Survivors
        /\ \A S \in Survivors : \E C \in Survivors' : S \subseteq C
        /\ \A a, b \in Vertex : a # b /\ slots'[a] = slots'[b] => slots'[a] = NoSet
<1>1. ASSUME IInv, IInv', [Next]_vars PROVE Act
  <2> SUFFICES ASSUME pc = "reduce" PROVE Act
    OBVIOUS
  <2>1. pc' \in {"reduce", "done"}
    BY <1>1 DEF Next, vars, Marry, Moralized, Gather, Gathered, NextSlot,
                NotContained, ReMap, Reduced
  <2>2. \A a, b \in Vertex : a # b /\ slots'[a] = slots'[b] => slots'[a] = NoSet
    BY <1>1, <2>1 DEF IInv, DistinctInv
  <2>3. CASE ReMap
    <3>1. i \in Vertex /\ j \in Vertex /\ i # j
      BY <1>1, <2>3, NAssumption DEF IInv, ReMap, TypeOK, IndexInv, Vertex
    <3>2. \A k \in Vertex :
            slots'[k] = IF k = j THEN NoSet ELSE IF k = i THEN slots[j] ELSE slots[k]
      BY <1>1, <2>3, <3>1 DEF IInv, ReMap, TypeOK
    <3>3. Survivors' \subseteq Survivors
      BY <3>1, <3>2 DEF Survivors
    <3>4. ASSUME NEW S \in Survivors
          PROVE  \E C \in Survivors' : S \subseteq C
      <4>1. PICK k \in Vertex : S = slots[k] /\ S # NoSet
        BY DEF Survivors
      <4>2. CASE k \in {i, j}
        <5>1. slots'[i] = slots[j] /\ slots[j] # NoSet /\ S \subseteq slots[j]
          BY <2>3, <3>1, <3>2, <4>1, <4>2 DEF ReMap, Contained
        <5> QED BY <3>1, <5>1 DEF Survivors
      <4>3. CASE k \notin {i, j}
        BY <3>2, <4>1, <4>3 DEF Survivors
      <4> QED BY <4>2, <4>3
    <3> QED BY <2>2, <3>3, <3>4
  <2>4. CASE ~ ReMap
    <3>1. slots' = slots
      BY <1>1, <2>4 DEF Next, vars, Marry, Moralized, Gather, Gathered,
                        NextSlot, NotContained, Reduced
    <3> QED BY <2>2, <3>1 DEF Survivors
  <2> QED BY <2>3, <2>4
<1>2. Spec => [][Act]_vars
  <2>1. IInv /\ IInv' /\ [Next]_vars => [Act]_vars
    BY <1>1
  <2> HIDE DEF Act
  <2> QED BY <2>1, Invariance, PTL DEF Spec
<1> QED BY <1>2 DEF OnlyAbsorbs
-----------------------------------------------------------------------------
(***************************************************************************)
(* When the ordering needs no fill-in, what remains are the maximal        *)
(* cliques.  Three more facts are invariant while sets are moved: every    *)
(* survivor is one of the gathered sets, every gathered set lies inside a  *)
(* survivor and, the heart of the argument, a set inside another survivor  *)
(* sits in a LOWER slot than it, where the scan cannot have missed it.     *)
(***************************************************************************)
Origin == \A a \in Vertex :
            slots[a] # NoSet => \E m \in Vertex : slots[a] = ElimSetOf(moral, m)
Kept == \A m \in Vertex : \E k \in Vertex : ElimSetOf(moral, m) \subseteq slots[k]
Ordered == \A a, b \in Vertex :
             slots[a] # NoSet /\ slots[a] \subseteq slots[b] /\ a # b => a < b

CliqueInv ==
  pc \in {"reduce", "done"} => Origin /\ Kept /\ (PerfectOrder(moral) => Ordered)

\* Two members of a complete set are joined by an edge.
LEMMA CompleteEdges ==
  ASSUME NEW g, NEW S, Complete(g, S), NEW a \in S, NEW b \in S, a # b
  PROVE  {a, b} \in g
BY ConnectAllEdges DEF Complete

\* In a perfect ordering the elimination sets inside a common one form a chain.
LEMMA Chain ==
  ASSUME NEW g, PerfectOrder(g), NEW x \in Vertex, NEW t \in Vertex, NEW c \in Vertex,
         ElimSetOf(g, x) \subseteq ElimSetOf(g, c),
         ElimSetOf(g, t) \subseteq ElimSetOf(g, c), x <= t
  PROVE  ElimSetOf(g, x) \subseteq ElimSetOf(g, t)
<1>1. Complete(g, ElimSetOf(g, c)) /\ t \in ElimSetOf(g, c)
  BY ElimSetBounds DEF PerfectOrder
<1> SUFFICES ASSUME NEW u \in ElimSetOf(g, x), u # t
             PROVE  u \in ElimSetOf(g, t)
  BY ElimSetBounds
<1>2. u \in Vertex /\ u <= x /\ u \in ElimSetOf(g, c)
  BY ElimSetBounds
<1>3. {u, t} \in g
  BY <1>1, <1>2, CompleteEdges
<1> QED BY <1>2, <1>3, NAssumption DEF ElimSetOf, Neighbors, Vertex

LEMMA StepCliqueInv ==
  ASSUME IInv, CliqueInv, [Next]_vars
  PROVE  CliqueInv'
<1> USE NAssumption
<1> SUFFICES ASSUME pc' \in {"reduce", "done"}
             PROVE  (Origin /\ Kept /\ (PerfectOrder(moral) => Ordered))'
  BY DEF CliqueInv
<1>1. CASE Gathered
  <2>1. \A k \in Vertex : slots'[k] = ElimSetOf(moral, k) /\ moral' = moral
    BY <1>1, AllGathered DEF Gathered, IInv
  <2>2. Ordered'
    <3> SUFFICES ASSUME NEW a \in Vertex, NEW b \in Vertex, a # b,
                        slots'[a] \subseteq slots'[b]
                 PROVE  a < b
      BY DEF Ordered
    <3>1. a <= b BY <2>1, ElimSetBounds
    <3> QED BY <3>1 DEF Vertex
  <2> QED BY <2>1, <2>2 DEF Origin, Kept
<1>2. CASE ReMap
  <2>1. /\ i \in Vertex /\ j \in Vertex /\ i < j
        /\ pc = "reduce" /\ moral' = moral
        /\ slots[i] # NoSet /\ Contained(i, j)
    BY <1>2 DEF IInv, ReMap, TypeOK, IndexInv, Vertex
  <2>2. \A k \in Vertex :
          slots'[k] = IF k = j THEN NoSet ELSE IF k = i THEN slots[j] ELSE slots[k]
    <3>1. i # j BY <2>1 DEF Vertex
    <3> QED BY <1>2, <2>1, <3>1 DEF IInv, ReMap, TypeOK
  <2>3. Origin /\ Kept
    BY <2>1 DEF CliqueInv
  <2>4. Origin'
    BY <2>1, <2>2, <2>3 DEF Origin
  <2>5. Kept'
    <3> SUFFICES ASSUME NEW m \in Vertex
                 PROVE  \E k \in Vertex : ElimSetOf(moral, m) \subseteq slots'[k]
      BY <2>1 DEF Kept
    <3>1. PICK k \in Vertex : ElimSetOf(moral, m) \subseteq slots[k]
      BY <2>3 DEF Kept
    <3>2. CASE k \in {i, j}
      <4>1. slots'[i] = slots[j] BY <2>1, <2>2 DEF Vertex
      <4> QED BY <2>1, <3>1, <3>2, <4>1 DEF Contained
    <3>3. CASE k \notin {i, j} BY <2>2, <3>1, <3>3
    <3> QED BY <3>2, <3>3
  <2>6. ASSUME PerfectOrder(moral) PROVE Ordered'
    <3> SUFFICES ASSUME NEW a \in Vertex, NEW b \in Vertex, a # b,
                        slots'[a] # NoSet, slots'[a] \subseteq slots'[b]
                 PROVE  a < b
      BY DEF Ordered
    <3>1. Ordered /\ a # j /\ b # j
      BY <2>1, <2>2, <2>6 DEF CliqueInv, NoSet
    <3>2. CASE a # i /\ b # i
      BY <2>2, <3>1, <3>2 DEF Ordered
    <3>3. CASE a = i
      <4>1. slots[j] # NoSet /\ slots[j] \subseteq slots[b]
        BY <2>1, <2>2, <3>1, <3>3
      <4>2. j < b BY <2>1, <3>1, <4>1 DEF Ordered
      <4> QED BY <2>1, <3>3, <4>2 DEF Vertex
    <3>4. CASE b = i
      <4>1. slots[a] # NoSet /\ slots[a] \subseteq slots[j] /\ a # i
        BY <2>1, <2>2, <3>1, <3>4
      <4>2. PICK t \in Vertex : slots[a] = ElimSetOf(moral, t)
        BY <2>3, <4>1 DEF Origin
      <4>3. PICK x \in Vertex : slots[i] = ElimSetOf(moral, x)
        BY <2>1, <2>3 DEF Origin
      <4>4. PICK c \in Vertex : slots[j] = ElimSetOf(moral, c)
        BY <2>1, <2>3 DEF Origin, Contained
      <4>5. slots[i] \subseteq slots[a] \/ slots[a] \subseteq slots[i]
        <5>1. CASE x <= t
          BY <2>1, <2>6, <4>1, <4>2, <4>3, <4>4, <5>1, Chain DEF Contained
        <5>2. CASE t <= x
          BY <2>1, <2>6, <4>1, <4>2, <4>3, <4>4, <5>2, Chain DEF Contained
        <5> QED BY <5>1, <5>2 DEF Vertex
      <4>6. CASE slots[a] \subseteq slots[i]
        BY <3>1, <3>4, <4>1, <4>6, <2>1 DEF Ordered
      <4>7. CASE slots[i] \subseteq slots[a]
        <5>1. a < j BY <2>1, <3>1, <4>1 DEF Ordered
        <5>2. ~ (i < a)
          BY <2>1, <4>1, <4>7, <5>1 DEF IInv, ScanInv, Contained, TypeOK, Vertex
        <5> QED BY <2>1, <3>4, <4>1, <5>2 DEF Vertex
      <4> QED BY <4>5, <4>6, <4>7
    <3> QED BY <3>2, <3>3, <3>4
  <2> QED BY <2>1, <2>4, <2>5, <2>6
<1>3. CASE ~ Gathered /\ ~ ReMap
  <2>1. pc \in {"reduce", "done"} /\ slots' = slots /\ moral' = moral
    BY <1>3, VertexListEmpty
       DEF Next, vars, Marry, Moralized, Gather, NextSlot, NotContained, Reduced
  <2> QED BY <2>1 DEF CliqueInv, Origin, Kept, Ordered
<1> QED BY <1>1, <1>2, <1>3

\* A complete set lies in the elimination set of its highest-ranked member.
LEMMA CompleteInElimSet ==
  ASSUME NEW g, NEW S \in SUBSET Vertex, S # {}, Complete(g, S)
  PROVE  \E k \in S : S \subseteq ElimSetOf(g, k)
<1>1. PICK k \in S : \A x \in S : x <= k
  BY HighestVertex
<1>2. ASSUME NEW x \in S PROVE x \in ElimSetOf(g, k)
  <2>1. CASE x = k BY <2>1 DEF ElimSetOf
  <2>2. CASE x # k
    <3>1. {x, k} \in g BY <2>2, CompleteEdges
    <3> QED BY <1>1, <2>2, <3>1, NAssumption DEF ElimSetOf, Neighbors, Vertex
  <2> QED BY <2>1, <2>2
<1> QED BY <1>2

LEMMA SurvivorsAreMaximal ==
  ASSUME IInv, CliqueInv, pc = "done", PerfectOrder(moral)
  PROVE  Survivors = MaximalCliques(moral)
<1> USE NAssumption
<1>1. Origin /\ Kept /\ Ordered
  BY DEF CliqueInv
<1>2. \A a, b \in Vertex : a < b /\ slots[a] # NoSet => ~ Contained(a, b)
  BY DEF IInv, ScanInv, IndexInv, Vertex
<1>3. ASSUME NEW C \in Survivors PROVE C \in MaximalCliques(moral)
  <2>1. PICK a \in Vertex : C = slots[a] /\ slots[a] # NoSet
    BY DEF Survivors
  <2>2. PICK m \in Vertex : C = ElimSetOf(moral, m)
    BY <1>1, <2>1 DEF Origin
  <2>3. C \in SUBSET Vertex /\ C # {} /\ Complete(moral, C)
    BY <2>2, ElimSetBounds DEF PerfectOrder
  <2>4. ASSUME NEW v \in Vertex \ C, Complete(moral, C \cup {v}) PROVE FALSE
    <3>1. PICK k \in C \cup {v} : C \cup {v} \subseteq ElimSetOf(moral, k)
      BY <2>3, <2>4, CompleteInElimSet
    <3>2. PICK b \in Vertex : C \cup {v} \subseteq slots[b]
      BY <1>1, <2>3, <3>1 DEF Kept
    <3>3. a # b /\ slots[b] # NoSet
      BY <2>1, <2>4, <3>2 DEF NoSet
    <3>4. a < b
      BY <1>1, <2>1, <3>2, <3>3 DEF Ordered
    <3> QED BY <1>2, <2>1, <3>2, <3>3, <3>4 DEF Contained
  <2> QED BY <2>3, <2>4 DEF MaximalCliques
<1>4. ASSUME NEW C \in MaximalCliques(moral) PROVE C \in Survivors
  <2>1. C \in SUBSET Vertex /\ C # {} /\ Complete(moral, C)
    BY DEF MaximalCliques
  <2>2. PICK k \in C : C \subseteq ElimSetOf(moral, k)
    BY <2>1, CompleteInElimSet
  <2>3. PICK b \in Vertex : C \subseteq slots[b]
    BY <1>1, <2>1, <2>2 DEF Kept
  <2>4. slots[b] # NoSet
    BY <2>1, <2>3 DEF NoSet
  <2>5. PICK m \in Vertex : slots[b] = ElimSetOf(moral, m)
    BY <1>1, <2>4 DEF Origin
  <2>6. Complete(moral, slots[b]) /\ slots[b] \in SUBSET Vertex
    BY <2>5, ElimSetBounds DEF PerfectOrder
  <2>7. ASSUME NEW v \in slots[b], v \notin C PROVE FALSE
    <3>1. ConnectAll(C \cup {v}) \subseteq ConnectAll(slots[b])
      BY <2>3, <2>7 DEF ConnectAll
    <3>2. Complete(moral, C \cup {v})
      BY <2>6, <3>1 DEF Complete
    <3> QED BY <2>6, <2>7, <3>2 DEF MaximalCliques
  <2> QED BY <2>3, <2>4, <2>7 DEF Survivors
<1> QED BY <1>3, <1>4

\* For every network whose ordering needs no fill-in, RemoveNonCliques leaves
\* exactly the maximal cliques of the moral graph.
THEOREM CliquesRemain == Spec => []CliquesWhenPerfect
<1>1. Init => CliqueInv
  BY DEF Init, CliqueInv
<1>2. IInv /\ CliqueInv /\ [Next]_vars => CliqueInv'
  BY StepCliqueInv
<1>3. IInv /\ CliqueInv => CliquesWhenPerfect
  BY SurvivorsAreMaximal DEF CliquesWhenPerfect
<1> QED BY Invariance, <1>1, <1>2, <1>3, PTL DEF Spec

-----------------------------------------------------------------------------
(***************************************************************************)
(* From the elimination sets to the tree.                                  *)
(***************************************************************************)

\* What is proved of ElimTree for any collection, of the collection here.
TP == INSTANCE ElimTreeProofs WITH
        Size <- N, Variable <- Vertex, Collections <- [Vertex -> SUBSET Vertex],
        esc <- slots

\* The slots passed have their vertices, and the edges come after all of them.
PassedInv ==
  /\ pc # "done" => T!InitTree
  /\ pc = "done" =>
       /\ next \in 0 .. N
       /\ stage # "vertices" => next = N
       /\ \A k \in Vertex : k < next /\ slots[k] # NoSet => slots[k] \in T!Cliques
       /\ T!Cliques \subseteq Survivors

\* The collection does not change once the tree is begun.
LEMMA SetsUndisturbed == NextAll => [Next]_vars
BY DEF NextAll, CollectSets, CreateTree

LEMMA PassedInit == InitAll => PassedInv
BY DEF InitAll, Init, PassedInv

LEMMA PassedStep ==
  ASSUME PassedInv, [NextAll]_allVars
  PROVE  PassedInv'
<1>1. CASE CollectSets
  <2>1. pc # "done" /\ next' = next
    BY <1>1 DEF CollectSets, treeVars, Next, Marry, Moralized, Gather, Gathered,
                NextSlot, NotContained, ReMap, Reduced
  <2>2. T!InitTree /\ T!InitTree'
    BY <1>1, <2>1 DEF PassedInv, CollectSets, treeVars, T!InitTree
  <2> QED BY <2>2, NAssumption DEF PassedInv, T!InitTree, T!Cliques, Vertex
<1>2. CASE CreateTree
  <2>1. /\ pc = "done" /\ pc' = "done" /\ slots' = slots /\ T!Next
        /\ next \in 0 .. N /\ (stage # "vertices" => next = N)
        /\ \A k \in Vertex : k < next /\ slots[k] # NoSet => slots[k] \in T!Cliques
        /\ T!Cliques \subseteq Survivors /\ Survivors' = Survivors
    BY <1>2 DEF CreateTree, vars, PassedInv, Survivors
  <2>2. CASE T!AddVertex
    <3>1. /\ stage = "vertices" /\ stage' = stage /\ next < N /\ next' = next + 1
          /\ rep' = IF slots[next] = {} THEN rep ELSE T!WithSet(rep, slots[next])
      BY <2>2 DEF T!AddVertex, T!NoSet
    <3>2. T!Cliques \subseteq DOMAIN rep'
      BY <3>1 DEF T!Cliques, T!WithSet
    <3>3. slots[next] # {} => slots[next] \in DOMAIN rep'
      BY <3>1 DEF T!WithSet
    <3>4. \A k \in Vertex : k < next' /\ slots[k] # NoSet => slots[k] \in DOMAIN rep'
      <4> SUFFICES ASSUME NEW k \in Vertex, k < next + 1, slots[k] # {}
                   PROVE  slots[k] \in DOMAIN rep'
        BY <3>1 DEF NoSet
      <4>1. k < next \/ k = next BY <2>1, NAssumption DEF Vertex
      <4> QED BY <2>1, <3>2, <3>3, <4>1 DEF NoSet
    <3>5. next' \in 0 .. N BY <2>1, <3>1, NAssumption
    <3>6. T!Cliques' \subseteq Survivors
      <4>1. T!Cliques' \subseteq T!Cliques \cup ({slots[next]} \ {{}})
        BY <3>1 DEF T!Cliques, T!WithSet
      <4>2. next \in Vertex BY <2>1, <3>1, NAssumption DEF Vertex
      <4> QED BY <2>1, <4>1, <4>2 DEF Survivors, NoSet
    <3> QED BY <2>1, <3>1, <3>4, <3>5, <3>6 DEF PassedInv, T!Cliques
  <2>3. ASSUME stage' = stage \/ next = N, next' = next, DOMAIN rep' = DOMAIN rep
        PROVE  PassedInv'
    BY <2>1, <2>3 DEF PassedInv, T!Cliques
  <2>4. CASE T!SortCandidates BY <2>3, <2>4 DEF T!SortCandidates
  <2>5. ASSUME NEW u \in T!Cliques, NEW v \in T!Cliques, T!Reject(u, v)
        PROVE  PassedInv'
    BY <2>3, <2>5 DEF T!Reject
  <2>6. ASSUME NEW u \in T!Cliques, NEW v \in T!Cliques, T!Join(u, v)
        PROVE  PassedInv'
    <3>1. DOMAIN rep' = DOMAIN rep BY <2>6 DEF T!Join, T!Unions, T!Merged
    <3> QED BY <2>1, <2>3, <2>6, <3>1 DEF T!Join
  <2>7. CASE T!Exhausted BY <2>1, <2>3, <2>7 DEF T!Exhausted
  <2> QED BY <2>1, <2>2, <2>4, <2>5, <2>6, <2>7 DEF T!Next
<1>3. CASE UNCHANGED allVars
  BY <1>3 DEF allVars, vars, treeVars, PassedInv, T!InitTree, T!Cliques, Survivors
<1> QED BY <1>1, <1>2, <1>3 DEF NextAll

(***************************************************************************)
(* BNet_InitializePotentials finds a clique for every CPT, whatever the    *)
(* network and the elimination ordering.                                   *)
(***************************************************************************)
THEOREM FamiliesHoused == SpecAll => []FamilyHoused
<1>1. SpecAll => [](IInv /\ PassedInv)
  <2>1. InitAll => IInv /\ PassedInv BY InitInv, PassedInit DEF InitAll
  <2>2. IInv /\ PassedInv /\ [NextAll]_allVars => (IInv /\ PassedInv)'
    <3>1. [NextAll]_allVars => [Next]_vars BY SetsUndisturbed DEF allVars
    <3> QED BY <3>1, StepInv, PassedStep
  <2> QED BY <2>1, <2>2, PTL DEF SpecAll
<1>2. IInv /\ PassedInv => FamilyHoused
  <2> SUFFICES ASSUME IInv, PassedInv, Built, NEW v \in Vertex
               PROVE  \E S \in T!Cliques : Family(v) \subseteq S
    BY DEF FamilyHoused
  <2>1. pc = "done" /\ next = N
    BY DEF PassedInv, Built, T!InitTree
  <2>2. PICK k \in Vertex : Family(v) \subseteq slots[k]
    BY <2>1 DEF IInv, FamilyCovered
  <2>3. v \in slots[k] /\ k < next BY <2>1, <2>2, NAssumption DEF Family, Vertex
  <2>4. slots[k] \in T!Cliques BY <2>1, <2>3 DEF PassedInv, NoSet
  <2> QED BY <2>2, <2>4
<1> QED BY <1>1, <1>2, PTL

-----------------------------------------------------------------------------
(***************************************************************************)
(* In a perfect ordering the elimination sets have a junction tree: the    *)
(* set of vertex k hangs from the set of the highest-ranked of its other   *)
(* members, which holds all of them.                                       *)
(***************************************************************************)
ElimSetsBelow(g, k) == {ElimSetOf(g, m) : m \in {x \in Vertex : x < k}}

LEMMA HangsBelow ==
  ASSUME NEW g, PerfectOrder(g), NEW m \in Vertex, m # 0
  PROVE  \E d \in ElimSetsBelow(g, m) :
           \A S \in ElimSetsBelow(g, m) : ElimSetOf(g, m) \cap S \subseteq d
<1> USE NAssumption
<1> DEFINE R == ElimSetOf(g, m) \ {m}
<1>1. \A S \in ElimSetsBelow(g, m) : ElimSetOf(g, m) \cap S \subseteq R
  <2> SUFFICES ASSUME NEW k \in Vertex, k < m PROVE m \notin ElimSetOf(g, k)
    BY DEF ElimSetsBelow
  <2>1. \A u \in ElimSetOf(g, k) : u <= k BY ElimSetBounds
  <2> QED BY <2>1 DEF Vertex
<1>2. CASE R = {}
  <2>1. ElimSetOf(g, 0) \in ElimSetsBelow(g, m) BY DEF ElimSetsBelow, Vertex
  <2> QED BY <1>1, <1>2, <2>1
<1>3. CASE R # {}
  <2>1. R \in SUBSET Vertex BY ElimSetBounds
  <2>2. PICK p \in R : \A x \in R : x <= p
    <3> HIDE DEF R
    <3> QED BY <1>3, <2>1, HighestVertex
  <2>3. p \in Vertex /\ p < m
    <3>1. p <= m /\ p # m /\ p \in Vertex BY <2>1, ElimSetBounds
    <3> QED BY <3>1 DEF Vertex
  <2>4. ElimSetOf(g, p) \in ElimSetsBelow(g, m) BY <2>3 DEF ElimSetsBelow
  <2>5. ASSUME NEW x \in R PROVE x \in ElimSetOf(g, p)
    <3>1. CASE x = p BY <3>1 DEF ElimSetOf
    <3>2. CASE x # p
      <4>1. Complete(g, ElimSetOf(g, m)) BY DEF PerfectOrder
      <4>2. {x, p} \in g BY <3>2, <4>1, CompleteEdges
      <4>3. x \in Vertex /\ x <= p BY <2>1, <2>2
      <4>4. x < p BY <2>3, <3>2, <4>3 DEF Vertex
      <4> QED BY <3>2, <4>2, <4>3, <4>4 DEF ElimSetOf, Neighbors
    <3> QED BY <3>1, <3>2
  <2>6. R \subseteq ElimSetOf(g, p) BY <2>5
  <2> HIDE DEF R
  <2> QED BY <1>1, <2>4, <2>6
<1> QED BY <1>2, <1>3

LEMMA ElimSetsHaveOne ==
  ASSUME NEW g, PerfectOrder(g), NEW k \in 0 .. N
  PROVE  \E J : JunctionTreeOver(ElimSetsBelow(g, k), J)
<1> USE NAssumption
<1> DEFINE Has(n) == \E J : JunctionTreeOver(ElimSetsBelow(g, n), J)
           Bad == {n \in Nat : n <= N /\ ~ Has(n)}
<1> SUFFICES ASSUME Bad # {} PROVE FALSE
  OBVIOUS
<1>1. PICK n \in Bad : \A x \in Bad : ~ (<<x, n>> \in OpToRel(<, Nat))
  <2>1. Bad \subseteq Nat OBVIOUS
  <2> HIDE DEF Bad
  <2> QED BY <2>1, WFMin, NatLessThanWellFounded
<1>2. n \in Nat /\ n <= N /\ ~ Has(n) OBVIOUS
<1>3. \A x \in Nat : x < n => Has(x)
  <2>1. n \in Nat /\ \A x \in Bad : x \in Nat /\ ~ (x < n)
    <3>1. \A x \in Bad : x \in Nat OBVIOUS
    <3> HIDE DEF Bad
    <3> QED BY <1>1, <1>2, <3>1 DEF OpToRel
  <2> SUFFICES ASSUME NEW x \in Nat, x < n, ~ Has(x) PROVE FALSE
    OBVIOUS
  <2> HIDE DEF Has
  <2>2. x <= N BY <1>2
  <2>3. x \in Bad BY <2>2
  <2> QED BY <2>1, <2>3
<1>4. n # 0
  <2> SUFFICES ASSUME n = 0 PROVE FALSE
    OBVIOUS
  <2>1. ElimSetsBelow(g, 0) = {} BY DEF ElimSetsBelow, Vertex
  <2> QED BY <1>2, <2>1, LonelyJunctionTree
<1> DEFINE m == n - 1
           E == ElimSetOf(g, m)
           F == ElimSetsBelow(g, m)
<1>5. m \in Vertex /\ m < n BY <1>2, <1>4 DEF Vertex
<1>6. ElimSetsBelow(g, n) = F \cup {E}
  <2>1. {x \in Vertex : x < n} = {x \in Vertex : x < m} \cup {m}
    BY <1>2, <1>5 DEF Vertex
  <2> QED BY <2>1 DEF ElimSetsBelow
<1>7. CASE m = 0
  <2>1. F = {} BY <1>7 DEF ElimSetsBelow, Vertex
  <2>2. \A u, v \in ElimSetsBelow(g, n) : u = v BY <1>6, <2>1
  <2> QED BY <1>2, <2>2, LonelyJunctionTree
<1>8. CASE m # 0
  <2>1. PICK J : JunctionTreeOver(F, J)
    <3>1. m \in Nat BY <1>5 DEF Vertex
    <3>2. Has(m)
      <4> HIDE DEF Has
      <4> QED BY <1>3, <1>5, <3>1
    <3> QED BY <3>2
  <2>2. PICK d \in F : \A S \in F : E \cap S \subseteq d
    BY <1>5, <1>8, HangsBelow
  <2>3. E \notin F
    <3> SUFFICES ASSUME NEW x \in Vertex, x < m PROVE E # ElimSetOf(g, x)
      BY DEF ElimSetsBelow
    <3>1. m \in E /\ \A u \in ElimSetOf(g, x) : u <= x BY <1>5, ElimSetBounds
    <3> HIDE DEF E
    <3> QED BY <1>5, <3>1 DEF Vertex
  <2> HIDE DEF E, F
  <2>4. JunctionTreeOver(F \cup {E}, J \cup {{E, d}})
    BY <2>1, <2>2, <2>3, LeafIsJunctionTree
  <2> QED BY <1>2, <1>6, <2>4
<1> QED BY <1>7, <1>8

(***************************************************************************)
(* RemoveNonCliques keeps it so: the set it drops is inside another.       *)
(***************************************************************************)
SurvivorsHaveOne ==
  pc \in {"reduce", "done"} /\ PerfectOrder(moral) =>
    \E J : JunctionTreeOver(Survivors, J)

LEMMA StepSurvivors ==
  ASSUME IInv, SurvivorsHaveOne, [Next]_vars
  PROVE  SurvivorsHaveOne'
<1> USE NAssumption
<1> SUFFICES ASSUME pc' \in {"reduce", "done"}, PerfectOrder(moral')
             PROVE  \E J : JunctionTreeOver(Survivors', J)
  BY DEF SurvivorsHaveOne, PerfectOrder
<1>1. CASE Gathered
  <2>1. moral' = moral /\ \A k \in Vertex : slots'[k] = ElimSetOf(moral, k)
    BY <1>1, AllGathered DEF Gathered, IInv
  <2>2. \A k \in Vertex : ElimSetOf(moral, k) # NoSet BY ElimSetBounds DEF NoSet
  <2>3. Survivors' = ElimSetsBelow(moral, N)
    <3>1. {x \in Vertex : x < N} = Vertex BY DEF Vertex
    <3> QED BY <2>1, <2>2, <3>1 DEF Survivors, ElimSetsBelow
  <2> QED BY <2>1, <2>3, ElimSetsHaveOne
<1>2. CASE ReMap
  <2>1. /\ i \in Vertex /\ j \in Vertex /\ i # j
        /\ pc = "reduce" /\ moral' = moral
        /\ slots[i] # NoSet /\ Contained(i, j)
    BY <1>2 DEF IInv, ReMap, TypeOK, IndexInv, Vertex
  <2>2. \A k \in Vertex :
          slots'[k] = IF k = j THEN NoSet ELSE IF k = i THEN slots[j] ELSE slots[k]
    BY <1>2, <2>1 DEF IInv, ReMap, TypeOK
  <2>3. \A a, b \in Vertex : a # b /\ slots[a] = slots[b] => slots[a] = NoSet
    BY <2>1 DEF IInv, DistinctInv
  <2>4. /\ slots[i] \in Survivors /\ slots[j] \in Survivors
        /\ slots[i] # slots[j] /\ slots[i] \subseteq slots[j]
    BY <2>1, <2>3 DEF Survivors, Contained
  <2>5. Survivors' = Survivors \ {slots[i]}
    <3>1. ASSUME NEW S \in Survivors' PROVE S \in Survivors \ {slots[i]}
      BY <2>1, <2>2, <2>3, <2>4 DEF Survivors
    <3>2. ASSUME NEW S \in Survivors \ {slots[i]} PROVE S \in Survivors'
      BY <2>1, <2>2 DEF Survivors
    <3> QED BY <3>1, <3>2
  <2>6. PICK J : JunctionTreeOver(Survivors, J) BY <2>1 DEF SurvivorsHaveOne
  <2> QED BY <2>4, <2>5, <2>6, ContainedAbsorbed
<1>3. CASE ~ Gathered /\ ~ ReMap
  <2>1. pc \in {"reduce", "done"} /\ slots' = slots /\ moral' = moral
    BY <1>3, VertexListEmpty
       DEF Next, vars, Marry, Moralized, Gather, NextSlot, NotContained, Reduced
  <2>2. Survivors' = Survivors BY <2>1 DEF Survivors
  <2> QED BY <2>1, <2>2 DEF SurvivorsHaveOne
<1> QED BY <1>1, <1>2, <1>3

-----------------------------------------------------------------------------
(***************************************************************************)
(* What is proved of ElimTree holds of the tree built here.                *)
(***************************************************************************)
LEMMA TreeAssumptions ==
  N \in Nat /\ TP!IsFiniteSet(Vertex) /\ TP!Slot = Vertex
<1>1. IsFiniteSet(Vertex) BY NAssumption, FS_Interval DEF Vertex
<1>2. TP!IsFiniteSet(Vertex) BY <1>1 DEF IsFiniteSet, TP!IsFiniteSet
<1> QED BY <1>2, NAssumption DEF Vertex, TP!Slot

TreeInv == pc = "done" => TP!IInv /\ TP!PartOfJunctionTree

LEMMA TreeStep ==
  ASSUME TP!IInv, TP!PartOfJunctionTree, [TP!Next]_(TP!vars)
  PROVE  TP!IInv' /\ TP!PartOfJunctionTree'
BY TreeAssumptions, TP!InvKept, TP!PartKept

LEMMA TreeInvStep ==
  ASSUME IInv, PassedInv, TreeInv, [NextAll]_allVars
  PROVE  TreeInv'
<1> SUFFICES ASSUME pc' = "done" PROVE TP!IInv' /\ TP!PartOfJunctionTree'
  BY DEF TreeInv
<1>1. CASE pc = "done"
  <2>1. ~ Next
    BY <1>1 DEF Next, Marry, Moralized, Gather, Gathered, NextSlot, NotContained,
                ReMap, Reduced
  <2>2. [TP!Next]_(TP!vars)
    <3>1. CASE T!Next /\ UNCHANGED vars
      BY <3>1
         DEF T!Next, T!AddVertex, T!SortCandidates, T!Reject, T!Join, T!Exhausted, T!NoSet,
             T!WithSet, T!Candidates, T!Edges, T!Cliques, T!Widest, T!Weight, T!Separator,
             T!Cardinality, T!Unions, T!Merged,
             TP!Next, TP!AddVertex, TP!SortCandidates, TP!Reject, TP!Join, TP!Exhausted,
             TP!NoSet, TP!WithSet, TP!Candidates, TP!Edges, TP!Cliques, TP!Widest,
             TP!Weight, TP!Separator, TP!Cardinality, TP!Unions, TP!Merged
    <3>2. CASE UNCHANGED allVars BY <3>2 DEF allVars, vars, treeVars, TP!vars
    <3> QED BY <2>1, <3>1, <3>2 DEF NextAll, CollectSets, CreateTree
  <2> QED BY <1>1, <2>2, TreeStep DEF TreeInv
<1>2. CASE pc # "done"
  <2>1. T!InitTree BY <1>2 DEF PassedInv
  <2>2. TP!Init BY <2>1 DEF IInv, TypeOK, T!InitTree, TP!Init, TP!InitTree
  <2>3. TP!IInv BY <2>2, TreeAssumptions, TP!InitInv
  <2>4. TP!PartOfJunctionTree BY <2>1 DEF T!InitTree, TP!PartOfJunctionTree
  <2>5. UNCHANGED TP!vars
    BY <1>2 DEF NextAll, CollectSets, CreateTree, Next, Marry, Moralized, Gather, Gathered,
                NextSlot, NotContained, ReMap, Reduced, allVars, vars, treeVars, TP!vars
  <2> QED BY <2>3, <2>4, <2>5, TreeStep
<1> QED BY <1>1, <1>2

\* The two ways by which Connectivity is reached speak of the same trees.
LEMMA SameJunctionTrees ==
  ASSUME NEW F, NEW J, JunctionTreeOver(F, J)
  PROVE  TP!JunctionTreeOver(F, J)
<1>1. \A V, E, u, v : TP!Connected(V, E, u, v) = Connected(V, E, u, v)
  BY DEF TP!Connected, TP!Closed, Connected, Closed
<1>2. TP!Edges(F) = Edges(F) BY DEF TP!Edges, Edges
<1>3. TP!IsTree(F, J)
  BY <1>1, <1>2 DEF JunctionTreeOver, IsTree, Bridge, TP!IsTree, TP!Bridge
<1>4. \A x : TP!Holding(J, x) = Holding(J, x)
  BY DEF TP!Holding, TP!Shared, Holding, Shared
<1>5. ASSUME NEW x, NEW u \in F, NEW v \in F, x \in u \cap v
      PROVE  TP!Connected(F, TP!Holding(J, x), u, v)
  <2>1. Connected(F, Holding(J, x), u, v) BY <1>5 DEF JunctionTreeOver
  <2> QED BY <1>1, <1>4, <2>1
<1> QED BY <1>3, <1>5 DEF TP!JunctionTreeOver

\* A network whose ordering needs no fill-in gets a junction tree, for every
\* network, every ordering and every order of the candidates of equal width.
THEOREM JunctionTreeBuilt == SpecAll => []JunctionTree
<1> DEFINE Inv == IInv /\ PassedInv /\ SurvivorsHaveOne /\ TreeInv
<1>1. InitAll => Inv
  BY InitInv, PassedInit DEF InitAll, Init, SurvivorsHaveOne, TreeInv
<1>2. Inv /\ [NextAll]_allVars => Inv'
  <2> SUFFICES ASSUME Inv, [NextAll]_allVars PROVE Inv'
    OBVIOUS
  <2>1. [Next]_vars BY SetsUndisturbed DEF allVars
  <2> QED BY <2>1, StepInv, PassedStep, StepSurvivors, TreeInvStep
<1>3. Inv => JunctionTree
  <2> SUFFICES ASSUME Inv, Built, PerfectOrder(moral) PROVE RunningIntersection
    BY DEF JunctionTree
  <2>1. pc = "done" /\ stage = "done" /\ next = N
    BY DEF PassedInv, Built, T!InitTree
  <2>2. T!Cliques = Survivors
    <3>1. \A k \in Vertex : k < N BY NAssumption DEF Vertex
    <3> QED BY <2>1, <3>1 DEF PassedInv, Survivors
  <2>3. TP!Cliques = T!Cliques BY DEF TP!Cliques, T!Cliques
  <2>4. PICK J : JunctionTreeOver(Survivors, J) BY <2>1 DEF SurvivorsHaveOne
  <2>5. TP!JunctionTreeOver(TP!Cliques, J)
    BY <2>2, <2>3, <2>4, SameJunctionTrees
  <2>6. TP!JunctionTreeOver(TP!Cliques, edges)
    BY <2>1, <2>5, TreeAssumptions, TP!WholeJunctionTree DEF TreeInv
  <2> SUFFICES ASSUME NEW x \in Vertex, NEW u \in T!Cliques, NEW v \in T!Cliques,
                      x \in u \cap v
               PROVE  T!Connected(T!Cliques, Carrying(x), u, v)
    BY DEF RunningIntersection
  <2>7. TP!Connected(T!Cliques, TP!Holding(edges, x), u, v)
    BY <2>3, <2>6 DEF TP!JunctionTreeOver
  <2>8. TP!Holding(edges, x) = Carrying(x)
    BY DEF TP!Holding, TP!Shared, Carrying, T!Separator
  <2> QED BY <2>7, <2>8 DEF T!Connected, T!Closed, TP!Connected, TP!Closed
<1> HIDE DEF Inv
<1> QED BY <1>1, <1>2, <1>3, PTL DEF SpecAll
=============================================================================
