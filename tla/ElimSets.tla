------------------------------ MODULE ElimSets ------------------------------
(***************************************************************************)
(* From a Bayesian network to its elimination cliques: MoralGraph,         *)
(* GatherElimSets and ElimSetCollection_RemoveNonCliques of                *)
(* JB_JunctionTree.c, in the order BNet_BuildElimTree calls them.          *)
(*                                                                         *)
(* A vertex is identified with its rank in the vertex ordering o, so that  *)
(* every ordering of a network is some choice of dag.  An elimination set  *)
(* (the bit vector of an ElimSet) is the set of its members.  Graphs hold  *)
(* undirected edges as two-element sets: the direction in which MoralGraph *)
(* stores a marriage is never observed, NeighborItr walks both ways.       *)
(***************************************************************************)
EXTENDS Integers, FiniteSets

CONSTANTS
  N,      \* number of vertices of the network, o->size
  Dags    \* the networks: each a set of arcs <<parent, child>>

Vertex == 0 .. N-1

ASSUME NAssumption == N \in Nat \ {0}
ASSUME DagsAssumption ==
  /\ Dags \subseteq SUBSET (Vertex \X Vertex)
  /\ \A d \in Dags, a \in Vertex : <<a, a>> \notin d

\* An ElimSet always holds its own vertex, so {} can stand for a NULL slot.
NoSet == {}

VARIABLES
  dag,     \* imm, the directed graph the network came with
  moral,   \* the edges of the graph MoralGraph returns
  unwed,   \* vertices MoralGraph's loop has yet to visit
  slots,   \* elim_sets of the ElimSetCollection
  i, j,    \* the loop variables of GatherElimSets and of RemoveNonCliques
  pc

vars == <<dag, moral, unwed, slots, i, j, pc>>

Parents(v)  == {p \in Vertex : <<p, v>> \in dag}
Family(v)   == {v} \cup Parents(v)
Skeleton(d) == {{arc[1], arc[2]} : arc \in d}

\* The mutants of a definition stand before it.  This one: a parent is married
\* only to the next one in the list.
ConnectNextOnly(S) ==
  {e \in SUBSET S : \E a, b \in S : a < b /\ e = {a, b} /\ \A c \in S : c <= a \/ c >= b}

\* Every pair of distinct members of S, what Graph_ConnectAll adds.
ConnectAll(S) == {e \in SUBSET S : \E a, b \in S : a # b /\ e = {a, b}}

Neighbors(g, v) == {u \in Vertex : u # v /\ {u, v} \in g}

(***************************************************************************)
(* ElimSet_GetVertexList: "for(i = 0; i > size; i++)".  The loop starts at *)
(* 0 and goes on while its index EXCEEDS the size of the bit vector, so a  *)
(* member is listed only if 0 > N.                                         *)
(***************************************************************************)
VertexList(eset) == {k \in eset : 0 > N}

-----------------------------------------------------------------------------
Init ==
  /\ dag \in Dags
  /\ moral = Skeleton(dag)                \* Graph_Copy(imm)
  /\ unwed = Vertex
  /\ slots = [k \in Vertex |-> NoSet]
  /\ i = N-1
  /\ j = 0
  /\ pc = "moralize"

\* One round of MoralGraph's loop: marry the parents of v.
Marry(v) ==
  /\ pc = "moralize"
  /\ v \in unwed
  /\ moral' = moral \cup ConnectAll(Parents(v))
  /\ unwed' = unwed \ {v}
  /\ UNCHANGED <<dag, slots, i, j, pc>>

Moralized ==
  /\ pc = "moralize"
  /\ unwed = {}
  /\ pc' = "gather"
  /\ UNCHANGED <<dag, moral, unwed, slots, i, j>>

\* One round of GatherElimSets: the elimination set of vertex i is i with its
\* lower-ranked neighbours, which are then to be connected to one another.
ElimSetOf(g, v) == {v} \cup {u \in Neighbors(g, v) : u < v}

Gather ==
  /\ pc = "gather"
  /\ i > -1
  /\ slots' = [slots EXCEPT ![i] = ElimSetOf(moral, i)]
  /\ moral' = moral \cup ConnectAll(VertexList(slots'[i]))
  /\ i' = i - 1
  /\ UNCHANGED <<dag, unwed, j, pc>>

Gathered ==
  /\ pc = "gather"
  /\ i = -1
  /\ pc' = "reduce"
  /\ i' = 0
  /\ j' = 1
  /\ UNCHANGED <<dag, moral, unwed, slots>>

-----------------------------------------------------------------------------
(***************************************************************************)
(* RemoveNonCliques.  Slot i is compared with the slots above it.  When    *)
(* slot j contains it, set j moves into slot i, slot j becomes NULL and    *)
(* the scan of slot i starts over with its new contents.                   *)
(***************************************************************************)
\* Mutant: the arguments of ElimSet_Contains swapped.
ContainedSwapped(a, b) == slots[b] # NoSet /\ slots[b] \subseteq slots[a]

Contained(a, b) == slots[b] # NoSet /\ slots[a] \subseteq slots[b]

\* Mutant: "i <= this->size".
NextSlotOverrun ==
  /\ pc = "reduce"
  /\ i <= N
  /\ j >= N \/ slots[i] = NoSet
  /\ i' = i + 1
  /\ j' = i + 2
  /\ UNCHANGED <<dag, moral, unwed, slots, pc>>

NextSlot ==
  /\ pc = "reduce"
  /\ i < N
  /\ slots[i] = NoSet \/ j >= N
  /\ i' = i + 1
  /\ j' = i + 2
  /\ UNCHANGED <<dag, moral, unwed, slots, pc>>

NotContained ==
  /\ pc = "reduce"
  /\ i < N /\ j < N
  /\ slots[i] # NoSet
  /\ ~ Contained(i, j)
  /\ j' = j + 1
  /\ UNCHANGED <<dag, moral, unwed, slots, i, pc>>

\* Mutant: no "i = i-1", so the set moved in is not looked at again.
ReMapWithoutRestart ==
  /\ pc = "reduce"
  /\ i < N /\ j < N
  /\ slots[i] # NoSet
  /\ Contained(i, j)
  /\ slots' = [slots EXCEPT ![i] = slots[j], ![j] = NoSet]
  /\ i' = i + 1
  /\ j' = i + 2
  /\ UNCHANGED <<dag, moral, unwed, pc>>

\* Mutant: slot j is not set to NULL.
ReMapKeepingBoth ==
  /\ pc = "reduce"
  /\ i < N /\ j < N
  /\ slots[i] # NoSet
  /\ Contained(i, j)
  /\ slots' = [slots EXCEPT ![i] = slots[j]]
  /\ j' = i + 1
  /\ UNCHANGED <<dag, moral, unwed, i, pc>>

ReMap ==
  /\ pc = "reduce"
  /\ i < N /\ j < N
  /\ slots[i] # NoSet
  /\ Contained(i, j)
  /\ slots' = [slots EXCEPT ![i] = slots[j], ![j] = NoSet]
  /\ j' = i + 1
  /\ UNCHANGED <<dag, moral, unwed, i, pc>>

Reduced ==
  /\ pc = "reduce"
  /\ i = N
  /\ pc' = "done"
  /\ UNCHANGED <<dag, moral, unwed, slots, i, j>>

Next ==
  \/ \E v \in Vertex : Marry(v)
  \/ Moralized
  \/ Gather
  \/ Gathered
  \/ NextSlot
  \/ NotContained
  \/ ReMap
  \/ Reduced

\* The three functions are called one after the other and nothing blocks, so
\* an enabled step is eventually taken.
Spec == Init /\ [][Next]_vars /\ WF_vars(Next)

-----------------------------------------------------------------------------
TypeOK ==
  /\ dag \in Dags
  /\ moral \in SUBSET SUBSET Vertex
  /\ unwed \in SUBSET Vertex
  /\ slots \in [Vertex -> SUBSET Vertex]
  /\ i \in -1 .. N
  /\ j \in 0 .. N+1
  /\ pc \in {"moralize", "gather", "reduce", "done"}

(***************************************************************************)
(* Every family (a variable with its parents, the scope of one CPT) lies   *)
(* inside one surviving elimination set from the moment the sets are       *)
(* gathered and through every move of RemoveNonCliques.  Without it        *)
(* BNet_InitializePotentials finds no clique for the CPT and silently      *)
(* leaves it out of the model.                                             *)
(***************************************************************************)
FamilyCovered ==
  pc \in {"reduce", "done"} =>
    \A v \in Vertex : \E k \in Vertex : Family(v) \subseteq slots[k]

(***************************************************************************)
(* No set survives below one that contains it: the comparison RemoveNon-   *)
(* Cliques makes holds of the final collection, although a set moved into  *)
(* slot i was never compared with the slots passed before it moved.        *)
(***************************************************************************)
NoSetBelowASuperset ==
  pc = "done" =>
    \A a, b \in Vertex : a < b /\ slots[a] # NoSet => ~ Contained(a, b)

Survivors == {slots[k] : k \in Vertex} \ {NoSet}

Complete(g, S) == ConnectAll(S) \subseteq g
MaximalCliques(g) ==
  {S \in (SUBSET Vertex) \ {{}} :
     Complete(g, S) /\ \A v \in Vertex \ S : ~ Complete(g, S \cup {v})}

\* Eliminating in the order N-1, ..., 0 needs no fill-in edge.
PerfectOrder(g) == \A v \in Vertex : Complete(g, ElimSetOf(g, v))

(***************************************************************************)
(* When the ordering needs no fill-in, what RemoveNonCliques leaves is     *)
(* exactly the set of maximal cliques of the moral graph: nothing that is  *)
(* not a clique, no clique twice, none missing.                            *)
(***************************************************************************)
CliquesWhenPerfect ==
  pc = "done" /\ PerfectOrder(moral) => Survivors = MaximalCliques(moral)

\* RemoveNonCliques only ever moves sets: a step of it neither invents a set
\* nor puts one in two slots, and the set it drops is inside one it keeps.
OnlyAbsorbs ==
  [][pc = "reduce" =>
       /\ Survivors' \subseteq Survivors
       /\ \A S \in Survivors : \E C \in Survivors' : S \subseteq C
       /\ \A a, b \in Vertex : a # b /\ slots'[a] = slots'[b] => slots'[a] = NoSet]_vars

(***************************************************************************)
(* What the comments promise.  GatherElimSets "triangulates it in place    *)
(* according to the ordering specified by o": afterwards that ordering is  *)
(* a perfect elimination ordering of the graph.                            *)
(***************************************************************************)
Triangulated == pc \in {"reduce", "done"} => PerfectOrder(moral)
=============================================================================
