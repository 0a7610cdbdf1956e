------------------------------ MODULE ElimTree ------------------------------
(***************************************************************************)
(* ElimTree_Create of JB_JunctionTree.c: Kruskal's algorithm over the      *)
(* elimination sets, taking the candidate edges by falling separator size. *)
(* The disjoint sets are those of Partition, which DSetForest implements.  *)
(*                                                                         *)
(* A vertex of the tree is identified with its elimination set (its label  *)
(* spells out the members), an edge with its two ends.                     *)
(***************************************************************************)
EXTENDS Partition, Connectivity, FiniteSets, Functions

CONSTANTS
  Size,          \* number of slots of an ElimSetCollection
  Variable,      \* what the sets are made of
  Collections    \* the collections ElimTree_Create is called with

Slot  == 0 .. Size-1
NoSet == {}

ASSUME SizeAssumption == Size \in Nat
ASSUME VariableAssumption == IsFiniteSet(Variable)
ASSUME CollectionsAssumption == Collections \subseteq [Slot -> SUBSET Variable]

VARIABLES
  esc,     \* the elim_sets of the collection
  next,    \* the slot to be given a vertex next
  rep,     \* dsf: the vertices, each with the representative of its tree
  cand,    \* the candidates Kruskal's loop has yet to look at
  edges,   \* the edges of the tree so far
  stage

vars == <<esc, next, rep, cand, edges, stage>>

Cliques == DOMAIN rep

\* ECCollection_Create: a candidate for every pair of vertices.
Candidates == Edges(Cliques)
Separator(c) == {x \in UNION c : \A S \in c : x \in S}
Weight(c) == Cardinality(Separator(c))

-----------------------------------------------------------------------------
\* Mutant: the loop over the slots starts at 1.
InitTreeLate ==
  /\ next = 1
  /\ rep = [S \in {} |-> S]
  /\ cand = {}
  /\ edges = {}
  /\ stage = "vertices"

InitTree ==
  /\ next = 0
  /\ rep = [S \in {} |-> S]
  /\ cand = {}
  /\ edges = {}
  /\ stage = "vertices"

Init == esc \in Collections /\ InitTree

\* A vertex and a set of its own for every elimination set not seen before.
AddVertex ==
  /\ stage = "vertices"
  /\ next < Size
  /\ rep' = IF esc[next] = NoSet THEN rep ELSE WithSet(rep, esc[next])
  /\ next' = next + 1
  /\ UNCHANGED <<esc, cand, edges, stage>>

SortCandidates ==
  /\ stage = "vertices"
  /\ next = Size
  /\ cand' = Candidates
  /\ stage' = "edges"
  /\ UNCHANGED <<esc, next, rep, edges>>

\* Mutant: the comparison for qsort reversed.
Narrowest(c) == \A d \in cand : Weight(d) >= Weight(c)

\* The next candidate is one of largest separator; qsort leaves the order of
\* equal ones open.
Widest(c) == \A d \in cand : Weight(d) <= Weight(c)

Reject(u, v) ==
  /\ stage = "edges"
  /\ {u, v} \in cand /\ Widest({u, v})
  /\ rep[u] = rep[v]
  /\ cand' = cand \ {{u, v}}
  /\ UNCHANGED <<esc, next, rep, edges, stage>>

\* An edge between two trees joins them; one less than the number of vertices
\* of them ends the loop.
Join(u, v) ==
  /\ stage = "edges"
  /\ {u, v} \in cand /\ Widest({u, v})
  /\ rep[u] # rep[v]
  /\ cand' = cand \ {{u, v}}
  /\ edges' = edges \cup {{u, v}}
  /\ rep' \in Unions(rep, u, v)
  /\ stage' = IF Cardinality(edges') = Cardinality(Cliques) - 1 THEN "done" ELSE stage
  /\ UNCHANGED <<esc, next>>

Exhausted ==
  /\ stage = "edges"
  /\ cand = {}
  /\ stage' = "done"
  /\ UNCHANGED <<esc, next, rep, cand, edges>>

Next ==
  \/ AddVertex
  \/ SortCandidates
  \/ \E u, v \in Cliques : Reject(u, v)
  \/ \E u, v \in Cliques : Join(u, v)
  \/ Exhausted

Spec == Init /\ [][Next]_vars

-----------------------------------------------------------------------------
TypeOK ==
  /\ esc \in Collections
  /\ next \in 0 .. Size
  /\ Cliques \subseteq (SUBSET Variable) \ {NoSet}
  /\ rep \in [Cliques -> Cliques]
  /\ cand \subseteq Candidates
  /\ edges \subseteq Candidates
  /\ stage \in {"vertices", "edges", "done"}

(***************************************************************************)
(* The disjoint sets and the graph, two structures the loop updates one    *)
(* after the other, agree: two cliques have one representative exactly     *)
(* when the edges added so far connect them.                               *)
(***************************************************************************)
TreesAreSets ==
  \A u, v \in Cliques : rep[u] = rep[v] <=> Connected(Cliques, edges, u, v)

(***************************************************************************)
(* ElimTree_Create returns a tree over all the cliques, also when the loop *)
(* stops early and when it runs out of candidates: the seperatorPots array *)
(* and the propagation along the tree rest on exactly one path between any *)
(* two cliques and on one edge less than there are vertices.               *)
(***************************************************************************)
SpanningTree ==
  stage = "done" =>
    /\ IsTree(Cliques, edges)
    /\ Cliques # {} => Cardinality(edges) = Cardinality(Cliques) - 1

(***************************************************************************)
(* "a spanning tree over the cliques which maximizes seperator             *)
(* cardinality": no spanning tree has wider separators in total, however   *)
(* the ties were ordered.  For the cliques of a triangulated graph these   *)
(* are the trees with the running intersection property.                   *)
(***************************************************************************)
SpanningTrees == {E \in SUBSET Candidates : IsTree(Cliques, E)}

TotalWeight(E) == SumFunctionOnSet([c \in Candidates |-> Weight(c)], E)

WidestSeparators ==
  stage = "done" => \A E \in SpanningTrees : TotalWeight(E) <= TotalWeight(edges)

(***************************************************************************)
(* The same seen from two cliques: however many variables they share, the  *)
(* path between them has no separator with fewer.  An early stop must not  *)
(* leave out a candidate that could have widened one.                      *)
(***************************************************************************)
AsWide(c) == {e \in edges : Weight(e) >= Weight(c)}

WidestPaths ==
  stage = "done" => \A u, v \in Cliques : Connected(Cliques, AsWide({u, v}), u, v)
=============================================================================
