--------------------------- MODULE BuildElimTree ----------------------------
(***************************************************************************)
(* BNet_BuildElimTree of JB_Inference.c: the elimination sets ElimSets     *)
(* leaves in the collection become the vertices of the tree ElimTree       *)
(* spans, the same ElimSet objects serving both.                           *)
(***************************************************************************)
EXTENDS ElimSets

VARIABLES next, rep, cand, edges, stage

T == INSTANCE ElimTree WITH
       Size <- N, Variable <- Vertex, Collections <- [Vertex -> SUBSET Vertex],
       esc <- slots

treeVars == <<next, rep, cand, edges, stage>>
allVars  == <<vars, treeVars>>

InitAll == Init /\ T!InitTree

CollectSets == Next /\ UNCHANGED treeVars

\* "this->elimTree = ElimTree_Create(esc)", once RemoveNonCliques has returned.
CreateTree == pc = "done" /\ T!Next /\ UNCHANGED vars

NextAll == CollectSets \/ CreateTree

\* Nothing blocks here either: an enabled step is eventually taken.
SpecAll == InitAll /\ [][NextAll]_allVars /\ WF_allVars(NextAll)

-----------------------------------------------------------------------------
Built == stage = "done"

\* The part of the tree whose separators hold x.
Carrying(x) == {e \in edges : x \in T!Separator(e)}

RunningIntersection ==
  \A x \in Vertex : \A u, v \in T!Cliques :
    x \in u \cap v => T!Connected(T!Cliques, Carrying(x), u, v)

(***************************************************************************)
(* When the elimination ordering needs no fill-in the tree is a junction   *)
(* tree: the cliques a variable occurs in are connected through separators *)
(* that hold it, which is what makes passing messages along the tree give  *)
(* one marginal per variable.  It takes all four steps: no clique lost by  *)
(* RemoveNonCliques, none kept that is not maximal, the widest separators  *)
(* first, and a tree over all of them.                                     *)
(***************************************************************************)
JunctionTree == Built /\ PerfectOrder(moral) => RunningIntersection

(***************************************************************************)
(* For every network and ordering, every family has a vertex of the tree   *)
(* that contains it: InitializePotentials can place each CPT.              *)
(***************************************************************************)
FamilyHoused ==
  Built => \A v \in Vertex : \E S \in T!Cliques : Family(v) \subseteq S

(***************************************************************************)
(* The call returns: the restart of the scan after a move ("i = i-1") does *)
(* not make RemoveNonCliques run for ever, and the loop of ElimTree_Create *)
(* ends, by its count of edges or, for a single vertex, by its candidates. *)
(***************************************************************************)
Finishes == <>Built
=============================================================================
