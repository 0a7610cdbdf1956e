---------------------------- MODULE MCPropagation ---------------------------
(***************************************************************************)
(* TLC instance of Propagation: every tree over the cliques, from every    *)
(* root.  Four cliques give chains with two cliques between the ends, and  *)
(* stars.                                                                  *)
(***************************************************************************)
EXTENDS Propagation, FiniteSets

AllTrees ==
  {E \in SUBSET Edges(Clique) :
     Cardinality(E) = Cardinality(Clique) - 1 /\ IsTree(Clique, E)}
=============================================================================
