----------------------------- MODULE MCElimTree -----------------------------
(***************************************************************************)
(* TLC instance of ElimTree: every collection of Size slots in which no    *)
(* set occurs twice, which is what RemoveNonCliques delivers, whether or   *)
(* not the sets are the cliques of a graph.                                *)
(***************************************************************************)
EXTENDS ElimTree

AllCollections ==
  {f \in [Slot -> SUBSET Variable] :
     \A a, b \in Slot : f[a] = f[b] => a = b \/ f[a] = NoSet}
=============================================================================
