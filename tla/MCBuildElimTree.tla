-------------------------- MODULE MCBuildElimTree ---------------------------
(***************************************************************************)
(* TLC instance of BuildElimTree: every labelled DAG on N vertices.        *)
(***************************************************************************)
EXTENDS BuildElimTree

Arcs == {a \in Vertex \X Vertex : a[1] # a[2]}
Acyclic(d) == \E rank \in [Vertex -> Vertex] : \A a \in d : rank[a[1]] < rank[a[2]]
AllDags == {d \in SUBSET Arcs : Acyclic(d)}
=============================================================================
