---------------------------- MODULE Connectivity ----------------------------
(***************************************************************************)
(* Undirected graphs with vertices V and edges E, two-element subsets of   *)
(* V.  Connection is defined by what separates two vertices, so that it    *)
(* needs no recursion.                                                     *)
(***************************************************************************)

\* No edge of E leaves P.
Closed(E, P) == \A e \in E : e \cap P # {} => e \subseteq P

\* No set of vertices that E never leaves holds u without v.
Connected(V, E, u, v) == \A P \in SUBSET V : u \in P /\ Closed(E, P) => v \in P

Edges(V) == {e \in SUBSET V : \E u, v \in V : u # v /\ e = {u, v}}

\* The ends of edge {u, w} are connected by nothing but that edge.
Bridge(V, E, u, w) == ~ Connected(V, E \ {{u, w}}, u, w)

\* All connected, and no edge to spare.
IsTree(V, E) ==
  /\ E \subseteq Edges(V)
  /\ \A u, w \in V : Connected(V, E, u, w)
  /\ \A u, w \in V : {u, w} \in E => Bridge(V, E, u, w)

\* In a tree: h lies on w's side of the edge {u, w}.
Beyond(V, E, u, w, h) == Connected(V, E \ {{u, w}}, w, h)
=============================================================================
