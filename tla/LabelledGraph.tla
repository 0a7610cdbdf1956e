---------------------------- MODULE LabelledGraph ---------------------------
(***************************************************************************)
(* The data structure of JB_Graph.c: a graph holds one Map (an association *)
(* list keyed by strings) of its vertices and one of its edges, and every  *)
(* vertex two more, of its out-edges and its in-edges.  Operators take a   *)
(* graph and return the graph the function leaves or the object it finds.  *)
(*                                                                         *)
(* A label is the sequence of its words, the label split at its spaces.    *)
(* A Map is the sequence of its contents, first element first, and an edge *)
(* is the pair of the labels of its ends.                                  *)
(***************************************************************************)
EXTENDS Integers, Sequences

CONSTANT Name    \* the labels in use

Begins(u, v) == Len(u) <= Len(v) /\ \A k \in 1 .. Len(u) : u[k] = v[k]

(***************************************************************************)
(* No label is the beginning of another.  Names of variables without a     *)
(* space in them are of this kind, and so are the labels ElimSet_GetLabel  *)
(* gives cliques, where a space follows every name: their last word is     *)
(* empty and no other is.  The code checks neither.                        *)
(***************************************************************************)
PrefixFree == \A u, v \in Name : Begins(u, v) => u = v

ASSUME NameAssumption == Name \subseteq Seq(STRING) /\ <<>> \notin Name /\ PrefixFree

NULL == <<>>
Arc  == Name \X Name

Graphs == [vertices : Seq(Name), edges : Seq(Arc), out : [Name -> Seq(Arc)],
           in : [Name -> Seq(Arc)], directed : BOOLEAN]

\* What a list holds.
Listed(s) == {s[k] : k \in DOMAIN s}

\* Mutant: "strcat(ret->src_sink, sinkname)" left out.
SourceOnly(e) == e[1]

\* The string under which an edge is filed: "the name of the src of the edge
\* followed by a space, followed by the sink name".
SrcSink(e) == e[1] \o e[2]

\* Positions of a map whose id is that of e, and Map_Get's choice among them.
Places(s, e) == {k \in DOMAIN s : SrcSink(s[k]) = SrcSink(e)}
Place(s, e)  == CHOOSE k \in Places(s, e) : \A m \in Places(s, e) : k <= m

MapGet(s, e) == IF Places(s, e) = {} THEN NULL ELSE s[Place(s, e)]
MapAdd(s, e) == IF Places(s, e) = {} THEN <<e>> \o s ELSE s

\* The vertices are keyed by their own labels.
HasVertex(g, v) == \E k \in DOMAIN g.vertices : g.vertices[k] = v

Empty(directed) ==
  [vertices |-> <<>>, edges |-> <<>>, out |-> [v \in Name |-> <<>>],
   in |-> [v \in Name |-> <<>>], directed |-> directed]

WithVertex(g, v) ==
  IF HasVertex(g, v) THEN g ELSE [g EXCEPT !.vertices = <<v>> \o @]

GetEdge(g, u, v) == MapGet(g.edges, <<u, v>>)

\* Mutant: the edge is filed under its sink only.
WithEdgeInOnly(g, u, v) ==
  IF GetEdge(g, u, v) # NULL THEN g
  ELSE [g EXCEPT !.edges = MapAdd(@, <<u, v>>), !.in[v] = MapAdd(@, <<u, v>>)]

WithEdge(g, u, v) ==
  IF GetEdge(g, u, v) # NULL THEN g
  ELSE [g EXCEPT !.edges  = MapAdd(@, <<u, v>>),
                 !.out[u] = MapAdd(@, <<u, v>>),
                 !.in[v]  = MapAdd(@, <<u, v>>)]

\* Loops that add the vertices of a list in turn, or the edges.
WithVertices(g, list) ==
  LET after[n \in 0 .. Len(list)] ==
        IF n = 0 THEN g ELSE LET h == after[n-1] IN WithVertex(h, list[n])
  IN  after[Len(list)]

WithEdges(g, list) ==
  LET after[n \in 0 .. Len(list)] ==
        IF n = 0 THEN g
        ELSE LET h == after[n-1] IN WithEdge(h, list[n][1], list[n][2])
  IN  after[Len(list)]

-----------------------------------------------------------------------------
\* GetFirst and GetNext of a map of edges.  The element after e is found by
\* looking e up again.
FirstOf(s)    == IF s = <<>> THEN NULL ELSE s[1]
NextOf(s, e)  ==
  IF Places(s, e) = {} \/ Place(s, e) = Len(s) THEN NULL ELSE s[Place(s, e) + 1]

FirstVertex(g) == FirstOf(g.vertices)
NextVertex(g, v) ==
  LET found == {k \in DOMAIN g.vertices : g.vertices[k] = v}
      next  == {k \in DOMAIN g.vertices : k - 1 \in found /\ \A m \in found : k - 1 <= m}
  IN  IF next = {} THEN NULL ELSE g.vertices[CHOOSE k \in next : TRUE]

\* An end of an edge that a lookup returned, NULL for none.
End(e, k) == IF e = NULL THEN NULL ELSE e[k]

FirstParent(g, v)      == End(FirstOf(g.in[v]), 1)
NextParent(g, v, last) == End(NextOf(g.in[v], GetEdge(g, last, v)), 1)

FirstChild(g, v)      == IF g.directed THEN End(FirstOf(g.out[v]), 2) ELSE NULL
NextChild(g, v, last) ==
  IF g.directed THEN End(NextOf(g.out[v], GetEdge(g, v, last)), 2) ELSE NULL
=============================================================================
