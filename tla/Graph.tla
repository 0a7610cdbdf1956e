------------------------------- MODULE Graph --------------------------------
(***************************************************************************)
(* A graph of JB_Graph.c under its operations: vertices and edges are      *)
(* added, and iterators of every sort run over it meanwhile.  Maps only    *)
(* grow at their front and an iterator holds a pointer into one, so a      *)
(* pointer is the number of elements from the one it points to to the end  *)
(* of the list: 0 is NULL, and adding leaves it where it is.               *)
(***************************************************************************)
EXTENDS LabelledGraph

CONSTANTS
  Iterator,   \* iterators and walks that may be in use at once
  MaxEdges    \* no edge is added beyond this many

ASSUME MaxEdgesAssumption == MaxEdges \in Nat

VARIABLES
  g,      \* the graph
  itr     \* what each iterator holds

vars == <<g, itr>>

Unused == [kind |-> "unused"]

Vertices == Listed(g.vertices)

\* The element n elements from the end of s.
FromEnd(s, n) == s[Len(s) + 1 - n]

Init ==
  /\ \E b \in BOOLEAN : g = Empty(b)
  /\ itr = [t \in Iterator |-> Unused]

AddVertex(v) == g' = WithVertex(g, v) /\ UNCHANGED itr

AddEdge(u, v) ==
  /\ Len(g.edges) < MaxEdges \/ GetEdge(g, u, v) # NULL
  /\ g' = WithEdge(g, u, v)
  /\ UNCHANGED itr

SetDirected(b) == g' = [g EXCEPT !.directed = b] /\ UNCHANGED itr

-----------------------------------------------------------------------------
Hold(t, x) == itr' = [itr EXCEPT ![t] = x] /\ UNCHANGED g

CreateVertexItr(t) ==
  itr[t] = Unused /\ Hold(t, [kind |-> "VertexItr", current |-> Len(g.vertices)])

CreateEdgeItr(t) ==
  itr[t] = Unused /\ Hold(t, [kind |-> "EdgeItr", current |-> Len(g.edges)])

\* Mutant: the in-degree and the out-degree of JB_Graph.h, which are swapped,
\* taken for the lengths of the lists.
CreateNeighborItrSwapped(t, v) ==
  itr[t] = Unused /\ Hold(t, [kind |-> "NeighborItr", home |-> v,
                              curIn |-> Len(g.out[v]), curOut |-> Len(g.in[v])])

CreateNeighborItr(t, v) ==
  itr[t] = Unused /\ Hold(t, [kind |-> "NeighborItr", home |-> v,
                              curIn |-> Len(g.in[v]), curOut |-> Len(g.out[v])])

\* VertexItr_Advance and EdgeItr_Advance.
Advance(t) ==
  /\ itr[t].kind \in {"VertexItr", "EdgeItr"}
  /\ itr[t].current > 0
  /\ Hold(t, [itr[t] EXCEPT !.current = @ - 1])

\* Mutant: "curOut = curOut->next" whenever there is one, and curIn as well.
AdvanceNeighborBoth(t) ==
  /\ itr[t].kind = "NeighborItr"
  /\ itr[t].curIn > 0 \/ itr[t].curOut > 0
  /\ Hold(t, [itr[t] EXCEPT !.curIn = IF @ > 0 THEN @ - 1 ELSE 0,
                            !.curOut = IF @ > 0 THEN @ - 1 ELSE 0])

\* The in-edges first, then the out-edges.
AdvanceNeighbor(t) ==
  /\ itr[t].kind = "NeighborItr"
  /\ \/ /\ itr[t].curIn > 0
        /\ Hold(t, [itr[t] EXCEPT !.curIn = @ - 1])
     \/ /\ itr[t].curIn = 0
        /\ itr[t].curOut > 0
        /\ Hold(t, [itr[t] EXCEPT !.curOut = @ - 1])

(***************************************************************************)
(* The GetFst and GetNxt functions keep no state: their caller hands back  *)
(* the last object it was given, and they look it up to find the next.     *)
(***************************************************************************)
Walk(kind, v, last) == [kind |-> kind, of |-> v, last |-> last]

WalkVertices(t) ==
  itr[t] = Unused /\ Hold(t, Walk("Vertex", NULL, FirstVertex(g)))

WalkEdges(t) ==
  itr[t] = Unused /\ Hold(t, Walk("Edge", NULL, FirstOf(g.edges)))

WalkParents(t, v) ==
  itr[t] = Unused /\ Hold(t, Walk("Parent", v, FirstParent(g, v)))

WalkChildren(t, v) ==
  itr[t] = Unused /\ Hold(t, Walk("Child", v, FirstChild(g, v)))

NextOnWalk(w) ==
  CASE w.kind = "Vertex" -> NextVertex(g, w.last)
    [] w.kind = "Edge"   -> NextOf(g.edges, w.last)
    [] w.kind = "Parent" -> NextParent(g, w.of, w.last)
    [] w.kind = "Child"  -> NextChild(g, w.of, w.last)

WalkOn(t) ==
  /\ itr[t].kind \in {"Vertex", "Edge", "Parent", "Child"}
  /\ itr[t].last # NULL
  /\ Hold(t, [itr[t] EXCEPT !.last = NextOnWalk(itr[t])])

Destroy(t) == itr[t] # Unused /\ Hold(t, Unused)

Next ==
  \/ \E v \in Name : AddVertex(v)
  \/ \E u, v \in Vertices : AddEdge(u, v)
  \/ \E b \in BOOLEAN : SetDirected(b)
  \/ \E t \in Iterator :
       \/ CreateVertexItr(t) \/ CreateEdgeItr(t)
       \/ WalkVertices(t)    \/ WalkEdges(t)
       \/ \E v \in Vertices :
            CreateNeighborItr(t, v) \/ WalkParents(t, v) \/ WalkChildren(t, v)
       \/ Advance(t) \/ AdvanceNeighbor(t) \/ WalkOn(t) \/ Destroy(t)

Spec == Init /\ [][Next]_vars

-----------------------------------------------------------------------------
\* What an iterator over graph h can be.
ItrOK(h, x) ==
  \/ x = Unused
  \/ x \in [kind : {"VertexItr"}, current : 0 .. Len(h.vertices)]
  \/ x \in [kind : {"EdgeItr"}, current : 0 .. Len(h.edges)]
  \/ /\ x \in [kind : {"NeighborItr"}, home : Listed(h.vertices), curIn : Nat, curOut : Nat]
     /\ x.curIn <= Len(h.in[x.home]) /\ x.curOut <= Len(h.out[x.home])
  \/ x \in [kind : {"Vertex"}, of : {NULL}, last : Listed(h.vertices) \cup {NULL}]
  \/ x \in [kind : {"Edge"}, of : {NULL}, last : Arc \cup {NULL}]
  \/ x \in [kind : {"Parent", "Child"}, of : Listed(h.vertices),
            last : Listed(h.vertices) \cup {NULL}]

TypeOK ==
  /\ g \in Graphs
  /\ DOMAIN itr = Iterator
  /\ \A t \in Iterator : ItrOK(g, itr[t])

NoRepeat(s) == \A a, b \in DOMAIN s : s[a] = s[b] => a = b

\* In graph h every edge is once in the graph's map, once in its source's and
\* once in its sink's, and in no other vertex's.
WellFiled(h) ==
  /\ NoRepeat(h.vertices) /\ NoRepeat(h.edges)
  /\ \A v \in Name :
       /\ NoRepeat(h.out[v]) /\ NoRepeat(h.in[v])
       /\ Listed(h.out[v]) = {e \in Listed(h.edges) : e[1] = v}
       /\ Listed(h.in[v])  = {e \in Listed(h.edges) : e[2] = v}

(***************************************************************************)
(* The three maps an edge is filed in agree whatever the order of calls.  *)
(* Each map refuses an edge whose key it holds, by itself, so that the     *)
(* maps would part if two edges of the graph had one key, and              *)
(* Graph_GetEdge would return the wrong one.                               *)
(***************************************************************************)
Filed == WellFiled(g)

(***************************************************************************)
(* Graph_GetEdge finds an edge exactly when it was added, and never        *)
(* another in its place, although the key it looks for runs the two labels *)
(* together.  Otherwise Graph_AddEdge would hand back a wrong edge and add *)
(* none, and a walk over parents would continue from the wrong place.      *)
(***************************************************************************)
Lookup ==
  \A u, v \in Name :
    GetEdge(g, u, v) = IF <<u, v>> \in Listed(g.edges) THEN <<u, v>> ELSE NULL

-----------------------------------------------------------------------------
\* The refinement mapping: what an iterator has come to, and what it has still to come to.
After(s, n) == {s[k] : k \in Len(s) + 2 - n .. Len(s)}
Behind(s, e) == {s[k] : k \in {m \in DOMAIN s : \E l \in DOMAIN s : l < m /\ s[l] = e}}

KindSeen(kind) ==
  CASE kind = "unused"                 -> "off"
    [] kind \in {"VertexItr", "Vertex"} -> "nodes"
    [] kind \in {"EdgeItr", "Edge"}    -> "arcs"
    [] kind = "NeighborItr"            -> "neighbors"
    [] kind = "Parent"                 -> "parents"
    [] kind = "Child"                  -> "children"

Over == [at |-> NULL, todo |-> {}]

Along(s, n) ==
  IF n = 0 THEN Over ELSE [at |-> FromEnd(s, n), todo |-> After(s, n)]

Walked(s, last, e) == IF last = NULL THEN Over ELSE [at |-> e, todo |-> Behind(s, e)]

\* The in-edges and the out-edges a NeighborItr still holds.
Around(ins, outs, m, n) ==
  IF m > 0 THEN [at   |-> <<"in", FromEnd(ins, m)>>,
                 todo |-> ({"in"} \X After(ins, m)) \cup ({"out"} \X After(outs, n + 1))]
  ELSE IF n > 0 THEN [at   |-> <<"out", FromEnd(outs, n)>>,
                      todo |-> {"out"} \X After(outs, n)]
  ELSE Over

Seen(h, x) ==
  CASE x.kind = "unused"      -> Over
    [] x.kind = "VertexItr"   -> Along(h.vertices, x.current)
    [] x.kind = "EdgeItr"     -> Along(h.edges, x.current)
    [] x.kind = "NeighborItr" -> Around(h.in[x.home], h.out[x.home], x.curIn, x.curOut)
    [] x.kind = "Vertex"      -> Walked(h.vertices, x.last, x.last)
    [] x.kind = "Edge"        -> Walked(h.edges, x.last, x.last)
    [] x.kind = "Parent"      -> Walked(h.in[x.of], x.last, <<x.last, x.of>>)
    [] x.kind = "Child"       -> Walked(h.out[x.of], x.last, <<x.of, x.last>>)

Visit(h, x) ==
  [kind |-> KindSeen(x.kind), at |-> Seen(h, x).at, todo |-> Seen(h, x).todo]

Abstract == INSTANCE Digraph WITH
  Visitor  <- Iterator,
  nodes    <- Vertices,
  arcs     <- Listed(g.edges),
  directed <- g.directed,
  visit    <- [t \in Iterator |-> Visit(g, itr[t])]

(***************************************************************************)
(* The lists behave as sets of nodes and arcs: no call disturbs another's  *)
(* iteration, each sort of iterator and each walk comes to every vertex,   *)
(* edge, neighbour, parent or child that was there when it began once, and *)
(* adding to the graph meanwhile neither repeats nor skips any.            *)
(***************************************************************************)
Implements == Abstract!DGSpec
=============================================================================
