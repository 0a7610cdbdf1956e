------------------------------ MODULE Digraph -------------------------------
(***************************************************************************)
(* What a graph promises its callers: a set of nodes, a set of arcs        *)
(* between them, and visitors.  A visitor is handed the members of a set   *)
(* one at a time, in any order: each that was there when the visit began   *)
(* exactly once, and nothing that was added since.                         *)
(***************************************************************************)
CONSTANTS Name, Visitor

VARIABLES nodes, arcs, directed, visit

dgVars == <<nodes, arcs, directed, visit>>

\* A visitor not in use, and the value that says a visit is over.
Over == <<>>
Off  == [kind |-> "off", at |-> Over, todo |-> {}]

Into(v)  == {e \in arcs : e[2] = v}
OutOf(v) == {e \in arcs : e[1] = v}

\* What a visit is to see.  The children of a node are only told apart from its
\* other neighbours in a directed graph.
ToSee(kind, v) ==
  CASE kind = "nodes"     -> nodes
    [] kind = "arcs"      -> arcs
    [] kind = "neighbors" -> ({"in"} \X Into(v)) \cup ({"out"} \X OutOf(v))
    [] kind = "parents"   -> Into(v)
    [] kind = "children"  -> IF directed THEN OutOf(v) ELSE {}

\* A visit that comes to one member of S, or is over.
Turns(kind, S) ==
  IF S = {} THEN {[kind |-> kind, at |-> Over, todo |-> {}]}
            ELSE {[kind |-> kind, at |-> x, todo |-> S \ {x}] : x \in S}

DGInit ==
  /\ nodes = {} /\ arcs = {}
  /\ directed \in BOOLEAN
  /\ visit = [t \in Visitor |-> Off]

DGAddNode(v) ==
  /\ nodes' = nodes \cup {v}
  /\ UNCHANGED <<arcs, directed, visit>>

DGAddArc(u, v) ==
  /\ {u, v} \subseteq nodes
  /\ arcs' = arcs \cup {<<u, v>>}
  /\ UNCHANGED <<nodes, directed, visit>>

DGSetDirected(b) ==
  /\ directed' = b
  /\ UNCHANGED <<nodes, arcs, visit>>

DGBegin(t, kind, v) ==
  /\ visit[t] = Off
  /\ \E x \in Turns(kind, ToSee(kind, v)) : visit' = [visit EXCEPT ![t] = x]
  /\ UNCHANGED <<nodes, arcs, directed>>

DGStep(t) ==
  /\ visit[t].at # Over
  /\ LET left == IF visit[t].kind = "children" /\ ~ directed THEN {} ELSE visit[t].todo
     IN  \E x \in Turns(visit[t].kind, left) : visit' = [visit EXCEPT ![t] = x]
  /\ UNCHANGED <<nodes, arcs, directed>>

DGEnd(t) ==
  /\ visit' = [visit EXCEPT ![t] = Off]
  /\ UNCHANGED <<nodes, arcs, directed>>

DGNext ==
  \/ \E v \in Name : DGAddNode(v)
  \/ \E u, v \in Name : DGAddArc(u, v)
  \/ \E b \in BOOLEAN : DGSetDirected(b)
  \/ \E t \in Visitor :
       \/ DGBegin(t, "nodes", Over)
       \/ DGBegin(t, "arcs", Over)
       \/ \E v \in nodes, k \in {"neighbors", "parents", "children"} : DGBegin(t, k, v)
       \/ DGStep(t)
       \/ DGEnd(t)

DGSpec == DGInit /\ [][DGNext]_dgVars
=============================================================================
