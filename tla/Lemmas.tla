------------------------------- MODULE Lemmas -------------------------------
(***************************************************************************)
(* Facts several of the proofs use: connection is an equivalence, and      *)
(* every edge of a tree cuts it in two; trees whose vertices are sets;     *)
(* loops and quotients; and folds over finite sets.                        *)
(***************************************************************************)
EXTENDS Connectivity, Integers, FiniteSets, Functions, FiniteSetTheorems,
        WellFoundedInduction, TLAPS

LEMMA ConnectedSelf ==
  ASSUME NEW V, NEW E, NEW u PROVE Connected(V, E, u, u)
BY DEF Connected

LEMMA ConnectedSymmetric ==
  ASSUME NEW V, NEW E \in SUBSET SUBSET V, NEW u \in V, NEW v \in V, Connected(V, E, u, v)
  PROVE  Connected(V, E, v, u)
<1> SUFFICES ASSUME NEW P \in SUBSET V, v \in P, Closed(E, P), u \notin P
             PROVE  FALSE
  BY DEF Connected
<1> DEFINE Q == V \ P
<1>1. Closed(E, Q) BY DEF Closed
<1>2. u \in Q /\ Q \in SUBSET V OBVIOUS
<1>3. v \in Q BY <1>1, <1>2 DEF Connected
<1> QED BY <1>3

LEMMA ConnectedTransitive ==
  ASSUME NEW V, NEW E, NEW u, NEW v, NEW w,
         Connected(V, E, u, v), Connected(V, E, v, w)
  PROVE  Connected(V, E, u, w)
BY DEF Connected

LEMMA ConnectedMore ==
  ASSUME NEW V, NEW E, NEW F, E \subseteq F, NEW u, NEW v, Connected(V, E, u, v)
  PROVE  Connected(V, F, u, v)
BY DEF Connected, Closed

LEMMA ConnectedEnds ==
  ASSUME NEW V, NEW E, NEW u, NEW v, {u, v} \in E
  PROVE  Connected(V, E, u, v)
BY DEF Connected, Closed

\* A set no edge leaves stays one when another such set joins it, and when an
\* edge is added that lies inside it or does not touch it.
LEMMA ClosedUnion ==
  ASSUME NEW E, NEW P, NEW Q, Closed(E, P), Closed(E, Q)
  PROVE  Closed(E, P \cup Q)
<1> SUFFICES ASSUME NEW e \in E, e \cap (P \cup Q) # {} PROVE e \subseteq P \cup Q
  BY DEF Closed
<1>1. CASE e \cap P # {} BY <1>1 DEF Closed
<1>2. CASE e \cap Q # {} BY <1>2 DEF Closed
<1> QED BY <1>1, <1>2

LEMMA ClosedWithEdge ==
  ASSUME NEW E, NEW P, NEW f, Closed(E, P), f \cap P # {} => f \subseteq P,
         NEW F, F \subseteq E \cup {f}
  PROVE  Closed(F, P)
<1> SUFFICES ASSUME NEW e \in F, e \cap P # {} PROVE e \subseteq P
  BY DEF Closed
<1>1. CASE e \in E BY <1>1 DEF Closed
<1>2. CASE e = f BY <1>2
<1> QED BY <1>1, <1>2

\* What is connected to u is a set no edge leaves.
LEMMA ComponentClosed ==
  ASSUME NEW V, NEW E \in SUBSET SUBSET V, NEW u \in V
  PROVE  Closed(E, {z \in V : Connected(V, E, u, z)})
<1> DEFINE C == {z \in V : Connected(V, E, u, z)}
<1> SUFFICES ASSUME NEW e \in E, NEW a \in e \cap C, NEW b \in e
             PROVE  b \in C
  BY DEF Closed
<1>1. ASSUME NEW P \in SUBSET V, u \in P, Closed(E, P) PROVE b \in P
  <2>1. a \in P BY <1>1 DEF Connected
  <2> QED BY <1>1, <2>1 DEF Closed
<1> QED BY <1>1 DEF Connected

-----------------------------------------------------------------------------
\* Every vertex is on one side of an edge of a tree, and on one only.
LEMMA TwoSides ==
  ASSUME NEW V, NEW E, IsTree(V, E), NEW u \in V, NEW w \in V, {u, w} \in E, NEW h \in V
  PROVE  Beyond(V, E, u, w, h) <=> ~ Beyond(V, E, w, u, h)
<1> DEFINE F == E \ {{u, w}}
           U == {z \in V : Connected(V, F, u, z)}
           W == {z \in V : Connected(V, F, w, z)}
<1>1. F \in SUBSET SUBSET V BY DEF IsTree, Edges
<1>2. {w, u} = {u, w} OBVIOUS
<1>3. Closed(F, U) /\ Closed(F, W) BY <1>1, ComponentClosed
<1>4. u \in U /\ w \in W BY ConnectedSelf
<1>5. ASSUME h \in U, h \in W PROVE FALSE
  <2>1. Connected(V, F, h, w) BY <1>1, <1>5, ConnectedSymmetric
  <2>2. Connected(V, F, u, w) BY <1>5, <2>1, ConnectedTransitive
  <2> QED BY <2>2 DEF IsTree, Bridge
<1>6. h \in U \cup W
  <2>1. Closed(E, U \cup W) BY <1>3, <1>4, ZenonT(60) DEF Closed
  <2>2. Connected(V, E, u, h) BY DEF IsTree
  <2>3. U \cup W \in SUBSET V /\ u \in U \cup W BY <1>4
  <2> QED BY <2>1, <2>2, <2>3 DEF Connected
<1> QED BY <1>2, <1>5, <1>6 DEF Beyond

\* What lies beyond c, seen from r, lies beyond r, seen from any other
\* neighbour of r.
LEMMA FurtherSide ==
  ASSUME NEW V, NEW E, IsTree(V, E), NEW r \in V, NEW c \in V, NEW x \in V,
         {r, c} \in E, {r, x} \in E, x # c, NEW h \in V, Beyond(V, E, r, c, h)
  PROVE  Beyond(V, E, x, r, h)
<1> DEFINE F == E \ {{r, c}}
           G == E \ {{x, r}}
           C == {z \in V : Connected(V, F, c, z)}
<1>1. F \in SUBSET SUBSET V BY DEF IsTree, Edges
<1>2. Closed(F, C) /\ c \in C BY <1>1, ComponentClosed, ConnectedSelf
<1>3. r # c /\ r # x BY DEF IsTree, Edges
<1>4. r \notin C
  <2>1. ASSUME r \in C PROVE FALSE
    <3>1. Connected(V, F, r, c) BY <1>1, <2>1, ConnectedSymmetric
    <3> QED BY <3>1 DEF IsTree, Bridge
  <2> QED BY <2>1
<1>5. {r, x} \in F BY <1>3
<1>6. x \notin C BY <1>2, <1>4, <1>5 DEF Closed
<1>7. ASSUME NEW P \in SUBSET V, r \in P, Closed(G, P) PROVE h \in P
  <2>1. {r, c} \in G BY <1>3
  <2>2. c \in P BY <1>7, <2>1 DEF Closed
  <2>3. Closed(F, C \cap P)
    <3> SUFFICES ASSUME NEW f \in F, f \cap (C \cap P) # {}
                 PROVE  f \subseteq C \cap P
      BY DEF Closed
    <3>1. f \subseteq C BY <1>2 DEF Closed
    <3>2. f \in G BY <1>4, <3>1
    <3> QED BY <1>7, <3>1, <3>2 DEF Closed
  <2>4. Connected(V, F, c, h) BY DEF Beyond
  <2>5. c \in C \cap P /\ C \cap P \in SUBSET V BY <1>2, <2>2
  <2> HIDE DEF C, F
  <2> QED BY <2>3, <2>4, <2>5 DEF Connected
<1>8. Connected(V, G, r, h) BY <1>7 DEF Connected
<1> QED BY <1>8 DEF Beyond

\* Whoever is not v lies beyond some neighbour of v.
LEMMA SomeSide ==
  ASSUME NEW V, NEW E, IsTree(V, E), NEW v \in V, NEW h \in V, h # v
  PROVE  \E n \in V : {v, n} \in E /\ Beyond(V, E, v, n, h)
<1> SUFFICES ASSUME \A n \in V : {v, n} \in E => ~ Beyond(V, E, v, n, h)
             PROVE  FALSE
  OBVIOUS
<1> DEFINE P == {z \in V : z = v \/ \E n \in V : {v, n} \in E /\ Beyond(V, E, v, n, z)}
<1>1. E \in SUBSET SUBSET V BY DEF IsTree, Edges
<1>2. Closed(E, P)
  <2> HIDE DEF P
  <2> SUFFICES ASSUME NEW e \in E, NEW a \in e \cap P, NEW b \in e
               PROVE  b \in P
    BY DEF Closed
  <2> SUFFICES ASSUME b # a PROVE b \in P
    OBVIOUS
  <2> USE DEF P
  <2>1. a \in V /\ b \in V /\ e = {a, b} BY DEF IsTree, Edges
  <2>2. CASE a = v
    <3>1. Beyond(V, E, v, b, b) BY ConnectedSelf DEF Beyond
    <3> QED BY <2>1, <2>2, <3>1
  <2>3. CASE b = v BY <2>1, <2>3
  <2>4. CASE a # v /\ b # v
    <3>1. PICK n \in V : {v, n} \in E /\ Beyond(V, E, v, n, a) BY <2>4
    <3>2. {a, b} \in E \ {{v, n}} BY <2>1, <2>4
    <3>3. Connected(V, E \ {{v, n}}, a, b) BY <3>2, ConnectedEnds
    <3>4. Beyond(V, E, v, n, b) BY <3>1, <3>3, ConnectedTransitive DEF Beyond
    <3> QED BY <2>1, <3>1, <3>4
  <2> QED BY <2>2, <2>3, <2>4
<1>3. Connected(V, E, v, h) BY DEF IsTree
<1>4. v \in P /\ P \in SUBSET V OBVIOUS
<1>5. h \in P BY <1>2, <1>3, <1>4 DEF Connected
<1> QED BY <1>5

-----------------------------------------------------------------------------
\* Connection survives when the ends of every edge stay connected.
LEMMA ConnectedThrough ==
  ASSUME NEW V, NEW E, E \subseteq Edges(V), NEW F,
         \A p, q \in V : {p, q} \in E => Connected(V, F, p, q),
         NEW u, NEW v, Connected(V, E, u, v)
  PROVE  Connected(V, F, u, v)
<1> SUFFICES ASSUME NEW P \in SUBSET V, u \in P, Closed(F, P)
             PROVE  v \in P
  BY DEF Connected
<1>1. ASSUME NEW e \in E, NEW a \in e \cap P, NEW b \in e
      PROVE  b \in P
  <2>1. a \in V /\ b \in V /\ (a = b \/ e = {a, b}) BY DEF Edges
  <2>2. CASE a = b BY <2>2
  <2>3. CASE e = {a, b}
    <3>1. Connected(V, F, a, b) BY <2>1, <2>3
    <3> QED BY <3>1 DEF Connected
  <2> QED BY <2>1, <2>2, <2>3
<1>2. Closed(E, P) BY <1>1 DEF Closed
<1> QED BY <1>2 DEF Connected

\* More vertices connect nothing that the edges did not.
LEMMA ConnectedWider ==
  ASSUME NEW V, NEW W, V \subseteq W, NEW E \in SUBSET SUBSET V,
         NEW u \in V, NEW v \in V
  PROVE  Connected(V, E, u, v) <=> Connected(W, E, u, v)
<1>1. ASSUME Connected(V, E, u, v), NEW P \in SUBSET W, u \in P, Closed(E, P)
      PROVE  v \in P
  <2>1. Closed(E, P \cap V) BY <1>1 DEF Closed
  <2>2. u \in P \cap V /\ P \cap V \in SUBSET V BY <1>1
  <2> QED BY <1>1, <2>1, <2>2 DEF Connected
<1>2. ASSUME Connected(W, E, u, v) PROVE Connected(V, E, u, v)
  BY <1>2 DEF Connected
<1> QED BY <1>1, <1>2 DEF Connected

\* An edge between two vertices nothing connects closes no cycle.
LEMMA BridgesJoined ==
  ASSUME NEW V, NEW E, E \subseteq Edges(V),
         \A p, q \in V : {p, q} \in E => Bridge(V, E, p, q),
         NEW u \in V, NEW v \in V, ~ Connected(V, E, u, v),
         NEW a \in V, NEW b \in V, {a, b} \in E \cup {{u, v}}
  PROVE  Bridge(V, E \cup {{u, v}}, a, b)
<1>1. E \in SUBSET SUBSET V BY DEF Edges
<1>2. {u, v} \notin E BY ConnectedEnds
<1>3. CASE {a, b} = {u, v}
  <2>1. (E \cup {{u, v}}) \ {{a, b}} = E BY <1>2, <1>3
  <2>2. (a = u /\ b = v) \/ (a = v /\ b = u) BY <1>3
  <2>3. ~ Connected(V, E, a, b) BY <1>1, <2>2, ConnectedSymmetric
  <2> QED BY <2>1, <2>3 DEF Bridge
<1>4. CASE {a, b} \in E
  <2> DEFINE F == E \ {{a, b}}
             Near(w) == {z \in V : Connected(V, F, w, z)}
             Tree(w) == {z \in V : Connected(V, E, w, z)}
             Q == Near(a) \cup (IF u \in Near(a) THEN Tree(v) ELSE {})
                          \cup (IF v \in Near(a) THEN Tree(u) ELSE {})
  <2>1. Closed(F, Near(a)) /\ a \in Near(a) BY <1>1, ComponentClosed, ConnectedSelf
  <2>2. ASSUME NEW w \in V PROVE Closed(F, Tree(w)) /\ w \in Tree(w)
    <3>1. Closed(E, Tree(w)) /\ w \in Tree(w) BY <1>1, ComponentClosed, ConnectedSelf
    <3> QED BY <3>1 DEF Closed
  <2>3. \A z \in Near(a) : Connected(V, E, a, z) BY ConnectedMore
  <2>4. Connected(V, E, a, b) BY <1>4, ConnectedEnds
  <2>5. b \notin Near(a) BY <1>4 DEF Bridge
  <2>6. ~ (u \in Near(a) /\ v \in Near(a))
    <3> SUFFICES ASSUME u \in Near(a), v \in Near(a) PROVE FALSE
      OBVIOUS
    <3>1. Connected(V, E, u, a) /\ Connected(V, E, a, v)
      BY <1>1, <2>3, ConnectedSymmetric
    <3> QED BY <3>1, ConnectedTransitive
  <2>7. ASSUME NEW w \in V, NEW y \in V, w \in Near(a), b \in Tree(y),
               ~ Connected(V, E, w, y)
        PROVE  FALSE
    <3>1. Connected(V, E, w, a) BY <1>1, <2>3, <2>7, ConnectedSymmetric
    <3>2. Connected(V, E, b, y) BY <1>1, <2>7, ConnectedSymmetric
    <3>3. Connected(V, E, w, b) BY <2>4, <3>1, ConnectedTransitive
    <3>4. Connected(V, E, w, y) BY <3>2, <3>3, ConnectedTransitive
    <3> QED BY <2>7, <3>4
  <2>8. ~ Connected(V, E, v, u) BY <1>1, ConnectedSymmetric
  <2>9. b \notin Q
    <3> HIDE DEF Near, Tree
    <3> QED BY <2>5, <2>7, <2>8
  <2>10. Closed((E \cup {{u, v}}) \ {{a, b}}, Q)
    <3>1. Closed(F, Q)
      <4>1. Closed(F, Near(a) \cup Tree(u)) /\ Closed(F, Near(a) \cup Tree(v))
        BY <2>1, <2>2, ClosedUnion
      <4> HIDE DEF Near, Tree, F
      <4>2. Q \in {Near(a), Near(a) \cup Tree(u), Near(a) \cup Tree(v)} BY <2>6
      <4> QED BY <2>1, <4>1, <4>2
    <3>2. {u, v} \cap Q # {} => {u, v} \subseteq Q
      <4> HIDE DEF Near, Tree
      <4>1. CASE u \in Near(a) BY <2>2, <4>1
      <4>2. CASE v \in Near(a) BY <2>2, <4>2
      <4>3. CASE u \notin Near(a) /\ v \notin Near(a) BY <4>3
      <4> QED BY <4>1, <4>2, <4>3
    <3>3. (E \cup {{u, v}}) \ {{a, b}} \subseteq F \cup {{u, v}} OBVIOUS
    <3> DEFINE f == {u, v}
               F2 == (E \cup {{u, v}}) \ {{a, b}}
    <3>4. F2 \subseteq F \cup {f} BY <3>3
    <3>5. f \cap Q # {} => f \subseteq Q BY <3>2
    <3> HIDE DEF Q, F, Near, Tree, f, F2
    <3>6. Closed(F2, Q) BY <3>1, <3>4, <3>5, ClosedWithEdge
    <3> QED BY <3>6 DEF F2
  <2>11. a \in Q /\ Q \in SUBSET V BY <2>1
  <2> HIDE DEF Q
  <2> QED BY <2>9, <2>10, <2>11 DEF Connected, Bridge
<1> QED BY <1>3, <1>4

\* The edge {a, b} of E leaves what G connects to u, with v on its far side.
Exits(V, E, G, u, v, a, b) ==
  /\ {a, b} \in E \ G
  /\ Connected(V, G, u, a) /\ ~ Connected(V, G, u, b)
  /\ Beyond(V, E, b, a, u) /\ Beyond(V, E, a, b, v)

\* There is such an edge where some of the edges of a tree do not connect u
\* and v.
LEMMA ExitEdge ==
  ASSUME NEW V, NEW E, IsTree(V, E), NEW G, G \subseteq E,
         NEW u \in V, NEW v \in V, ~ Connected(V, G, u, v)
  PROVE  \E a, b \in V : Exits(V, E, G, u, v, a, b)
<1> DEFINE P == {z \in V : Connected(V, G, u, z)}
           Exit(a, b) == {a, b} \in E /\ a \in P /\ b \notin P
           Q == P \cup {z \in V : \E a, b \in V : Exit(a, b) /\ Beyond(V, E, a, b, z)}
<1>1. E \in SUBSET SUBSET V /\ G \in SUBSET SUBSET V BY DEF IsTree, Edges
<1>2. ASSUME NEW e \in E, NEW p \in e \cap Q, NEW q \in e, p # q
      PROVE  q \in Q
  <2>1. p \in V /\ q \in V /\ e = {p, q} BY <1>2 DEF IsTree, Edges
  <2>2. CASE p \in P
    <3>1. CASE q \in P BY <3>1
    <3>2. CASE q \notin P
      <4>1. Beyond(V, E, p, q, q) BY ConnectedSelf DEF Beyond
      <4> QED BY <2>1, <2>2, <3>2, <4>1
    <3> QED BY <3>1, <3>2
  <2>3. CASE p \notin P
    <3>1. PICK a \in V, b \in V : Exit(a, b) /\ Beyond(V, E, a, b, p) BY <2>3
    <3>2. CASE e = {a, b}
      <4>1. q \in {a, b} BY <3>2
      <4>2. Beyond(V, E, a, b, b) BY ConnectedSelf DEF Beyond
      <4> QED BY <3>1, <4>1, <4>2
    <3>3. CASE e # {a, b}
      <4>1. {p, q} \in E \ {{a, b}} BY <2>1, <3>3
      <4>2. Connected(V, E \ {{a, b}}, p, q) BY <4>1, ConnectedEnds
      <4>3. Beyond(V, E, a, b, q) BY <3>1, <4>2, ConnectedTransitive DEF Beyond
      <4> QED BY <2>1, <3>1, <4>3
    <3> QED BY <3>2, <3>3
  <2> QED BY <2>2, <2>3
<1>3. Closed(E, Q)
  <2> HIDE DEF Q
  <2> QED BY <1>2 DEF Closed
<1>4. u \in Q /\ Q \in SUBSET V BY ConnectedSelf
<1>5. Connected(V, E, u, v) BY DEF IsTree
<1>6. v \in Q
  <2> HIDE DEF Q
  <2> QED BY <1>3, <1>4, <1>5 DEF Connected
<1>7. PICK a \in V, b \in V : Exit(a, b) /\ Beyond(V, E, a, b, v) BY <1>6
<1>8. {a, b} \notin G
  <2>1. Closed(G, P) BY <1>1, ComponentClosed
  <2> QED BY <1>7, <2>1 DEF Closed
<1>9. Beyond(V, E, b, a, u)
  <2>1. Connected(V, G, a, u) BY <1>1, <1>7, ConnectedSymmetric
  <2>2. G \subseteq E \ {{b, a}} BY <1>8
  <2> QED BY <2>1, <2>2, ConnectedMore DEF Beyond
<1> QED BY <1>7, <1>8, <1>9 DEF Exits

-----------------------------------------------------------------------------
(***************************************************************************)
(* Junction trees: trees over sets in which the vertices that hold x are   *)
(* connected by edges both ends of which hold x, for every x.              *)
(***************************************************************************)
Shared(e) == {x \in UNION e : \A S \in e : x \in S}
Holding(E, x) == {e \in E : x \in Shared(e)}

JunctionTreeOver(F, E) ==
  /\ IsTree(F, E)
  /\ \A x : \A u, v \in F : x \in u \cap v => Connected(F, Holding(E, x), u, v)

LEMMA SharedByTwo ==
  ASSUME NEW a, NEW b
  PROVE  Shared({a, b}) = a \cap b
BY DEF Shared

\* What a set on one side of an edge has in common with a set on the other is
\* in the sets at both ends.
LEMMA SharedAcross ==
  ASSUME NEW F, NEW J, JunctionTreeOver(F, J), NEW a \in F, NEW b \in F, {a, b} \in J,
         NEW u \in F, NEW v \in F, Beyond(F, J, b, a, u), Beyond(F, J, a, b, v)
  PROVE  u \cap v \subseteq a \cap b
<1> SUFFICES ASSUME NEW x \in u \cap v, x \notin a \cap b PROVE FALSE
  OBVIOUS
<1> DEFINE G == J \ {{a, b}}
<1>1. G \in SUBSET SUBSET F BY DEF JunctionTreeOver, IsTree, Edges
<1>2. {b, a} = {a, b} OBVIOUS
<1>3. Holding(J, x) \subseteq G BY SharedByTwo DEF Holding
<1>4. Connected(F, Holding(J, x), u, v) BY DEF JunctionTreeOver
<1>5. Connected(F, G, u, v) BY <1>3, <1>4, ConnectedMore
<1>6. Connected(F, G, a, u) /\ Connected(F, G, b, v) BY <1>2 DEF Beyond
<1>7. Connected(F, G, v, b) BY <1>1, <1>6, ConnectedSymmetric
<1>8. Connected(F, G, a, b) BY <1>5, <1>6, <1>7, ConnectedTransitive
<1> QED BY <1>8 DEF JunctionTreeOver, IsTree, Bridge

\* Within one side of an edge what holds x is connected without that edge.
LEMMA HoldingOneSide ==
  ASSUME NEW F, NEW J, JunctionTreeOver(F, J), NEW a \in F, NEW b \in F, {a, b} \in J,
         NEW u \in F, Beyond(F, J, b, a, u), NEW x \in a \cap u
  PROVE  Connected(F, Holding(J, x) \ {{a, b}}, a, u)
<1> DEFINE H == Holding(J, x) \ {{a, b}}
           G == J \ {{a, b}}
           Q == {z \in F : Connected(F, H, a, z) \/ Connected(F, H, b, z)}
<1>1. /\ H \in SUBSET SUBSET F /\ G \in SUBSET SUBSET F
      /\ H \subseteq G /\ {b, a} = {a, b}
  BY DEF JunctionTreeOver, IsTree, Edges, Holding
<1>2. Closed(Holding(J, x), Q)
  <2>3. Q = {z \in F : Connected(F, H, a, z)} \cup {z \in F : Connected(F, H, b, z)}
    OBVIOUS
  <2> HIDE DEF H, G
  <2>1. Closed(H, {z \in F : Connected(F, H, a, z)})
    BY <1>1, ComponentClosed
  <2>2. Closed(H, {z \in F : Connected(F, H, b, z)})
    BY <1>1, ComponentClosed
  <2>4. Closed(H, Q) BY <2>1, <2>2, <2>3, ClosedUnion
  <2>5. {a, b} \subseteq Q BY ConnectedSelf
  <2>6. Holding(J, x) \subseteq H \cup {{a, b}} BY DEF H
  <2> HIDE DEF Q
  <2> QED BY <2>4, <2>5, <2>6 DEF Closed
<1>3. Connected(F, Holding(J, x), a, u) BY DEF JunctionTreeOver
<1>4. a \in Q /\ Q \in SUBSET F BY ConnectedSelf
<1>5. u \in Q
  <2> HIDE DEF Q
  <2> QED BY <1>2, <1>3, <1>4 DEF Connected
<1>6. ~ Connected(F, H, b, u)
  <2> SUFFICES ASSUME Connected(F, H, b, u) PROVE FALSE
    OBVIOUS
  <2>1. Connected(F, G, b, u) /\ Connected(F, G, a, u)
    BY <1>1, ConnectedMore DEF Beyond
  <2>2. Connected(F, G, u, b) BY <1>1, <2>1, ConnectedSymmetric
  <2>3. Connected(F, G, a, b) BY <2>1, <2>2, ConnectedTransitive
  <2> QED BY <2>3 DEF JunctionTreeOver, IsTree, Bridge
<1> QED BY <1>5, <1>6

(***************************************************************************)
(* An edge of a junction tree may give way to one between sets that lie on *)
(* its two sides and have as much in common.                               *)
(***************************************************************************)
Exchanged(J, a, b, u, v) == (J \ {{a, b}}) \cup {{u, v}}

LEMMA ExchangeIsTree ==
  ASSUME NEW F, NEW J, IsTree(F, J), NEW a \in F, NEW b \in F, {a, b} \in J,
         NEW u \in F, NEW v \in F, Beyond(F, J, b, a, u), Beyond(F, J, a, b, v)
  PROVE  IsTree(F, Exchanged(J, a, b, u, v))
<1> DEFINE K == J \ {{a, b}}
           E == K \cup {{u, v}}
<1>1. K \in SUBSET SUBSET F /\ E \in SUBSET SUBSET F /\ {b, a} = {a, b} BY DEF IsTree, Edges
<1>2. /\ Connected(F, K, a, u) /\ Connected(F, K, u, a)
      /\ Connected(F, K, b, v) /\ Connected(F, K, v, b)
  BY <1>1, ConnectedSymmetric DEF Beyond
<1>3. ~ Connected(F, K, u, v)
  <2> SUFFICES ASSUME Connected(F, K, u, v) PROVE FALSE
    OBVIOUS
  <2>1. Connected(F, K, a, v) BY <1>2, ConnectedTransitive
  <2>2. Connected(F, K, a, b) BY <1>2, <2>1, ConnectedTransitive
  <2> QED BY <2>2 DEF IsTree, Bridge
<1>4. u # v BY <1>3, ConnectedSelf
<1>5. E \subseteq Edges(F)
  <2>1. {u, v} \in Edges(F) BY <1>4 DEF Edges
  <2> QED BY <2>1 DEF IsTree
<1>6. ASSUME NEW p \in F, NEW q \in F, {p, q} \in J
      PROVE  Connected(F, E, p, q)
  <2>1. CASE {p, q} # {a, b}
    <3>1. {p, q} \in E BY <1>6, <2>1
    <3> QED BY <3>1, ConnectedEnds
  <2>2. CASE {p, q} = {a, b}
    <3>1. Connected(F, E, a, u) /\ Connected(F, E, v, b) BY <1>2, ConnectedMore
    <3>2. {u, v} \in E OBVIOUS
    <3> HIDE DEF E
    <3>3. Connected(F, E, u, v) BY <3>2, ConnectedEnds
    <3>4. Connected(F, E, a, b) BY <3>1, <3>3, ConnectedTransitive
    <3>5. Connected(F, E, b, a) BY <1>1, <3>4, ConnectedSymmetric
    <3>6. (p = a /\ q = b) \/ (p = b /\ q = a) BY <2>2
    <3> QED BY <3>4, <3>5, <3>6
  <2> QED BY <2>1, <2>2
<1>7. ASSUME NEW p \in F, NEW q \in F
      PROVE  Connected(F, E, p, q)
  <2>1. J \subseteq Edges(F) /\ Connected(F, J, p, q) BY DEF IsTree
  <2> HIDE DEF E
  <2> QED BY <1>6, <2>1, ConnectedThrough
<1>8. ASSUME NEW p \in F, NEW q \in F, {p, q} \in K
      PROVE  Bridge(F, K, p, q)
  <2>1. ~ Connected(F, J \ {{p, q}}, p, q) BY <1>8 DEF IsTree, Bridge
  <2>2. K \ {{p, q}} \subseteq J \ {{p, q}} OBVIOUS
  <2> QED BY <2>1, <2>2, ConnectedMore DEF Bridge
<1>9. ASSUME NEW p \in F, NEW q \in F, {p, q} \in E
      PROVE  Bridge(F, E, p, q)
  <2>1. K \subseteq Edges(F) BY DEF IsTree
  <2> HIDE DEF K
  <2> QED BY <1>3, <1>8, <1>9, <2>1, BridgesJoined
<1>10. Exchanged(J, a, b, u, v) = E BY DEF Exchanged
<1> HIDE DEF E
<1> QED BY <1>5, <1>7, <1>9, <1>10 DEF IsTree

LEMMA ExchangeIsJunctionTree ==
  ASSUME NEW F, NEW J, JunctionTreeOver(F, J), NEW a \in F, NEW b \in F, {a, b} \in J,
         NEW u \in F, NEW v \in F, Beyond(F, J, b, a, u), Beyond(F, J, a, b, v),
         a \cap b = u \cap v
  PROVE  JunctionTreeOver(F, Exchanged(J, a, b, u, v))
<1> DEFINE E == Exchanged(J, a, b, u, v)
<1>1. IsTree(F, E) BY ExchangeIsTree DEF JunctionTreeOver
<1>2. {b, a} = {a, b} /\ E \in SUBSET SUBSET F
  BY <1>1 DEF IsTree, Edges
<1>3. ASSUME NEW x, NEW p \in F, NEW q \in F, {p, q} \in Holding(J, x)
      PROVE  Connected(F, Holding(E, x), p, q)
  <2>1. CASE {p, q} # {a, b}
    <3>1. {p, q} \in Holding(E, x) BY <1>3, <2>1 DEF Holding, Exchanged
    <3> QED BY <3>1, ConnectedEnds
  <2>2. CASE {p, q} = {a, b}
    <3> DEFINE H == Holding(J, x) \ {{a, b}}
               M == Holding(E, x)
    <3>1. x \in a \cap b BY <1>3, <2>2, SharedByTwo DEF Holding
    <3>2. H \in SUBSET SUBSET F /\ M \in SUBSET SUBSET F /\ H \subseteq M
      BY <1>2 DEF JunctionTreeOver, IsTree, Edges, Holding, Exchanged
    <3>3. Connected(F, H, a, u) BY <3>1, HoldingOneSide
    <3>4. Connected(F, H, b, v)
      <4>1. x \in b \cap v BY <3>1
      <4>2. Connected(F, Holding(J, x) \ {{b, a}}, b, v)
        BY <1>2, <4>1, HoldingOneSide
      <4> QED BY <1>2, <4>2
    <3>5. {u, v} \in M
      <4>1. x \in Shared({u, v}) BY <3>1, SharedByTwo
      <4> QED BY <4>1 DEF Holding, Exchanged
    <3> HIDE DEF H, M
    <3>6. Connected(F, M, a, u) /\ Connected(F, M, b, v) BY <3>2, <3>3, <3>4, ConnectedMore
    <3>7. Connected(F, M, v, b) BY <3>2, <3>6, ConnectedSymmetric
    <3>8. Connected(F, M, u, v) BY <3>5, ConnectedEnds
    <3>9. Connected(F, M, a, v) BY <3>6, <3>8, ConnectedTransitive
    <3>10. Connected(F, M, a, b) BY <3>7, <3>9, ConnectedTransitive
    <3>11. Connected(F, M, b, a) BY <3>2, <3>10, ConnectedSymmetric
    <3>12. (p = a /\ q = b) \/ (p = b /\ q = a) BY <2>2
    <3>13. Connected(F, M, p, q) BY <3>10, <3>11, <3>12
    <3> QED BY <3>13 DEF M
  <2> QED BY <2>1, <2>2
<1>4. ASSUME NEW x, NEW p \in F, NEW q \in F, x \in p \cap q
      PROVE  Connected(F, Holding(E, x), p, q)
  <2>1. Connected(F, Holding(J, x), p, q) BY <1>4 DEF JunctionTreeOver
  <2>2. Holding(J, x) \subseteq Edges(F) BY DEF JunctionTreeOver, IsTree, Holding
  <2> HIDE DEF E
  <2> QED BY <1>3, <2>1, <2>2, ConnectedThrough
<1> HIDE DEF E
<1> QED BY <1>1, <1>4 DEF JunctionTreeOver, E

(***************************************************************************)
(* A set whose members occur elsewhere only together with those of one     *)
(* set hangs from it as a leaf.                                            *)
(***************************************************************************)
LEMMA LeafIsTree ==
  ASSUME NEW F, NEW J, IsTree(F, J), NEW d \in F, NEW c, c \notin F
  PROVE  IsTree(F \cup {c}, J \cup {{c, d}})
<1> DEFINE V == F \cup {c}
           E == J \cup {{c, d}}
<1>1. /\ J \in SUBSET SUBSET F /\ E \subseteq Edges(V) /\ E \in SUBSET SUBSET V
      /\ J \subseteq Edges(V) /\ {d, c} = {c, d}
  BY DEF IsTree, Edges
<1>2. ASSUME NEW p \in F PROVE Connected(V, E, p, d) /\ Connected(V, E, d, p)
  <2>1. Connected(F, J, p, d) BY DEF IsTree
  <2>2. Connected(V, J, p, d) BY <1>1, <2>1, ConnectedWider
  <2>3. Connected(V, E, p, d) BY <2>2, ConnectedMore
  <2> HIDE DEF V, E
  <2>4. d \in V /\ p \in V BY DEF V
  <2> QED BY <1>1, <2>3, <2>4, ConnectedSymmetric
<1>3. Connected(V, E, c, d) /\ Connected(V, E, d, c) BY <1>1, ConnectedEnds
<1>4. ASSUME NEW p \in V, NEW q \in V PROVE Connected(V, E, p, q)
  <2>1. Connected(V, E, p, d) /\ Connected(V, E, d, q) BY <1>2, <1>3
  <2> QED BY <2>1, ConnectedTransitive
<1>5. ~ Connected(V, J, d, c)
  <2>1. Closed(J, F) BY <1>1 DEF Closed
  <2>2. F \in SUBSET V OBVIOUS
  <2> QED BY <2>1, <2>2 DEF Connected
<1>6. ASSUME NEW p \in V, NEW q \in V, {p, q} \in J PROVE Bridge(V, J, p, q)
  <2>1. p \in F /\ q \in F /\ J \ {{p, q}} \in SUBSET SUBSET F BY <1>1, <1>6
  <2>2. ~ Connected(F, J \ {{p, q}}, p, q) BY <1>6, <2>1 DEF IsTree, Bridge
  <2> QED BY <2>1, <2>2, ConnectedWider DEF Bridge
<1>7. ASSUME NEW p \in V, NEW q \in V, {p, q} \in E PROVE Bridge(V, E, p, q)
  <2>1. d \in V /\ c \in V /\ E = J \cup {{d, c}} BY <1>1
  <2> HIDE DEF V
  <2> QED BY <1>1, <1>5, <1>6, <1>7, <2>1, BridgesJoined
<1> HIDE DEF V, E
<1>8. IsTree(V, E) BY <1>1, <1>4, <1>7 DEF IsTree
<1> QED BY <1>8 DEF V, E

LEMMA LeafIsJunctionTree ==
  ASSUME NEW F, NEW J, JunctionTreeOver(F, J), NEW d \in F, NEW c, c \notin F,
         \A S \in F : c \cap S \subseteq d
  PROVE  JunctionTreeOver(F \cup {c}, J \cup {{c, d}})
<1> DEFINE V == F \cup {c}
           E == J \cup {{c, d}}
<1>1. IsTree(V, E) BY LeafIsTree DEF JunctionTreeOver
<1>2. /\ E \in SUBSET SUBSET V /\ {d, c} = {c, d}
      /\ J \in SUBSET SUBSET F
  BY <1>1 DEF IsTree, Edges, JunctionTreeOver
<1>3. ASSUME NEW x, NEW p \in F, NEW q \in F, x \in p \cap q
      PROVE  Connected(V, Holding(E, x), p, q)
  <2>1. Connected(F, Holding(J, x), p, q) BY <1>3 DEF JunctionTreeOver
  <2>2. Holding(J, x) \in SUBSET SUBSET F /\ F \subseteq V BY <1>2 DEF Holding
  <2>3. Connected(V, Holding(J, x), p, q) BY <2>1, <2>2, ConnectedWider
  <2>4. Holding(J, x) \subseteq Holding(E, x) BY DEF Holding
  <2> QED BY <2>3, <2>4, ConnectedMore
<1>4. ASSUME NEW x, NEW q \in F, x \in c \cap q
      PROVE  Connected(V, Holding(E, x), c, q) /\ Connected(V, Holding(E, x), q, c)
  <2>1. x \in d \cap q /\ x \in c \cap d BY <1>4
  <2>2. Connected(V, Holding(E, x), d, q) BY <1>3, <2>1
  <2>3. {c, d} \in Holding(E, x) BY <2>1, SharedByTwo DEF Holding
  <2>4. Connected(V, Holding(E, x), c, d) BY <2>3, ConnectedEnds
  <2>5. Connected(V, Holding(E, x), c, q) BY <2>2, <2>4, ConnectedTransitive
  <2>6. Holding(E, x) \in SUBSET SUBSET V /\ c \in V /\ q \in V BY <1>2 DEF Holding
  <2> HIDE DEF V, E
  <2> QED BY <2>5, <2>6, ConnectedSymmetric
<1>5. ASSUME NEW x, NEW p \in V, NEW q \in V, x \in p \cap q
      PROVE  Connected(V, Holding(E, x), p, q)
  <2>1. CASE p = c /\ q = c BY <2>1, ConnectedSelf
  <2>2. CASE p = c /\ q # c BY <1>4, <1>5, <2>2
  <2>3. CASE p # c /\ q = c BY <1>4, <1>5, <2>3
  <2>4. CASE p # c /\ q # c BY <1>3, <1>5, <2>4
  <2> QED BY <2>1, <2>2, <2>3, <2>4
<1> HIDE DEF V, E
<1>6. JunctionTreeOver(V, E) BY <1>1, <1>5 DEF JunctionTreeOver
<1> QED BY <1>6 DEF V, E

LEMMA LonelyJunctionTree ==
  ASSUME NEW F, \A u, v \in F : u = v
  PROVE  JunctionTreeOver(F, {})
BY ConnectedSelf DEF JunctionTreeOver, IsTree, Edges

(***************************************************************************)
(* A set inside its neighbour on the way to a set that contains it can be  *)
(* merged with that neighbour, which takes over its other neighbours.      *)
(***************************************************************************)
AbsorbedInto(J, A, C) ==
  {e \in J : A \notin e} \cup {{C, n} : n \in {m \in UNION J : {A, m} \in J /\ m # C /\ m # A}}

Widened(P, A, C) == P \cup (IF C \in P THEN {A} ELSE {})

LEMMA AbsorbedClosed ==
  ASSUME NEW F, NEW H, H \subseteq Edges(F), NEW A \in F, NEW C \in F, A # C,
         NEW E, NEW P \in SUBSET (F \ {A}), Closed(E, P),
         \A e \in H : A \notin e => e \in E,
         \A n \in F : {A, n} \in H /\ n # C => {C, n} \in E
  PROVE  Closed(H, Widened(P, A, C))
<1> DEFINE Q == Widened(P, A, C)
<1> USE DEF Widened
<1> SUFFICES ASSUME NEW e \in H, NEW p \in e \cap Q, NEW q \in e, p # q
             PROVE  q \in Q
  BY DEF Closed
<1>1. p \in F /\ q \in F /\ e = {p, q} BY DEF Edges
<1>2. CASE A \notin e
  <2>1. e \in E /\ p \in P BY <1>2
  <2> QED BY <2>1 DEF Closed
<1>3. CASE p = A
  <2>1. C \in P BY <1>3
  <2>2. CASE q = C BY <2>1, <2>2
  <2>3. CASE q # C
    <3>1. {C, q} \in E BY <1>1, <1>3, <2>3
    <3> QED BY <2>1, <3>1 DEF Closed
  <2> QED BY <2>2, <2>3
<1>4. CASE q = A
  <2>1. p \in P BY <1>4
  <2>2. CASE p = C BY <1>4, <2>1, <2>2
  <2>3. CASE p # C
    <3>1. {A, p} \in H BY <1>1, <1>4
    <3>2. {C, p} \in E BY <1>1, <2>3, <3>1
    <3>3. C \in P BY <2>1, <3>2 DEF Closed
    <3> QED BY <1>4, <3>3
  <2> QED BY <2>2, <2>3
<1> QED BY <1>1, <1>2, <1>3, <1>4

\* Connection carries over from the tree to what remains of it.
LEMMA AbsorbedConnected ==
  ASSUME NEW F, NEW H, H \subseteq Edges(F), NEW A \in F, NEW C \in F, A # C,
         NEW E,
         \A e \in H : A \notin e => e \in E,
         \A n \in F : {A, n} \in H /\ n # C => {C, n} \in E,
         NEW p \in F \ {A}, NEW q \in F \ {A}, Connected(F, H, p, q)
  PROVE  Connected(F \ {A}, E, p, q)
<1> SUFFICES ASSUME NEW P \in SUBSET (F \ {A}), p \in P, Closed(E, P)
             PROVE  q \in P
  BY DEF Connected
<1>1. Closed(H, Widened(P, A, C)) BY AbsorbedClosed
<1>2. p \in Widened(P, A, C) /\ Widened(P, A, C) \in SUBSET F BY DEF Widened
<1>3. q \in Widened(P, A, C) BY <1>1, <1>2 DEF Connected
<1> QED BY <1>3 DEF Widened

\* E keeps the edges of J away from A and hands the others over to C.
TakesOver(F, J, A, C, E) ==
  /\ E \subseteq Edges(F \ {A})
  /\ \A e \in J : A \notin e => e \in E
  /\ \A n \in F : {A, n} \in J /\ n # C => {C, n} \in E
  /\ \A e \in E :
       \/ e \in J /\ A \notin e
       \/ \E n \in F : e = {C, n} /\ {A, n} \in J /\ n # C /\ n # A

LEMMA AbsorbedEdges ==
  ASSUME NEW F, NEW J, J \subseteq Edges(F), NEW A \in F, NEW C \in F, A # C
  PROVE  TakesOver(F, J, A, C, AbsorbedInto(J, A, C))
<1>1. \A n : {A, n} \in J => n # A /\ n \in F /\ n \in UNION J BY DEF Edges
<1>2. \A n \in F : {A, n} \in J /\ n # C => {C, n} \in AbsorbedInto(J, A, C)
  BY <1>1 DEF AbsorbedInto
<1>3. ASSUME NEW e \in AbsorbedInto(J, A, C)
      PROVE  \/ e \in J /\ A \notin e
             \/ \E n \in F : e = {C, n} /\ {A, n} \in J /\ n # C /\ n # A
  BY <1>1, <1>3 DEF AbsorbedInto
<1>4. AbsorbedInto(J, A, C) \subseteq Edges(F \ {A})
  <2> SUFFICES ASSUME NEW e \in AbsorbedInto(J, A, C) PROVE e \in Edges(F \ {A})
    OBVIOUS
  <2>1. CASE e \in J /\ A \notin e BY <2>1 DEF Edges
  <2>2. CASE \E n \in F : e = {C, n} /\ {A, n} \in J /\ n # C /\ n # A
    BY <2>2 DEF Edges
  <2> QED BY <1>3, <2>1, <2>2
<1> QED BY <1>2, <1>3, <1>4 DEF AbsorbedInto, TakesOver

LEMMA AbsorbedApart ==
  ASSUME NEW F, NEW G, G \subseteq Edges(F), NEW A, NEW C, A # C, {A, C} \in G, NEW E,
         \A e \in E : (e \in G /\ A \notin e) \/ \E n \in F : e = {C, n} /\ {A, n} \in G /\ n # A,
         NEW p \in F \ {A}, NEW q \in F \ {A},
         NEW r \in {A, p}, r = A => p = C, ~ Connected(F, G, r, q)
  PROVE  ~ Connected(F \ {A}, E, p, q)
<1> DEFINE D == {z \in F : Connected(F, G, r, z)}
<1>1. G \in SUBSET SUBSET F /\ A \in F /\ C \in F /\ r \in F BY DEF Edges
<1>2. Closed(G, D) /\ r \in D BY <1>1, ComponentClosed, ConnectedSelf
<1>3. q \notin D OBVIOUS
<1> HIDE DEF D
<1>4. A \in D <=> C \in D BY <1>2 DEF Closed
<1>5. p \in D BY <1>2, <1>4
<1>6. ASSUME NEW e \in E, e \cap (D \ {A}) # {} PROVE e \subseteq D \ {A}
  <2>1. CASE e \in G /\ A \notin e BY <1>2, <1>6, <2>1 DEF Closed
  <2>2. CASE \E n \in F : e = {C, n} /\ {A, n} \in G /\ n # A
    <3>1. PICK n \in F : e = {C, n} /\ {A, n} \in G /\ n # A BY <2>2
    <3>2. A \in D <=> n \in D BY <1>2, <3>1 DEF Closed
    <3> QED BY <1>4, <1>6, <3>1, <3>2
  <2> QED BY <2>1, <2>2
<1>7. Closed(E, D \ {A}) BY <1>6 DEF Closed
<1>8. D \ {A} \in SUBSET (F \ {A}) /\ p \in D \ {A} /\ q \notin D \ {A}
  BY <1>3, <1>5 DEF D
<1> QED BY <1>7, <1>8 DEF Connected

LEMMA AbsorbedIsTree ==
  ASSUME NEW F, NEW J, IsTree(F, J), NEW A \in F, NEW C \in F, {A, C} \in J
  PROVE  IsTree(F \ {A}, AbsorbedInto(J, A, C))
<1> DEFINE V == F \ {A}
           E == AbsorbedInto(J, A, C)
<1>1. A # C /\ J \subseteq Edges(F)
  <2>1. J \subseteq Edges(F) BY DEF IsTree
  <2> QED BY <2>1 DEF Edges
<1>0. TakesOver(F, J, A, C, E) BY <1>1, AbsorbedEdges
<1>2. /\ E \subseteq Edges(V)
      /\ \A e \in J : A \notin e => e \in E
      /\ \A n \in F : {A, n} \in J /\ n # C => {C, n} \in E
      /\ \A e \in E :
           \/ e \in J /\ A \notin e
           \/ \E n \in F : e = {C, n} /\ {A, n} \in J /\ n # C /\ n # A
  BY <1>0 DEF TakesOver
<1> HIDE DEF E
<1>3. ASSUME NEW p \in V, NEW q \in V PROVE Connected(V, E, p, q)
  <2>1. Connected(F, J, p, q) BY DEF IsTree
  <2> QED BY <1>1, <1>2, <2>1, AbsorbedConnected
<1>4. ASSUME NEW p \in V, NEW q \in V, {p, q} \in J PROVE Bridge(V, E, p, q)
  <2> DEFINE G == J \ {{p, q}}
             K == E \ {{p, q}}
  <2>1. G \subseteq Edges(F) /\ {A, C} \in G BY <1>1
  <2>2. ~ Connected(F, G, p, q) BY <1>4 DEF IsTree, Bridge
  <2>3. ASSUME NEW e \in K
        PROVE  (e \in G /\ A \notin e) \/ \E n \in F : e = {C, n} /\ {A, n} \in G /\ n # A
    <3>1. CASE e \in J /\ A \notin e BY <3>1
    <3>2. CASE \E n \in F : e = {C, n} /\ {A, n} \in J /\ n # C /\ n # A
      <4>1. \A n : {A, n} # {p, q} OBVIOUS
      <4> QED BY <3>2, <4>1
    <3> QED BY <1>2, <3>1, <3>2
  <2> HIDE DEF G, K
  <2>4. p \in {A, p} /\ p # A OBVIOUS
  <2>5. ~ Connected(V, K, p, q) BY <1>1, <2>1, <2>2, <2>3, <2>4, AbsorbedApart
  <2> QED BY <2>5 DEF Bridge, K
<1>5. ASSUME NEW n \in V, {A, n} \in J, n # C, C \in V
      PROVE  Bridge(V, E, C, n)
  <2> DEFINE G == J \ {{A, n}}
             K == E \ {{C, n}}
  <2>1. G \subseteq Edges(F) /\ {A, C} \in G
    <3>1. {A, C} # {A, n} BY <1>5
    <3> QED BY <1>1, <3>1
  <2>2. ~ Connected(F, G, A, n) BY <1>5 DEF IsTree, Bridge
  <2>3. ASSUME NEW e \in K
        PROVE  (e \in G /\ A \notin e) \/ \E m \in F : e = {C, m} /\ {A, m} \in G /\ m # A
    <3>1. CASE e \in J /\ A \notin e BY <3>1
    <3>2. CASE \E m \in F : e = {C, m} /\ {A, m} \in J /\ m # C /\ m # A
      <4>1. PICK m \in F : e = {C, m} /\ {A, m} \in J /\ m # A BY <3>2
      <4>2. m # n BY <4>1
      <4>3. {A, m} # {A, n} BY <4>1, <4>2
      <4> QED BY <4>1, <4>3
    <3> QED BY <1>2, <3>1, <3>2
  <2> HIDE DEF G, K
  <2>4. A \in {A, C} OBVIOUS
  <2>5. ~ Connected(V, K, C, n) BY <1>1, <1>5, <2>1, <2>2, <2>3, <2>4, AbsorbedApart
  <2> QED BY <2>5 DEF Bridge, K
<1>6. ASSUME NEW p \in V, NEW q \in V, {p, q} \in E PROVE Bridge(V, E, p, q)
  <2>1. CASE {p, q} \in J BY <1>4, <2>1
  <2>2. CASE {p, q} \notin J
    <3>1. PICK n \in F : {p, q} = {C, n} /\ {A, n} \in J /\ n # C /\ n # A
      BY <1>2, <1>6, <2>2
    <3>2. C \in V /\ n \in V BY <1>1, <3>1
    <3>3. ~ Connected(V, E \ {{C, n}}, C, n) BY <1>5, <3>1, <3>2 DEF Bridge
    <3>4. E \ {{C, n}} \in SUBSET SUBSET V BY <1>2 DEF Edges
    <3>5. ~ Connected(V, E \ {{C, n}}, n, C)
      <4> HIDE DEF V
      <4> QED BY <3>2, <3>3, <3>4, ConnectedSymmetric
    <3>6. (p = C /\ q = n) \/ (p = n /\ q = C) BY <3>1
    <3> QED BY <3>1, <3>3, <3>5, <3>6 DEF Bridge
  <2> QED BY <2>1, <2>2
<1> HIDE DEF V
<1>7. IsTree(V, E) BY <1>2, <1>3, <1>6 DEF IsTree
<1> QED BY <1>7 DEF V, E

LEMMA ContainedAbsorbed ==
  ASSUME NEW F, NEW J, JunctionTreeOver(F, J), NEW A \in F, NEW B \in F, A # B, A \subseteq B
  PROVE  \E E : JunctionTreeOver(F \ {A}, E)
<1>1. IsTree(F, J) BY DEF JunctionTreeOver
<1>2. PICK C \in F : {A, C} \in J /\ Beyond(F, J, A, C, B)
  BY <1>1, SomeSide
<1>3. A # C /\ J \subseteq Edges(F) BY <1>1, <1>2 DEF IsTree, Edges
<1>4. A \subseteq C
  <2>1. Beyond(F, J, C, A, A) BY ConnectedSelf DEF Beyond
  <2>2. A \cap B \subseteq A \cap C BY <1>2, <2>1, SharedAcross
  <2> QED BY <2>2
<1> DEFINE V == F \ {A}
           E == AbsorbedInto(J, A, C)
<1>5. IsTree(V, E) BY <1>1, <1>2, AbsorbedIsTree
<1>6. ASSUME NEW x, NEW p \in V, NEW q \in V, x \in p \cap q
      PROVE  Connected(V, Holding(E, x), p, q)
  <2> DEFINE H == Holding(J, x)
             M == Holding(E, x)
  <2>1. H \subseteq Edges(F) BY <1>3 DEF Holding
  <2>2. \A e \in H : A \notin e => e \in M BY <1>3, AbsorbedEdges DEF Holding, TakesOver
  <2>3. ASSUME NEW n \in F, {A, n} \in H, n # C PROVE {C, n} \in M
    <3>1. {A, n} \in J /\ x \in A \cap n BY <2>3, SharedByTwo DEF Holding
    <3>2. {C, n} \in E BY <1>3, <2>3, <3>1, AbsorbedEdges DEF TakesOver
    <3>3. x \in Shared({C, n}) BY <1>4, <3>1, SharedByTwo
    <3> QED BY <3>2, <3>3 DEF Holding
  <2>4. Connected(F, H, p, q) BY <1>6 DEF JunctionTreeOver
  <2> HIDE DEF H, M, E
  <2>5. Connected(V, M, p, q) BY <1>3, <2>1, <2>2, <2>3, <2>4, AbsorbedConnected
  <2> QED BY <2>5 DEF M
<1> HIDE DEF V, E
<1>7. JunctionTreeOver(V, E) BY <1>5, <1>6 DEF JunctionTreeOver
<1> QED BY <1>7 DEF V

-----------------------------------------------------------------------------
(***************************************************************************)
(* Induction over the subsets of a finite set, for a property given as the *)
(* set Q of those that have it.                                            *)
(***************************************************************************)
LEMMA FiniteInduction ==
  ASSUME NEW S, IsFiniteSet(S), NEW Q,
         \A T \in SUBSET S : (\A x \in T : T \ {x} \in Q) => T \in Q
  PROVE  \A T \in SUBSET S : T \in Q
<1> DEFINE Bad == {n \in Nat : \E T \in SUBSET S : Cardinality(T) = n /\ T \notin Q}
<1> SUFFICES ASSUME NEW R \in SUBSET S, R \notin Q PROVE FALSE
  OBVIOUS
<1>1. \A T \in SUBSET S : IsFiniteSet(T) /\ Cardinality(T) \in Nat
  BY FS_Subset, FS_CardinalityType
<1>2. Bad \subseteq Nat /\ Bad # {} BY <1>1
<1>3. PICK n \in Bad : \A k \in Bad : ~ (<<k, n>> \in OpToRel(<, Nat))
  <2> HIDE DEF Bad
  <2> QED BY <1>2, WFMin, NatLessThanWellFounded
<1>4. n \in Nat /\ \A k \in Bad : ~ (k < n)
  <2>1. n \in Nat BY <1>2
  <2> HIDE DEF Bad
  <2> QED BY <1>2, <1>3, <2>1 DEF OpToRel
<1>5. PICK T \in SUBSET S : Cardinality(T) = n /\ T \notin Q
  OBVIOUS
<1>6. ASSUME NEW x \in T PROVE T \ {x} \in Q
  <2>1. Cardinality(T \ {x}) = n - 1 BY <1>1, <1>5, FS_RemoveElement
  <2>2. T \ {x} \in SUBSET S /\ n - 1 \in Nat BY <1>1, <2>1
  <2> SUFFICES ASSUME T \ {x} \notin Q PROVE FALSE
    OBVIOUS
  <2>3. n - 1 \in Bad BY <2>1, <2>2
  <2> HIDE DEF Bad
  <2> QED BY <1>4, <2>3, n - 1 < n
<1> QED BY <1>5, <1>6

(***************************************************************************)
(* Induction over an interval, likewise, and what a loop that takes step   *)
(* st[k] in round k computes.                                              *)
(***************************************************************************)
LEMMA LeastMember ==
  ASSUME NEW T, T \subseteq Nat, T # {}
  PROVE  \E n \in T : \A m \in T : ~ (m < n)
<1>1. PICK n \in T : \A m \in T : ~ (<<m, n>> \in OpToRel(<, Nat))
  BY WFMin, NatLessThanWellFounded
<1>2. \A m \in T : m \in Nat OBVIOUS
<1> QED BY <1>1, <1>2 DEF OpToRel

LEMMA IntervalInduction ==
  ASSUME NEW n \in Nat, NEW a \in 0 .. n, NEW Q, a \in Q,
         \A k \in a + 1 .. n : k - 1 \in Q => k \in Q
  PROVE  \A k \in a .. n : k \in Q
<1> DEFINE Bad == {k \in a .. n : k \notin Q}
<1> SUFFICES ASSUME Bad # {} PROVE FALSE
  OBVIOUS
<1>1. Bad \subseteq Nat /\ Bad # {} OBVIOUS
<1>2. PICK k \in Bad : \A m \in Bad : ~ (m < k)
  <2> HIDE DEF Bad
  <2> QED BY <1>1, LeastMember
<1>3. k \in a .. n /\ k \notin Q /\ k # a OBVIOUS
<1>4. k \in a + 1 .. n /\ k - 1 \in a .. n /\ k - 1 < k BY <1>3
<1>5. k - 1 \in Bad BY <1>3, <1>4
<1> QED
  <2> HIDE DEF Bad
  <2> QED BY <1>2, <1>4, <1>5

LoopOf(f, a, n, S, base, st) ==
  /\ f \in [a .. n -> S]
  /\ f[a] = base
  /\ \A k \in a + 1 .. n : f[k] = st[k][f[k - 1]]

LEMMA LoopExists ==
  ASSUME NEW n \in Nat, NEW a \in 0 .. n, NEW S, NEW base \in S, NEW st,
         \A k \in a + 1 .. n : \A s \in S : st[k][s] \in S
  PROVE  \E f : LoopOf(f, a, n, S, base, st)
<1> DEFINE P(m, f) == f[a] = base /\ \A k \in a + 1 .. m : f[k] = st[k][f[k - 1]]
           Q == {m \in a .. n : \E f \in [a .. m -> S] : P(m, f)}
<1>1. a \in Q
  <2> DEFINE f == [k \in a .. a |-> base]
  <2>1. a \in a .. n /\ f \in [a .. a -> S] /\ f[a] = base /\ a + 1 .. a = {} OBVIOUS
  <2> QED BY <2>1
<1>2. ASSUME NEW m \in a + 1 .. n, m - 1 \in Q PROVE m \in Q
  <2>1. PICK h \in [a .. m - 1 -> S] : P(m - 1, h) BY <1>2
  <2> DEFINE f == [k \in a .. m |-> IF k = m THEN st[m][h[m - 1]] ELSE h[k]]
  <2>2. m \in a .. n /\ m - 1 \in a .. m - 1 /\ a # m /\ a \in a .. m OBVIOUS
  <2>3. \A k \in a .. m : k # m => k \in a .. m - 1 OBVIOUS
  <2>4. f \in [a .. m -> S] BY <2>2, <2>3
  <2>5. f[a] = base BY <2>1, <2>2
  <2>6. ASSUME NEW k \in a + 1 .. m PROVE f[k] = st[k][f[k - 1]]
    <3>1. k \in a .. m /\ k - 1 \in a .. m /\ k - 1 # m OBVIOUS
    <3>2. f[k - 1] = h[k - 1] BY <3>1
    <3>3. CASE k = m BY <3>1, <3>2, <3>3
    <3>4. CASE k # m
      <4>1. k \in a + 1 .. m - 1 BY <3>4
      <4> QED BY <2>1, <3>1, <3>2, <3>4, <4>1
    <3> QED BY <3>3, <3>4
  <2> HIDE DEF f
  <2> QED BY <2>2, <2>4, <2>5, <2>6
<1>3. \A m \in a .. n : m \in Q
  <2> HIDE DEF Q
  <2> QED BY <1>1, <1>2, IntervalInduction
<1>4. n \in Q BY <1>3
<1> QED BY <1>4 DEF LoopOf

(***************************************************************************)
(* Quotients and remainders.                                               *)
(***************************************************************************)
LEMMA DivUnique ==
  ASSUME NEW a \in Nat, NEW b \in Nat \ {0}, NEW q \in Nat, NEW r \in Nat, r < b, a = q * b + r
  PROVE  a \div b = q /\ a % b = r
OBVIOUS

LEMMA DivMod ==
  ASSUME NEW a \in Nat, NEW b \in Nat \ {0}
  PROVE  /\ a \div b \in Nat /\ a % b \in Nat /\ a % b < b
         /\ a = ((a \div b) * b) + (a % b)
OBVIOUS

LEMMA DivBound ==
  ASSUME NEW a \in Nat, NEW b \in Nat \ {0}, NEW c \in Nat, a < b * c
  PROVE  a \div b < c
OBVIOUS

(***************************************************************************)
(* With an associative and commutative operation, what a finite set folds  *)
(* to does not depend on the order in which its elements are taken.        *)
(***************************************************************************)
Op(op, a, b) == op[a][b]

Monoid(T, op) ==
  /\ \A a, b \in T : Op(op, a, b) \in T /\ Op(op, a, b) = Op(op, b, a)
  /\ \A a, b, c \in T : Op(op, a, Op(op, b, c)) = Op(op, Op(op, a, b), c)

LEMMA Swapped ==
  ASSUME NEW T, NEW op, Monoid(T, op), NEW a \in T, NEW b \in T, NEW c \in T
  PROVE  Op(op, a, Op(op, b, c)) = Op(op, b, Op(op, a, c))
BY DEF Monoid

FoldOf(g, S, T, op, base, f) ==
  /\ g \in [SUBSET S -> T]
  /\ g[{}] = base
  /\ \A s \in SUBSET S : \A x \in s : g[s] = Op(op, f[x], g[s \ {x}])

LEMMA FoldExists ==
  ASSUME NEW S, IsFiniteSet(S), NEW T, NEW op, Monoid(T, op), NEW base \in T,
         NEW f, \A x \in S : f[x] \in T
  PROVE  \E g : FoldOf(g, S, T, op, base, f)
<1> DEFINE Q == {R \in SUBSET S : \E g : FoldOf(g, R, T, op, base, f)}
<1>1. ASSUME NEW R \in SUBSET S, \A x \in R : R \ {x} \in Q PROVE R \in Q
  <2>1. CASE R = {}
    <3>1. FoldOf([s \in SUBSET R |-> base], R, T, op, base, f) BY <2>1 DEF FoldOf
    <3> QED BY <3>1
  <2>2. CASE R # {}
    <3>1. PICK x \in R : TRUE BY <2>2
    <3>2. PICK h : FoldOf(h, R \ {x}, T, op, base, f) BY <1>1
    <3> DEFINE g == [s \in SUBSET R |-> IF x \in s THEN Op(op, f[x], h[s \ {x}]) ELSE h[s]]
    <3>3. ASSUME NEW s \in SUBSET R
          PROVE  h[s \ {x}] \in T /\ (x \notin s => h[s] \in T)
      <4>1. s \ {x} \in SUBSET (R \ {x}) /\ (x \notin s => s \in SUBSET (R \ {x}))
        OBVIOUS
      <4> QED BY <3>2, <4>1 DEF FoldOf
    <3>4. g \in [SUBSET R -> T] BY <3>3 DEF Monoid
    <3>5. g[{}] = base BY <3>2 DEF FoldOf
    <3>6. ASSUME NEW s \in SUBSET R, NEW y \in s PROVE g[s] = Op(op, f[y], g[s \ {y}])
      <4>1. CASE y = x BY <4>1
      <4>2. CASE y # x /\ x \notin s
        <5>1. h[s] = Op(op, f[y], h[s \ {y}]) BY <3>2, <4>2 DEF FoldOf
        <5> QED BY <4>2, <5>1
      <4>3. CASE y # x /\ x \in s
        <5> DEFINE u == s \ {x}
                   w == u \ {y}
        <5>1. u \in SUBSET (R \ {x}) /\ y \in u /\ w = (s \ {y}) \ {x} BY <4>3
        <5>2. h[u] = Op(op, f[y], h[w]) BY <3>2, <5>1 DEF FoldOf
        <5>3. g[s] = Op(op, f[x], h[u]) /\ g[s \ {y}] = Op(op, f[x], h[w]) BY <4>3, <5>1
        <5>4. f[x] \in T /\ f[y] \in T /\ h[w] \in T BY <3>2, <5>1 DEF FoldOf
        <5> HIDE DEF g, u, w
        <5> QED BY <5>2, <5>3, <5>4, Swapped
      <4> QED BY <4>1, <4>2, <4>3
    <3>7. FoldOf(g, R, T, op, base, f)
      <4> HIDE DEF g
      <4> QED BY <3>4, <3>5, <3>6 DEF FoldOf
    <3> QED BY <3>7
  <2> QED BY <2>1, <2>2
<1>2. \A R \in SUBSET S : R \in Q
  <2> HIDE DEF Q
  <2> QED BY <1>1, FiniteInduction
<1> QED BY <1>2

LEMMA FoldAlike ==
  ASSUME NEW S, IsFiniteSet(S), NEW T, NEW op, NEW base, NEW f,
         NEW g, FoldOf(g, S, T, op, base, f),
         NEW R \in SUBSET S, NEW h, FoldOf(h, R, T, op, base, f)
  PROVE  g[R] = h[R]
<1> DEFINE Q == {s \in SUBSET R : g[s] = h[s]}
<1>1. ASSUME NEW s \in SUBSET R, \A x \in s : s \ {x} \in Q PROVE s \in Q
  <2>1. CASE s = {} BY <2>1 DEF FoldOf
  <2>2. CASE s # {}
    <3>1. PICK x \in s : TRUE BY <2>2
    <3>2. g[s] = Op(op, f[x], g[s \ {x}]) /\ h[s] = Op(op, f[x], h[s \ {x}])
      BY <3>1 DEF FoldOf
    <3> QED BY <1>1, <3>2
  <2> QED BY <2>1, <2>2
<1>2. IsFiniteSet(R) BY FS_Subset
<1>3. \A s \in SUBSET R : s \in Q
  <2> HIDE DEF Q
  <2> QED BY <1>1, <1>2, FiniteInduction
<1> QED BY <1>3

Total(T, op, base, f, S) == (CHOOSE g : FoldOf(g, S, T, op, base, f))[S]

LEMMA TotalIsFold ==
  ASSUME NEW S, IsFiniteSet(S), NEW T, NEW op, Monoid(T, op), NEW base \in T,
         NEW f, \A x \in S : f[x] \in T,
         NEW g, FoldOf(g, S, T, op, base, f), NEW R \in SUBSET S
  PROVE  Total(T, op, base, f, R) = g[R]
<1>1. IsFiniteSet(R) /\ \A x \in R : f[x] \in T BY FS_Subset
<1>2. \E h : FoldOf(h, R, T, op, base, f) BY <1>1, FoldExists
<1> DEFINE h == CHOOSE h : FoldOf(h, R, T, op, base, f)
<1>3. FoldOf(h, R, T, op, base, f) BY <1>2
<1> HIDE DEF h
<1>4. g[R] = h[R] BY <1>3, FoldAlike
<1> QED BY <1>4 DEF Total, h

LEMMA TotalLaws ==
  ASSUME NEW S, IsFiniteSet(S), NEW T, NEW op, Monoid(T, op), NEW base \in T,
         NEW f, \A x \in S : f[x] \in T
  PROVE  /\ Total(T, op, base, f, S) \in T
         /\ S = {} => Total(T, op, base, f, S) = base
         /\ \A x \in S :
              /\ Total(T, op, base, f, S \ {x}) \in T
              /\ Total(T, op, base, f, S) = Op(op, f[x], Total(T, op, base, f, S \ {x}))
<1>1. PICK g : FoldOf(g, S, T, op, base, f) BY FoldExists
<1>2. ASSUME NEW R \in SUBSET S PROVE Total(T, op, base, f, R) = g[R] /\ g[R] \in T
  <2>1. Total(T, op, base, f, R) = g[R] BY <1>1, TotalIsFold
  <2> QED BY <1>1, <2>1 DEF FoldOf
<1>3. S = {} => g[S] = base BY <1>1 DEF FoldOf
<1>4. \A x \in S : g[S] = Op(op, f[x], g[S \ {x}]) BY <1>1 DEF FoldOf
<1> QED BY <1>2, <1>3, <1>4

LEMMA TotalSame ==
  ASSUME NEW S, IsFiniteSet(S), NEW T, NEW op, Monoid(T, op), NEW base \in T,
         NEW f, NEW h, \A x \in S : f[x] \in T /\ h[x] = f[x]
  PROVE  Total(T, op, base, h, S) = Total(T, op, base, f, S)
<1> DEFINE Q == {R \in SUBSET S : Total(T, op, base, h, R) = Total(T, op, base, f, R)}
<1>1. ASSUME NEW R \in SUBSET S, \A x \in R : R \ {x} \in Q PROVE R \in Q
  <2>0. IsFiniteSet(R) /\ \A x \in R : f[x] \in T /\ h[x] \in T /\ h[x] = f[x] BY FS_Subset
  <2>1. CASE R = {}
    <3>1. Total(T, op, base, f, R) = base BY <2>0, <2>1, TotalLaws
    <3>2. Total(T, op, base, h, R) = base BY <2>0, <2>1, TotalLaws
    <3> QED BY <3>1, <3>2
  <2>2. CASE R # {}
    <3>1. PICK x \in R : TRUE BY <2>2
    <3>2. Total(T, op, base, f, R) = Op(op, f[x], Total(T, op, base, f, R \ {x}))
      BY <2>0, TotalLaws
    <3>3. Total(T, op, base, h, R) = Op(op, h[x], Total(T, op, base, h, R \ {x}))
      BY <2>0, TotalLaws
    <3> QED BY <1>1, <2>0, <3>2, <3>3
  <2> QED BY <2>1, <2>2
<1>2. \A R \in SUBSET S : R \in Q
  <2> HIDE DEF Q
  <2> QED BY <1>1, FiniteInduction
<1> QED BY <1>2

LEMMA TotalReordered ==
  ASSUME NEW S, IsFiniteSet(S), NEW T, NEW op, Monoid(T, op), NEW base \in T,
         NEW f, NEW F, \A x, y \in S : F[x] = F[y] => x = y,
         NEW h, \A x \in S : h[x] \in T /\ f[F[x]] = h[x]
  PROVE  Total(T, op, base, h, S) = Total(T, op, base, f, {F[x] : x \in S})
<1> DEFINE I(R) == {F[x] : x \in R}
           Q == {R \in SUBSET S : Total(T, op, base, h, R) = Total(T, op, base, f, I(R))}
<1>0. IsFiniteSet(I(S)) /\ \A y \in I(S) : f[y] \in T
  <2>1. [x \in S |-> F[x]] \in Surjection(S, I(S)) BY DEF Surjection
  <2>2. IsFiniteSet(I(S)) BY <2>1, FS_Surjection
  <2> QED BY <2>2
<1>1. ASSUME NEW R \in SUBSET S, \A x \in R : R \ {x} \in Q PROVE R \in Q
  <2>0. IsFiniteSet(R) /\ \A x \in R : h[x] \in T BY FS_Subset
  <2>1. IsFiniteSet(I(R)) /\ \A y \in I(R) : f[y] \in T
    <3>1. I(R) \in SUBSET I(S) OBVIOUS
    <3> HIDE DEF I
    <3> QED BY <1>0, <3>1, FS_Subset
  <2>2. CASE R = {}
    <3>1. Total(T, op, base, h, R) = base BY <2>0, <2>2, TotalLaws
    <3>2. I(R) = {} BY <2>2
    <3> HIDE DEF I
    <3>3. Total(T, op, base, f, I(R)) = base BY <2>1, <3>2, TotalLaws
    <3> QED BY <3>1, <3>3 DEF I
  <2>3. CASE R # {}
    <3>1. PICK x \in R : TRUE BY <2>3
    <3>2. F[x] \in I(R) /\ I(R) \ {F[x]} = I(R \ {x}) OBVIOUS
    <3>3. Total(T, op, base, h, R) = Op(op, h[x], Total(T, op, base, h, R \ {x}))
      BY <2>0, TotalLaws
    <3>4. Total(T, op, base, h, R \ {x}) = Total(T, op, base, f, I(R \ {x})) BY <1>1
    <3> HIDE DEF I
    <3>5. Total(T, op, base, f, I(R)) = Op(op, f[F[x]], Total(T, op, base, f, I(R) \ {F[x]}))
      BY <2>1, <3>2, TotalLaws
    <3>6. Total(T, op, base, h, R) = Total(T, op, base, f, I(R)) BY <3>2, <3>3, <3>4, <3>5
    <3> QED BY <3>6 DEF I
  <2> QED BY <2>2, <2>3
<1>2. \A R \in SUBSET S : R \in Q
  <2> HIDE DEF Q
  <2> QED BY <1>1, FiniteInduction
<1> QED BY <1>2

Unit(T, op, base) == base \in T /\ \A a \in T : Op(op, base, a) = a

\* Of two sets without a common element.
LEMMA TotalUnion ==
  ASSUME NEW S, IsFiniteSet(S), NEW U, IsFiniteSet(U), S \cap U = {},
         NEW T, NEW op, Monoid(T, op), NEW base, Unit(T, op, base),
         NEW f, \A x \in S \cup U : f[x] \in T
  PROVE  Total(T, op, base, f, S \cup U)
           = Op(op, Total(T, op, base, f, S), Total(T, op, base, f, U))
<1> DEFINE t(R) == Total(T, op, base, f, R)
           Q == {R \in SUBSET S : t(R \cup U) = Op(op, t(R), t(U))}
<1>0. /\ base \in T /\ t(U) \in T
      /\ \A R \in SUBSET S : IsFiniteSet(R) /\ IsFiniteSet(R \cup U) /\ t(R) \in T
  <2>1. base \in T BY DEF Unit
  <2>2. ASSUME NEW R \in SUBSET S
        PROVE  IsFiniteSet(R) /\ IsFiniteSet(R \cup U) /\ \A x \in R : f[x] \in T
    BY FS_Subset, FS_Union
  <2> QED BY <2>1, <2>2, TotalLaws
<1>1. ASSUME NEW R \in SUBSET S, \A x \in R : R \ {x} \in Q PROVE R \in Q
  <2>0. IsFiniteSet(R) /\ IsFiniteSet(R \cup U) /\ \A x \in R \cup U : f[x] \in T BY <1>0
  <2>1. CASE R = {}
    <3>1. t(R) = base BY <1>0, <2>0, <2>1, TotalLaws
    <3>2. R \cup U = U BY <2>1
    <3> HIDE DEF t
    <3> QED BY <1>0, <3>1, <3>2 DEF Unit
  <2>2. CASE R # {}
    <3>1. PICK x \in R : TRUE BY <2>2
    <3>2. (R \cup U) \ {x} = (R \ {x}) \cup U BY <3>1
    <3>3. t(R \cup U) = Op(op, f[x], t((R \cup U) \ {x}))
      <4> DEFINE W == R \cup U
      <4>1. IsFiniteSet(W) /\ x \in W /\ \A y \in W : f[y] \in T BY <2>0
      <4> HIDE DEF W
      <4>2. Total(T, op, base, f, W) = Op(op, f[x], Total(T, op, base, f, W \ {x}))
        BY <1>0, <4>1, TotalLaws
      <4> QED BY <4>2 DEF W
    <3>4. t(R) = Op(op, f[x], t(R \ {x})) /\ t(R \ {x}) \in T BY <1>0, <2>0, TotalLaws
    <3>5. t((R \ {x}) \cup U) = Op(op, t(R \ {x}), t(U)) BY <1>1
    <3> HIDE DEF t
    <3>6. Op(op, f[x], Op(op, t(R \ {x}), t(U))) = Op(op, Op(op, f[x], t(R \ {x})), t(U))
      <4> DEFINE a == f[x]
                 b == t(R \ {x})
                 c == t(U)
      <4>1. a \in T /\ b \in T /\ c \in T BY <1>0, <2>0, <3>4
      <4> HIDE DEF a, b, c
      <4>2. Op(op, a, Op(op, b, c)) = Op(op, Op(op, a, b), c) BY <4>1 DEF Monoid
      <4> QED BY <4>2 DEF a, b, c
    <3> QED BY <3>2, <3>3, <3>4, <3>5, <3>6
  <2> QED BY <2>1, <2>2
<1>2. \A R \in SUBSET S : R \in Q
  <2> HIDE DEF Q
  <2> QED BY <1>1, FiniteInduction
<1> QED BY <1>2

\* Part by part, P[j] being the part of j.
LEMMA TotalParts ==
  ASSUME NEW J, IsFiniteSet(J), NEW P, \A j \in J : IsFiniteSet(P[j]),
         \A i, j \in J : i # j => P[i] \cap P[j] = {},
         NEW T, NEW op, Monoid(T, op), NEW base, Unit(T, op, base),
         NEW f, \A j \in J : \A x \in P[j] : f[x] \in T,
         NEW h, \A j \in J : h[j] = Total(T, op, base, f, P[j])
  PROVE  Total(T, op, base, f, UNION {P[j] : j \in J}) = Total(T, op, base, h, J)
<1> DEFINE t(R) == Total(T, op, base, f, R)
           u(R) == Total(T, op, base, h, R)
           All(R) == UNION {P[j] : j \in R}
           Q == {R \in SUBSET J : IsFiniteSet(All(R)) /\ t(All(R)) = u(R)}
<1>0. base \in T BY DEF Unit
<1>1. ASSUME NEW j \in J PROVE h[j] \in T BY <1>0, TotalLaws
<1>2. ASSUME NEW R \in SUBSET J, \A j \in R : R \ {j} \in Q PROVE R \in Q
  <2>0. IsFiniteSet(R) /\ \A j \in R : h[j] \in T BY <1>1, FS_Subset
  <2>1. CASE R = {}
    <3>1. All(R) = {} BY <2>1
    <3>2. IsFiniteSet({}) BY FS_EmptySet
    <3>3. u(R) = base BY <1>0, <2>0, <2>1, TotalLaws
    <3>4. t({}) = base BY <1>0, <3>2, TotalLaws
    <3> QED BY <3>1, <3>2, <3>3, <3>4
  <2>2. CASE R # {}
    <3>1. PICK j \in R : TRUE BY <2>2
    <3> DEFINE A == All(R \ {j})
    <3>2. IsFiniteSet(A) /\ t(A) = u(R \ {j}) BY <1>2
    <3>3. All(R) = P[j] \cup A BY <3>1
    <3>4. P[j] \cap A = {} BY <3>1
    <3>5. \A x \in P[j] \cup A : f[x] \in T BY <3>1
    <3>6. u(R) = Op(op, h[j], u(R \ {j})) BY <1>0, <2>0, TotalLaws
    <3> HIDE DEF A
    <3>7. t(P[j] \cup A) = Op(op, t(P[j]), t(A)) BY <3>2, <3>4, <3>5, TotalUnion
    <3>8. h[j] = t(P[j]) OBVIOUS
    <3>9. IsFiniteSet(P[j] \cup A) BY <3>2, FS_Union
    <3> HIDE DEF t, u, All
    <3>10. IsFiniteSet(All(R)) /\ t(All(R)) = u(R) BY <3>2, <3>3, <3>6, <3>7, <3>8, <3>9
    <3> QED BY <3>10 DEF t, u, All
  <2> QED BY <2>1, <2>2
<1>3. \A R \in SUBSET J : R \in Q
  <2> HIDE DEF Q
  <2> QED BY <1>2, FiniteInduction
<1> QED BY <1>3

\* Two totals at once.
LEMMA TotalMerged ==
  ASSUME NEW S, IsFiniteSet(S), NEW T, NEW op, Monoid(T, op), NEW base, Unit(T, op, base),
         NEW f, NEW g, NEW h,
         \A x \in S : f[x] \in T /\ g[x] \in T /\ h[x] = Op(op, f[x], g[x])
  PROVE  Total(T, op, base, h, S)
           = Op(op, Total(T, op, base, f, S), Total(T, op, base, g, S))
<1> DEFINE t(R) == Total(T, op, base, f, R)
           u(R) == Total(T, op, base, g, R)
           w(R) == Total(T, op, base, h, R)
           Q == {R \in SUBSET S : w(R) = Op(op, t(R), u(R))}
<1>0. base \in T BY DEF Unit
<1>1. ASSUME NEW R \in SUBSET S, \A x \in R : R \ {x} \in Q PROVE R \in Q
  <2>0. IsFiniteSet(R) /\ \A x \in R : f[x] \in T /\ g[x] \in T /\ h[x] \in T
    <3>1. \A x \in R : Op(op, f[x], g[x]) \in T BY DEF Monoid
    <3> QED BY <3>1, FS_Subset
  <2>1. CASE R = {}
    <3>1. t(R) = base /\ u(R) = base /\ w(R) = base BY <1>0, <2>0, <2>1, TotalLaws
    <3> QED BY <3>1 DEF Unit
  <2>2. CASE R # {}
    <3>1. PICK x \in R : TRUE BY <2>2
    <3>2. t(R) = Op(op, f[x], t(R \ {x})) /\ t(R \ {x}) \in T BY <1>0, <2>0, TotalLaws
    <3>3. u(R) = Op(op, g[x], u(R \ {x})) /\ u(R \ {x}) \in T BY <1>0, <2>0, TotalLaws
    <3>4. w(R) = Op(op, h[x], w(R \ {x})) BY <1>0, <2>0, TotalLaws
    <3>5. w(R \ {x}) = Op(op, t(R \ {x}), u(R \ {x})) BY <1>1
    <3>6. f[x] \in T /\ g[x] \in T /\ h[x] = Op(op, f[x], g[x]) OBVIOUS
    <3> DEFINE a == f[x]
               b == g[x]
               c == t(R \ {x})
               d == u(R \ {x})
    <3>7. a \in T /\ b \in T /\ c \in T /\ d \in T BY <3>2, <3>3, <3>6
    <3>8. Op(op, Op(op, a, b), Op(op, c, d)) = Op(op, Op(op, a, c), Op(op, b, d))
      <4> HIDE DEF a, b, c, d
      <4>1. Op(op, c, d) \in T /\ Op(op, b, d) \in T BY <3>7 DEF Monoid
      <4>2. Op(op, Op(op, a, b), Op(op, c, d)) = Op(op, a, Op(op, b, Op(op, c, d)))
        BY <3>7, <4>1 DEF Monoid
      <4>3. Op(op, b, Op(op, c, d)) = Op(op, c, Op(op, b, d)) BY <3>7, Swapped
      <4>4. Op(op, a, Op(op, c, Op(op, b, d))) = Op(op, Op(op, a, c), Op(op, b, d))
        BY <3>7, <4>1 DEF Monoid
      <4> QED BY <4>2, <4>3, <4>4
    <3> HIDE DEF t, u, w
    <3>9. w(R) = Op(op, t(R), u(R)) BY <3>2, <3>3, <3>4, <3>5, <3>6, <3>8
    <3> QED BY <3>9 DEF t, u, w
  <2> QED BY <2>1, <2>2
<1>2. \A R \in SUBSET S : R \in Q
  <2> HIDE DEF Q
  <2> QED BY <1>1, FiniteInduction
<1> QED BY <1>2

(***************************************************************************)
(* Sums of natural numbers.                                                *)
(***************************************************************************)
Adding == [a \in Nat |-> [b \in Nat |-> a + b]]

LEMMA SumIsFold ==
  ASSUME NEW D, IsFiniteSet(D), NEW f, \A x \in D : f[x] \in Nat,
         NEW g, FoldOf(g, D, Nat, Adding, 0, f),
         NEW S \in SUBSET D
  PROVE  SumFunctionOnSet(f, S) = g[S]
<1> DEFINE ch(s) == CHOOSE x \in s : TRUE
           Iter(i) == i = [s \in SUBSET S |-> IF s = {} THEN 0 ELSE f[ch(s)] + i[s \ {ch(s)}]]
           iter == CHOOSE i : Iter(i)
           h == [s \in SUBSET S |-> g[s]]
           Q == {s \in SUBSET S : iter[s] = g[s]}
<1>0. SumFunctionOnSet(f, S) = iter[S]
  BY DEF SumFunctionOnSet, FoldFunctionOnSet, MapThenFoldSet
<1>1. ASSUME NEW s \in SUBSET S, s # {}
      PROVE  ch(s) \in s /\ f[ch(s)] \in Nat /\ g[s] = f[ch(s)] + g[s \ {ch(s)}]
  <2>1. ch(s) \in s BY <1>1
  <2> HIDE DEF ch
  <2>2. g[s] = Op(Adding, f[ch(s)], g[s \ {ch(s)}]) BY <2>1 DEF FoldOf
  <2>3. f[ch(s)] \in Nat /\ g[s \ {ch(s)}] \in Nat BY <2>1 DEF FoldOf
  <2> QED BY <2>1, <2>2, <2>3 DEF Adding, Op
<1>2. Iter(h)
  <2> HIDE DEF ch
  <2>1. ASSUME NEW s \in SUBSET S
        PROVE  h[s] = IF s = {} THEN 0 ELSE f[ch(s)] + h[s \ {ch(s)}]
    BY <1>1 DEF FoldOf
  <2> HIDE DEF h
  <2>2. h = [s \in SUBSET S |-> h[s]] BY DEF h
  <2> QED BY <2>1, <2>2
<1>3. Iter(iter)
  <2> HIDE DEF Iter
  <2> QED BY <1>2
<1>4. ASSUME NEW s \in SUBSET S
      PROVE  iter[s] = IF s = {} THEN 0 ELSE f[ch(s)] + iter[s \ {ch(s)}]
  <2> HIDE DEF iter, ch
  <2> QED BY <1>3
<1>5. ASSUME NEW s \in SUBSET S, \A x \in s : s \ {x} \in Q PROVE s \in Q
  <2> HIDE DEF iter, ch
  <2> QED BY <1>1, <1>4, <1>5 DEF FoldOf
<1>6. \A s \in SUBSET S : s \in Q
  <2>1. IsFiniteSet(S) BY FS_Subset
  <2> HIDE DEF Q
  <2> QED BY <1>5, <2>1, FiniteInduction
<1> QED BY <1>0, <1>6

LEMMA SumLaws ==
  ASSUME NEW D, IsFiniteSet(D), NEW f, \A x \in D : f[x] \in Nat, NEW S \in SUBSET D
  PROVE  /\ SumFunctionOnSet(f, S) \in Nat
         /\ S = {} => SumFunctionOnSet(f, S) = 0
         /\ \A x \in S : SumFunctionOnSet(f, S) = f[x] + SumFunctionOnSet(f, S \ {x})
<1>1. Monoid(Nat, Adding) BY DEF Monoid, Adding, Op
<1>2. PICK g : FoldOf(g, D, Nat, Adding, 0, f)
  <2> HIDE DEF Adding
  <2> QED BY <1>1, FoldExists
<1>3. ASSUME NEW R \in SUBSET D PROVE SumFunctionOnSet(f, R) = g[R] /\ g[R] \in Nat
  <2>1. SumFunctionOnSet(f, R) = g[R] BY <1>2, SumIsFold
  <2> QED BY <1>2, <2>1 DEF FoldOf
<1>4. \A x \in S : g[S] = f[x] + g[S \ {x}]
  BY <1>2, <1>3 DEF FoldOf, Adding, Op
<1> QED BY <1>2, <1>3, <1>4 DEF FoldOf
=============================================================================
