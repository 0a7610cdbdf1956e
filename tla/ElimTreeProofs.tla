--------------------------- MODULE ElimTreeProofs ---------------------------
(***************************************************************************)
(* Kruskal's loop returns a spanning tree, for every collection of sets    *)
(* and every order of the candidates of equal separator.                   *)
(***************************************************************************)
EXTENDS ElimTree, Lemmas, FiniteSetTheorems

EdgesJoin == \A e \in edges : \A u, v \in e : rep[u] = rep[v]
JoinedByEdges == \A u, v \in Cliques : rep[u] = rep[v] => Connected(Cliques, edges, u, v)

EdgesAreBridges ==
  \A u, v \in Cliques : {u, v} \in edges => Bridge(Cliques, edges, u, v)

\* Every edge has taken one representative away.
Counting ==
  /\ IsFiniteSet(Cliques)
  /\ IsFiniteSet(edges)
  /\ Cardinality(edges) + Cardinality(Representatives(rep)) = Cardinality(Cliques)

\* A candidate the loop is done with has both ends in one tree.
Stages ==
  /\ stage = "vertices" =>
       edges = {} /\ cand = {} /\ \A S \in Cliques : rep[S] = S
  /\ stage = "edges" =>
       \A c \in Candidates : c \in cand \/ \A u, v \in c : rep[u] = rep[v]
  /\ stage = "done" => \A u, v \in Cliques : rep[u] = rep[v]

IInv ==
  /\ TypeOK
  /\ IsPartition(rep)
  /\ EdgesJoin
  /\ JoinedByEdges
  /\ EdgesAreBridges
  /\ Counting
  /\ Stages

-----------------------------------------------------------------------------
\* The two directions of TreesAreSets.
LEMMA AgreeFromParts ==
  ASSUME TypeOK, EdgesJoin, JoinedByEdges
  PROVE  TreesAreSets
<1> SUFFICES ASSUME NEW u \in Cliques, NEW v \in Cliques, Connected(Cliques, edges, u, v)
             PROVE  rep[u] = rep[v]
  BY DEF TreesAreSets, JoinedByEdges
<1> DEFINE P == {z \in Cliques : rep[z] = rep[u]}
<1>1. Closed(edges, P) BY DEF Closed, EdgesJoin, TypeOK, Candidates, Edges
<1>2. u \in P /\ P \in SUBSET Cliques OBVIOUS
<1>3. v \in P BY <1>1, <1>2 DEF Connected
<1> QED BY <1>3

-----------------------------------------------------------------------------
LEMMA InitInv == Init => IInv
<1> SUFFICES ASSUME Init PROVE IInv
  OBVIOUS
<1> USE DEF Init, InitTree
<1>1. Cliques = {} /\ edges = {} /\ cand = {} /\ stage = "vertices"
  BY DEF Cliques
<1>2. TypeOK BY <1>1, SizeAssumption DEF TypeOK, Candidates, Edges
<1>3. IsPartition(rep) BY DEF IsPartition
<1>4. EdgesJoin /\ JoinedByEdges /\ EdgesAreBridges
  BY <1>1 DEF EdgesJoin, JoinedByEdges, EdgesAreBridges
<1>5. Representatives(rep) = {} BY DEF Representatives
<1>6. Counting BY <1>1, <1>5, FS_EmptySet DEF Counting
<1>7. Stages BY <1>1 DEF Stages
<1> QED BY <1>2, <1>3, <1>4, <1>6, <1>7 DEF IInv


LEMMA AddVertexKeeps ==
  ASSUME IInv, AddVertex
  PROVE  IInv'
<1> USE DEF IInv
<1>1. esc[next] \in SUBSET Variable
  BY CollectionsAssumption, SizeAssumption DEF TypeOK, AddVertex, Slot
<1>2. edges = {} /\ cand = {} /\ \A S \in Cliques : rep[S] = S
  BY DEF Stages, AddVertex
<1>3. stage' = "vertices" /\ edges' = {} /\ cand' = {} /\ esc' = esc
  BY <1>2 DEF AddVertex
<1>4. /\ Cliques' \subseteq (SUBSET Variable) \ {NoSet}
      /\ rep' \in [Cliques' -> Cliques']
      /\ \A S \in Cliques' : rep'[S] = S
      /\ Cliques' = Cliques \/ Cliques' = Cliques \cup {esc[next]}
  <2>1. CASE esc[next] = NoSet
    <3>1. rep' = rep BY <2>1 DEF AddVertex
    <3> QED BY <1>2, <3>1 DEF TypeOK, Cliques
  <2>2. CASE esc[next] # NoSet
    <3>1. rep' = WithSet(rep, esc[next]) BY <2>2 DEF AddVertex
    <3>2. CASE esc[next] \in Cliques
      <4>1. rep' = rep BY <3>1, <3>2 DEF WithSet, Cliques
      <4> QED BY <1>2, <4>1 DEF TypeOK, Cliques
    <3>3. CASE esc[next] \notin Cliques
      <4>1. rep' = [z \in Cliques \cup {esc[next]} |->
                      IF z = esc[next] THEN esc[next] ELSE rep[z]]
        BY <3>1, <3>3 DEF WithSet, Cliques
      <4>2. Cliques' = Cliques \cup {esc[next]} BY <4>1 DEF Cliques
      <4>3. \A S \in Cliques' : rep'[S] = S BY <1>2, <4>1, <4>2
      <4> QED BY <1>1, <2>2, <4>1, <4>2, <4>3 DEF TypeOK
    <3> QED BY <3>2, <3>3
  <2> QED BY <2>1, <2>2
<1>5. TypeOK'
  <2>1. next' \in 0 .. Size BY SizeAssumption DEF TypeOK, AddVertex
  <2> QED BY <1>3, <1>4, <2>1 DEF TypeOK
<1>6. IsPartition(rep)' BY <1>4 DEF IsPartition, Cliques
<1>7. EdgesJoin' /\ EdgesAreBridges' BY <1>3 DEF EdgesJoin, EdgesAreBridges
<1>8. JoinedByEdges' BY <1>4, ConnectedSelf DEF JoinedByEdges
<1>9. Counting'
  <2>1. IsFiniteSet(Cliques') BY <1>4, FS_AddElement DEF Counting
  <2>2. Representatives(rep)' = Cliques'
    BY <1>4 DEF Representatives, Cliques
  <2>3. Cardinality(Cliques') \in Nat BY <2>1, FS_CardinalityType
  <2> QED BY <1>3, <2>1, <2>2, <2>3, FS_EmptySet DEF Counting
<1>10. Stages' BY <1>3, <1>4 DEF Stages
<1> QED BY <1>5, <1>6, <1>7, <1>8, <1>9, <1>10

LEMMA SortCandidatesKeeps ==
  ASSUME IInv, SortCandidates
  PROVE  IInv'
<1> USE DEF IInv
<1>1. /\ esc' = esc /\ next' = next /\ rep' = rep /\ edges' = edges
      /\ cand' = Candidates /\ stage' = "edges"
      /\ Cliques' = Cliques /\ Candidates' = Candidates
  BY DEF SortCandidates, Cliques, Candidates
<1>2. TypeOK' BY <1>1 DEF TypeOK
<1>3. EdgesJoin' /\ JoinedByEdges' /\ EdgesAreBridges' /\ IsPartition(rep)' /\ Counting'
  BY <1>1 DEF EdgesJoin, JoinedByEdges, EdgesAreBridges, IsPartition, Counting
<1>4. Stages' BY <1>1 DEF Stages
<1> QED BY <1>2, <1>3, <1>4

LEMMA RejectKeeps ==
  ASSUME IInv, NEW u \in Cliques, NEW v \in Cliques, Reject(u, v)
  PROVE  IInv'
<1> USE DEF IInv
<1>1. /\ esc' = esc /\ next' = next /\ rep' = rep /\ edges' = edges
      /\ cand' = cand \ {{u, v}} /\ stage' = "edges" /\ stage = "edges"
      /\ Cliques' = Cliques /\ Candidates' = Candidates
  BY DEF Reject, Cliques, Candidates
<1>2. TypeOK' BY <1>1 DEF TypeOK
<1>3. EdgesJoin' /\ JoinedByEdges' /\ EdgesAreBridges' /\ IsPartition(rep)' /\ Counting'
  BY <1>1 DEF EdgesJoin, JoinedByEdges, EdgesAreBridges, IsPartition, Counting
<1>4. \A a, b \in {u, v} : rep[a] = rep[b] BY DEF Reject
<1>5. Stages' BY <1>1, <1>4 DEF Stages
<1> QED BY <1>2, <1>3, <1>5

LEMMA ExhaustedKeeps ==
  ASSUME IInv, Exhausted
  PROVE  IInv'
<1> USE DEF IInv
<1>1. /\ esc' = esc /\ next' = next /\ rep' = rep /\ edges' = edges
      /\ cand = {} /\ cand' = cand /\ stage' = "done" /\ stage = "edges"
      /\ Cliques' = Cliques /\ Candidates' = Candidates
  BY DEF Exhausted, Cliques, Candidates
<1>2. TypeOK' BY <1>1 DEF TypeOK
<1>3. EdgesJoin' /\ JoinedByEdges' /\ EdgesAreBridges' /\ IsPartition(rep)' /\ Counting'
  BY <1>1 DEF EdgesJoin, JoinedByEdges, EdgesAreBridges, IsPartition, Counting
<1>4. \A u, v \in Cliques : rep[u] = rep[v]
  <2> SUFFICES ASSUME NEW u \in Cliques, NEW v \in Cliques, u # v
               PROVE  rep[u] = rep[v]
    OBVIOUS
  <2>1. {u, v} \in Candidates BY DEF Candidates, Edges
  <2> QED BY <1>1, <2>1 DEF Stages
<1>5. Stages' BY <1>1, <1>4 DEF Stages
<1> QED BY <1>2, <1>3, <1>5

\* What the union of the sets of u and v does: top represents those low did.
Absorbs(u, v, top, low) ==
  /\ Cliques' = Cliques
  /\ rep' \in [Cliques -> Cliques]
  /\ top # low /\ {top, low} = {rep[u], rep[v]}
  /\ rep[top] = top /\ rep[low] = low
  /\ \A z \in Cliques : rep'[z] = IF rep[z] = low THEN top ELSE rep[z]

\* What a union does to the representatives, whichever of the two remains.
LEMMA JoinEffect ==
  ASSUME IInv, NEW u \in Cliques, NEW v \in Cliques, Join(u, v)
  PROVE  \E top \in Cliques, low \in Cliques : Absorbs(u, v, top, low)
<1>1. rep \in [Cliques -> Cliques] BY DEF IInv, TypeOK
<1>2. PICK top \in {rep[u], rep[v]} : rep' = Merged(rep, u, v, top)
  BY DEF Join, Unions
<1>3. PICK low \in {rep[u], rep[v]} : low # top /\ {top, low} = {rep[u], rep[v]}
  BY <1>2 DEF Join
<1>4. top \in Cliques /\ low \in Cliques BY <1>1
<1>5. rep[top] = top /\ rep[low] = low
  BY DEF IInv, IsPartition, Cliques
<1>6. rep' = [z \in Cliques |-> IF rep[z] \in {top, low} THEN top ELSE rep[z]]
  BY <1>2, <1>3 DEF Merged, Cliques
<1>7. Cliques' = Cliques BY <1>6 DEF Cliques
<1>8. rep' \in [Cliques -> Cliques] BY <1>1, <1>4, <1>6
<1> QED BY <1>3, <1>4, <1>5, <1>6, <1>7, <1>8 DEF Absorbs

LEMMA JoinCounts ==
  ASSUME IInv, NEW u \in Cliques, NEW v \in Cliques, Join(u, v)
  PROVE  /\ Counting'
         /\ stage' = "done" => \A a, b \in Cliques : rep'[a] = rep'[b]
<1>0. PICK top \in Cliques, low \in Cliques : Absorbs(u, v, top, low)
  BY JoinEffect
<1>1. /\ Cliques' = Cliques
      /\ rep' \in [Cliques -> Cliques]
      /\ top # low /\ {top, low} = {rep[u], rep[v]}
      /\ rep[top] = top /\ rep[low] = low
      /\ \A z \in Cliques : rep'[z] = IF rep[z] = low THEN top ELSE rep[z]
  BY <1>0 DEF Absorbs
<1> USE DEF IInv
<1>2. edges' = edges \cup {{u, v}} /\ {u, v} \notin edges
  BY DEF Join, EdgesJoin
<1>3. /\ IsFiniteSet(edges')
      /\ Cardinality(edges') = Cardinality(edges) + 1
  BY <1>2, FS_AddElement DEF Counting
<1>4. Representatives(rep') = Representatives(rep) \ {low}
  <2>1. Representatives(rep) = {rep[z] : z \in Cliques}
    BY DEF Representatives, Cliques
  <2>2. Representatives(rep') = {rep'[z] : z \in Cliques}
    BY <1>1 DEF Representatives, Cliques
  <2>3. ASSUME NEW x \in Representatives(rep') PROVE x \in Representatives(rep) \ {low}
    BY <1>1, <2>1, <2>2, <2>3
  <2>4. ASSUME NEW x \in Representatives(rep) \ {low} PROVE x \in Representatives(rep')
    BY <1>1, <2>1, <2>2, <2>4
  <2> QED BY <2>3, <2>4
<1>5. Representatives(rep) \subseteq Cliques /\ low \in Representatives(rep)
  BY <1>1 DEF Representatives, Cliques, TypeOK
<1>6. IsFiniteSet(Representatives(rep)) BY <1>5, FS_Subset DEF Counting
<1>7. /\ IsFiniteSet(Representatives(rep'))
      /\ Cardinality(Representatives(rep')) = Cardinality(Representatives(rep)) - 1
  BY <1>4, <1>5, <1>6, FS_RemoveElement
<1>8. /\ Cardinality(edges) \in Nat /\ Cardinality(Representatives(rep)) \in Nat
      /\ Cardinality(Cliques) \in Nat
  BY <1>6, FS_CardinalityType DEF Counting
<1>9. Counting'
  BY <1>1, <1>3, <1>7, <1>8 DEF Counting
<1>10. ASSUME stage' = "done", NEW a \in Cliques, NEW b \in Cliques
       PROVE  rep'[a] = rep'[b]
  <2>1. Cardinality(edges') = Cardinality(Cliques) - 1
    BY <1>10 DEF Join
  <2>2. Cardinality(Representatives(rep')) = 1
    BY <1>3, <1>7, <1>8, <2>1 DEF Counting
  <2>3. PICK x : Representatives(rep') = {x}
    BY <1>7, <2>2, FS_Singleton
  <2>4. rep'[a] \in Representatives(rep') /\ rep'[b] \in Representatives(rep')
    BY <1>1 DEF Representatives, Cliques
  <2> QED BY <2>3, <2>4
<1> QED BY <1>9, <1>10

\* An edge between two trees closes no cycle.
LEMMA JoinBridges ==
  ASSUME IInv, NEW u \in Cliques, NEW v \in Cliques, Join(u, v)
  PROVE  EdgesAreBridges'
<1>1. Cliques' = Cliques BY JoinEffect DEF Absorbs
<1> USE DEF IInv
<1>2. edges' = edges \cup {{u, v}} /\ rep[u] # rep[v] BY DEF Join
<1>3. edges \subseteq Edges(Cliques) BY DEF TypeOK, Candidates
<1>4. ~ Connected(Cliques, edges, u, v)
  BY <1>2, AgreeFromParts DEF TreesAreSets
<1>5. ASSUME NEW a \in Cliques, NEW b \in Cliques, {a, b} \in edges'
      PROVE  Bridge(Cliques, edges', a, b)
  BY <1>2, <1>3, <1>4, <1>5, BridgesJoined DEF EdgesAreBridges
<1> QED BY <1>1, <1>5 DEF EdgesAreBridges

LEMMA JoinKeeps ==
  ASSUME IInv, NEW u \in Cliques, NEW v \in Cliques, Join(u, v)
  PROVE  IInv'
<1>0. PICK top \in Cliques, low \in Cliques : Absorbs(u, v, top, low)
  BY JoinEffect
<1>1. /\ Cliques' = Cliques
      /\ rep' \in [Cliques -> Cliques]
      /\ top # low /\ {top, low} = {rep[u], rep[v]}
      /\ rep[top] = top /\ rep[low] = low
      /\ \A z \in Cliques : rep'[z] = IF rep[z] = low THEN top ELSE rep[z]
  BY <1>0 DEF Absorbs
<1> USE DEF IInv
<1>2. /\ edges' = edges \cup {{u, v}} /\ cand' = cand \ {{u, v}}
      /\ {u, v} \in cand /\ stage = "edges" /\ esc' = esc /\ next' = next
      /\ stage' \in {"edges", "done"}
  BY DEF Join
<1>3. Candidates' = Candidates BY <1>1 DEF Candidates
<1>4. TypeOK' BY <1>1, <1>2, <1>3 DEF TypeOK
<1>5. IsPartition(rep)'
  <2>1. \A z \in Cliques : rep[z] \in Cliques /\ rep[rep[z]] = rep[z]
    BY DEF IsPartition, Cliques
  <2>2. \A z \in Cliques : rep'[z] \in Cliques /\ rep'[rep'[z]] = rep'[z]
    BY <1>1, <2>1
  <2> QED BY <1>1, <2>2 DEF IsPartition, Cliques
<1>6. EdgesJoin'
  <2>1. \A e \in edges : e \subseteq Cliques BY DEF TypeOK, Candidates, Edges
  <2>2. rep'[u] = rep'[v] BY <1>1
  <2>3. ASSUME NEW e \in edges', NEW a \in e, NEW b \in e PROVE rep'[a] = rep'[b]
    <3>1. CASE e \in edges BY <1>1, <2>1, <3>1 DEF EdgesJoin
    <3>2. CASE e = {u, v} BY <2>2, <3>2
    <3> QED BY <1>2, <3>1, <3>2
  <2> QED BY <2>3 DEF EdgesJoin
<1>7. JoinedByEdges'
  <2> SUFFICES ASSUME NEW a \in Cliques, NEW b \in Cliques, rep'[a] = rep'[b]
               PROVE  Connected(Cliques, edges', a, b)
    BY <1>1 DEF JoinedByEdges
  <2>1. edges' \in SUBSET SUBSET Cliques /\ edges \subseteq edges'
    BY <1>2 DEF TypeOK, Candidates, Edges
  <2>2. \A x, y \in Cliques : rep[x] = rep[y] => Connected(Cliques, edges', x, y)
    BY <2>1, ConnectedMore DEF JoinedByEdges
  <2>3. Connected(Cliques, edges', u, v) /\ Connected(Cliques, edges', v, u)
    BY <1>2, <2>1, ConnectedEnds, ConnectedSymmetric
  <2>4. CASE rep[a] = rep[b] BY <2>2, <2>4
  <2>5. CASE rep[a] = rep[u] /\ rep[b] = rep[v]
    <3>1. Connected(Cliques, edges', a, u) /\ Connected(Cliques, edges', v, b) BY <2>2, <2>5
    <3>2. Connected(Cliques, edges', a, v) BY <2>3, <3>1, ConnectedTransitive
    <3> QED BY <3>1, <3>2, ConnectedTransitive
  <2>6. CASE rep[a] = rep[v] /\ rep[b] = rep[u]
    <3>1. Connected(Cliques, edges', a, v) /\ Connected(Cliques, edges', u, b) BY <2>2, <2>6
    <3>2. Connected(Cliques, edges', a, u) BY <2>3, <3>1, ConnectedTransitive
    <3> QED BY <3>1, <3>2, ConnectedTransitive
  <2>7. \/ rep[a] = rep[b]
        \/ rep[a] = rep[u] /\ rep[b] = rep[v]
        \/ rep[a] = rep[v] /\ rep[b] = rep[u]
    BY <1>1
  <2> QED BY <2>4, <2>5, <2>6, <2>7
<1>8. Counting' /\ (stage' = "done" => \A a, b \in Cliques : rep'[a] = rep'[b])
  BY JoinCounts
<1>9. Stages'
  <2>1. ASSUME NEW c \in Candidates, c \notin cand', NEW a \in c, NEW b \in c
        PROVE  rep'[a] = rep'[b]
    <3>1. a \in Cliques /\ b \in Cliques BY DEF Candidates, Edges
    <3>2. CASE c = {u, v} BY <1>1, <3>2
    <3>3. CASE c \notin cand
      <4>1. rep[a] = rep[b] BY <1>2, <3>3 DEF Stages
      <4> QED BY <1>1, <3>1, <4>1
    <3> QED BY <1>2, <2>1, <3>2, <3>3
  <2> QED BY <1>1, <1>2, <1>3, <1>8, <2>1 DEF Stages
<1>10. EdgesAreBridges' BY JoinBridges
<1> QED BY <1>4, <1>5, <1>6, <1>7, <1>8, <1>9, <1>10

LEMMA StutterKeeps ==
  ASSUME IInv, UNCHANGED vars
  PROVE  IInv'
<1>1. Cliques' = Cliques /\ Candidates' = Candidates
  BY DEF vars, Cliques, Candidates
<1> QED BY <1>1 DEF vars, IInv, TypeOK, IsPartition, EdgesJoin, JoinedByEdges,
                    EdgesAreBridges, Counting, Stages

LEMMA InvKept ==
  ASSUME IInv, [Next]_vars
  PROVE  IInv'
BY AddVertexKeeps, SortCandidatesKeeps, RejectKeeps, JoinKeeps, ExhaustedKeeps,
   StutterKeeps
   DEF Next

LEMMA Invariance == Spec => []IInv
BY InitInv, InvKept, PTL DEF Spec

-----------------------------------------------------------------------------
THEOREM TypeCorrect == Spec => []TypeOK
<1>1. IInv => TypeOK BY DEF IInv
<1> QED BY Invariance, <1>1, PTL

\* The disjoint sets and the graph under construction never disagree.
THEOREM TreesAndSetsAgree == Spec => []TreesAreSets
<1>1. IInv => TreesAreSets BY AgreeFromParts DEF IInv
<1> QED BY Invariance, <1>1, PTL

\* What ElimTree_Create returns connects all cliques with one edge less than
\* there are cliques.
THEOREM Spans == Spec => []SpanningTree
<1>1. IInv => SpanningTree
  <2> SUFFICES ASSUME IInv, stage = "done"
               PROVE  /\ IsTree(Cliques, edges)
                      /\ Cliques # {} => Cardinality(edges) = Cardinality(Cliques) - 1
    BY DEF SpanningTree
  <2>1. \A u, v \in Cliques : rep[u] = rep[v] BY DEF IInv, Stages
  <2>2. \A u, v \in Cliques : Connected(Cliques, edges, u, v)
    BY <2>1 DEF IInv, JoinedByEdges
  <2>3. ASSUME NEW S \in Cliques
        PROVE  Cardinality(edges) = Cardinality(Cliques) - 1
    <3>1. Representatives(rep) = {rep[S]}
      BY <2>1 DEF Representatives, Cliques
    <3>2. Cardinality(Representatives(rep)) = 1 BY <3>1, FS_Singleton
    <3>3. Cardinality(edges) \in Nat /\ Cardinality(Cliques) \in Nat
      BY FS_CardinalityType DEF IInv, Counting
    <3> QED BY <3>2, <3>3 DEF IInv, Counting
  <2>4. IsTree(Cliques, edges)
    BY <2>2 DEF IInv, TypeOK, Candidates, EdgesAreBridges, IsTree
  <2> QED BY <2>3, <2>4
<1> QED BY Invariance, <1>1, PTL

-----------------------------------------------------------------------------
(* Kruskal's choice: what the loop has yet to look at is no wider than any   *)
(* edge, and what it is done with is connected by edges as wide.             *)
Widths ==
  /\ \A e \in edges, c \in cand : Weight(c) <= Weight(e)
  /\ stage # "vertices" =>
       \A u, v \in Cliques : {u, v} \in cand \/ Connected(Cliques, AsWide({u, v}), u, v)

LEMMA WeightIsNat ==
  ASSUME TypeOK, NEW c \in Candidates
  PROVE  Weight(c) \in Nat
<1>1. Separator(c) \subseteq Variable
  BY DEF Separator, Candidates, Edges, TypeOK
<1>2. IsFiniteSet(Separator(c)) BY <1>1, VariableAssumption, FS_Subset
<1> QED BY <1>2, FS_CardinalityType DEF Weight

\* A candidate both ends of which are in one tree is connected by all of the
\* edges, and all of them are as wide.
LEMMA WideWhenTogether ==
  ASSUME IInv, Widths, NEW u \in Cliques, NEW v \in Cliques, {u, v} \in cand,
         rep[u] = rep[v]
  PROVE  Connected(Cliques, AsWide({u, v}), u, v)
<1>1. \A e \in edges : Weight({u, v}) <= Weight(e) BY DEF Widths
<1>2. \A e \in edges \cup {{u, v}} : Weight(e) \in Nat
  BY WeightIsNat DEF IInv, TypeOK
<1>3. AsWide({u, v}) = edges BY <1>1, <1>2 DEF AsWide
<1> QED BY <1>3 DEF IInv, JoinedByEdges

LEMMA WidthsKept ==
  ASSUME IInv, Widths, [Next]_vars
  PROVE  Widths'
<1>1. CASE AddVertex
  BY <1>1 DEF Widths, AddVertex, IInv, Stages
<1>2. CASE SortCandidates
  <2>1. edges' = {} /\ cand' = Candidates /\ Cliques' = Cliques
    BY <1>2 DEF SortCandidates, IInv, Stages, Cliques
  <2>2. ASSUME NEW u \in Cliques, NEW v \in Cliques, {u, v} \notin cand'
        PROVE  u = v
    BY <2>1, <2>2 DEF Candidates, Edges
  <2> QED BY <2>1, <2>2, ConnectedSelf DEF Widths
<1>3. ASSUME NEW u \in Cliques, NEW v \in Cliques, Reject(u, v) PROVE Widths'
  <2>1. /\ edges' = edges /\ cand' = cand \ {{u, v}} /\ stage = "edges"
        /\ Cliques' = Cliques /\ \A c : AsWide(c)' = AsWide(c)
    BY <1>3 DEF Reject, Cliques, AsWide
  <2>2. ASSUME NEW a \in Cliques, NEW b \in Cliques, {a, b} \notin cand'
        PROVE  Connected(Cliques, AsWide({a, b}), a, b)
    <3>1. CASE {a, b} \notin cand BY <2>1, <3>1 DEF Widths
    <3>2. CASE {a, b} \in cand
      <4>1. {a, b} = {u, v} BY <2>1, <2>2, <3>2
      <4>2. rep[a] = rep[b] BY <1>3, <4>1 DEF Reject
      <4> QED BY <3>2, <4>2, WideWhenTogether
    <3> QED BY <3>1, <3>2
  <2>3. \A e \in edges', c \in cand' : Weight(c) <= Weight(e)
    BY <2>1 DEF Widths
  <2> QED BY <2>1, <2>2, <2>3 DEF Widths
<1>4. ASSUME NEW u \in Cliques, NEW v \in Cliques, Join(u, v) PROVE Widths'
  <2>1. /\ edges' = edges \cup {{u, v}} /\ cand' = cand \ {{u, v}}
        /\ {u, v} \in cand /\ stage = "edges" /\ Widest({u, v})
    BY <1>4 DEF Join
  <2>2. Cliques' = Cliques BY <1>4, JoinEffect DEF Absorbs
  <2>3. Weight({u, v}) \in Nat BY <2>1, WeightIsNat DEF IInv, TypeOK
  <2>4. \A e \in edges', c \in cand' : Weight(c) <= Weight(e)
    BY <2>1 DEF Widths, Widest
  <2>5. ASSUME NEW a \in Cliques, NEW b \in Cliques, {a, b} \notin cand'
        PROVE  Connected(Cliques, AsWide({a, b})', a, b)
    <3>1. AsWide({a, b}) \subseteq AsWide({a, b})' BY <2>1 DEF AsWide
    <3>2. CASE {a, b} \notin cand
      <4>1. Connected(Cliques, AsWide({a, b}), a, b) BY <2>1, <3>2 DEF Widths
      <4> QED BY <3>1, <4>1, ConnectedMore
    <3>3. CASE {a, b} \in cand
      <4>1. {a, b} = {u, v} BY <2>1, <2>5, <3>3
      <4>2. Weight({a, b}) \in Nat BY <2>3, <4>1
      <4>3. {a, b} \in edges' BY <2>1, <4>1
      <4>4. {a, b} \in AsWide({a, b})' BY <4>2, <4>3 DEF AsWide
      <4> QED BY <4>4, ConnectedEnds
    <3> QED BY <3>2, <3>3
  <2> QED BY <2>2, <2>4, <2>5 DEF Widths
<1>5. CASE Exhausted
  <2>1. edges' = edges /\ cand' = cand /\ Cliques' = Cliques /\ stage = "edges"
    BY <1>5 DEF Exhausted, Cliques
  <2> QED BY <2>1 DEF Widths, AsWide
<1>6. CASE UNCHANGED vars
  BY <1>6 DEF vars, Widths, AsWide, Cliques
<1> QED BY <1>1, <1>2, <1>3, <1>4, <1>5, <1>6 DEF Next

LEMMA WidthsInvariance == Spec => []Widths
<1>1. Init => Widths BY DEF Init, InitTree, Widths
<1> QED BY <1>1, Invariance, WidthsKept, PTL DEF Spec

\* No two cliques share more variables than a separator on the path between
\* them has, whichever way ties were broken and wherever the loop stopped.
THEOREM PathsAreWidest == Spec => []WidestPaths
<1>1. IInv /\ Widths => WidestPaths
  <2> SUFFICES ASSUME IInv, Widths, stage = "done",
                      NEW u \in Cliques, NEW v \in Cliques
               PROVE  Connected(Cliques, AsWide({u, v}), u, v)
    BY DEF WidestPaths
  <2>1. rep[u] = rep[v] BY DEF IInv, Stages
  <2> QED BY <2>1, WideWhenTogether DEF Widths
<1> QED BY Invariance, WidthsInvariance, <1>1, PTL

-----------------------------------------------------------------------------
(***************************************************************************)
(* The exchange for weights: the edges added so far are part of a spanning *)
(* tree as heavy as any.                                                   *)
(***************************************************************************)
AsHeavy(E, K) == K \in SpanningTrees /\ edges \subseteq K /\ TotalWeight(E) <= TotalWeight(K)

PartOfHeavier ==
  stage # "vertices" => \A E \in SpanningTrees : \E K : AsHeavy(E, K)

LEMMA CandidatesFinite ==
  ASSUME IInv
  PROVE  IsFiniteSet(Candidates)
<1>1. Candidates \subseteq SUBSET Cliques BY DEF Candidates, Edges
<1> QED BY <1>1, FS_SUBSET, FS_Subset DEF IInv, Counting

LEMMA WeightWithout ==
  ASSUME IInv, NEW E \in SUBSET Candidates
  PROVE  /\ TotalWeight(E) \in Nat
         /\ \A c \in E : TotalWeight(E) = Weight(c) + TotalWeight(E \ {c})
<1> DEFINE w == [c \in Candidates |-> Weight(c)]
<1>1. \A c \in Candidates : w[c] = Weight(c) /\ w[c] \in Nat
  BY WeightIsNat DEF IInv
<1>2. TotalWeight(E) = SumFunctionOnSet(w, E) BY DEF TotalWeight
<1>3. \A c : TotalWeight(E \ {c}) = SumFunctionOnSet(w, E \ {c}) BY DEF TotalWeight
<1> HIDE DEF w
<1>4. /\ SumFunctionOnSet(w, E) \in Nat
      /\ \A c \in E : SumFunctionOnSet(w, E) = w[c] + SumFunctionOnSet(w, E \ {c})
  BY <1>1, CandidatesFinite, SumLaws
<1> QED BY <1>1, <1>2, <1>3, <1>4

LEMMA JoinKeepsHeavy ==
  ASSUME IInv, NEW u \in Cliques, NEW v \in Cliques, Join(u, v),
         NEW E \in SpanningTrees, NEW J, AsHeavy(E, J)
  PROVE  \E K \in SpanningTrees :
           edges \cup {{u, v}} \subseteq K /\ TotalWeight(E) <= TotalWeight(K)
<1>0. J \in SpanningTrees /\ edges \subseteq J /\ TotalWeight(E) <= TotalWeight(J)
  BY DEF AsHeavy
<1>1. CASE {u, v} \in J BY <1>0, <1>1
<1>2. CASE {u, v} \notin J
  <2>1. /\ stage = "edges" /\ {u, v} \in cand /\ Widest({u, v}) /\ rep[u] # rep[v]
        /\ cand \subseteq Candidates /\ TypeOK
    BY DEF Join, IInv, TypeOK
  <2>2. TreesAreSets BY AgreeFromParts DEF IInv
  <2>3. ~ Connected(Cliques, edges, u, v) BY <2>1, <2>2 DEF TreesAreSets
  <2>4. IsTree(Cliques, J) BY <1>0 DEF SpanningTrees
  <2>0. PICK a \in Cliques, b \in Cliques : Exits(Cliques, J, edges, u, v, a, b)
    BY <1>0, <2>3, <2>4, ExitEdge
  <2>5. /\ {a, b} \in J \ edges
        /\ Connected(Cliques, edges, u, a) /\ ~ Connected(Cliques, edges, u, b)
        /\ Beyond(Cliques, J, b, a, u) /\ Beyond(Cliques, J, a, b, v)
    BY <2>0 DEF Exits
  <2>6. {a, b} \in Candidates BY <2>4, <2>5 DEF IsTree, Candidates
  <2>7. rep[a] # rep[b] BY <2>2, <2>5 DEF TreesAreSets
  <2>8. {a, b} \in cand BY <2>1, <2>6, <2>7 DEF IInv, Stages
  <2>9. Weight({a, b}) <= Weight({u, v}) BY <2>1, <2>8 DEF Widest
  <2> DEFINE K == Exchanged(J, a, b, u, v)
  <2>10. IsTree(Cliques, K) BY <2>4, <2>5, ExchangeIsTree
  <2>11. K \in SpanningTrees BY <2>10 DEF SpanningTrees, IsTree, Candidates
  <2>12. edges \cup {{u, v}} \subseteq K BY <1>0, <2>5 DEF Exchanged
  <2>13. {u, v} \in K /\ K \ {{u, v}} = J \ {{a, b}}
    BY <1>2 DEF Exchanged
  <2>14. J \in SUBSET Candidates /\ K \in SUBSET Candidates
    BY <1>0, <2>11 DEF SpanningTrees
  <2>15. J \ {{a, b}} \in SUBSET Candidates BY <2>14
  <2>16. TotalWeight(E) \in Nat BY WeightWithout DEF SpanningTrees
  <2>17. TotalWeight(J \ {{a, b}}) \in Nat BY <2>15, WeightWithout
  <2> HIDE DEF K
  <2>18. TotalWeight(J) = Weight({a, b}) + TotalWeight(J \ {{a, b}})
    BY <2>5, <2>14, WeightWithout
  <2>19. TotalWeight(K) = Weight({u, v}) + TotalWeight(J \ {{a, b}})
    BY <2>13, <2>14, WeightWithout
  <2>20. Weight({a, b}) \in Nat /\ Weight({u, v}) \in Nat
    BY <2>1, <2>6, WeightIsNat
  <2>21. TotalWeight(E) <= TotalWeight(K)
    BY <1>0, <2>9, <2>16, <2>17, <2>18, <2>19, <2>20
  <2> QED BY <2>11, <2>12, <2>21
<1> QED BY <1>1, <1>2

LEMMA HeavierKept ==
  ASSUME IInv, PartOfHeavier, [Next]_vars
  PROVE  PartOfHeavier'
<1>1. CASE AddVertex
  BY <1>1 DEF PartOfHeavier, AddVertex
<1>0. \A E \in SpanningTrees : TotalWeight(E) \in Nat
  BY WeightWithout DEF SpanningTrees
<1>2. CASE SortCandidates
  <2>1. edges' = {} /\ Cliques' = Cliques
    BY <1>2 DEF SortCandidates, IInv, Stages, Cliques
  <2>2. SpanningTrees' = SpanningTrees /\ \A E : TotalWeight(E)' = TotalWeight(E)
    BY <2>1 DEF SpanningTrees, TotalWeight, Candidates
  <2>3. \A E \in SpanningTrees : AsHeavy(E, E)' BY <1>0, <2>1, <2>2 DEF AsHeavy
  <2> QED BY <2>2, <2>3 DEF PartOfHeavier
<1>3. ASSUME edges' = edges, Cliques' = Cliques, stage # "vertices" \/ stage' = stage
      PROVE  PartOfHeavier'
  <2>1. SpanningTrees' = SpanningTrees /\ \A E, K : AsHeavy(E, K)' = AsHeavy(E, K)
    BY <1>3 DEF SpanningTrees, TotalWeight, Candidates, AsHeavy
  <2> QED BY <1>3, <2>1 DEF PartOfHeavier
<1>4. ASSUME NEW u \in Cliques, NEW v \in Cliques, Reject(u, v)
      PROVE  PartOfHeavier'
  BY <1>3, <1>4 DEF Reject, Cliques
<1>5. ASSUME NEW u \in Cliques, NEW v \in Cliques, Join(u, v)
      PROVE  PartOfHeavier'
  <2>1. /\ edges' = edges \cup {{u, v}} /\ stage = "edges"
        /\ Cliques' = Cliques
    BY <1>5, JoinEffect DEF Join, Absorbs
  <2>2. SpanningTrees' = SpanningTrees /\ \A E : TotalWeight(E)' = TotalWeight(E)
    BY <2>1 DEF SpanningTrees, TotalWeight, Candidates
  <2> SUFFICES ASSUME NEW E \in SpanningTrees
               PROVE  \E K : AsHeavy(E, K)'
    BY <2>2 DEF PartOfHeavier
  <2>3. PICK J : AsHeavy(E, J) BY <2>1 DEF PartOfHeavier
  <2>4. PICK K \in SpanningTrees :
          edges \cup {{u, v}} \subseteq K /\ TotalWeight(E) <= TotalWeight(K)
    BY <1>5, <2>3, JoinKeepsHeavy
  <2>5. AsHeavy(E, K)' BY <2>1, <2>2, <2>4 DEF AsHeavy
  <2> QED BY <2>5
<1>6. CASE Exhausted BY <1>3, <1>6 DEF Exhausted, Cliques
<1>7. CASE UNCHANGED vars BY <1>3, <1>7 DEF vars, Cliques
<1> QED BY <1>1, <1>2, <1>4, <1>5, <1>6, <1>7 DEF Next

\* A tree that is part of another one is the other one.
LEMMA NoEdgeToSpare ==
  ASSUME IInv, stage = "done", NEW K, IsTree(Cliques, K), edges \subseteq K
  PROVE  K = edges
<1>1. \A p, q \in Cliques : Connected(Cliques, edges, p, q)
  BY DEF IInv, Stages, JoinedByEdges
<1>2. ASSUME NEW e \in K, e \notin edges PROVE FALSE
  <2>1. PICK p \in Cliques, q \in Cliques : e = {p, q}
    BY DEF IsTree, Edges
  <2>2. edges \subseteq K \ {{p, q}} BY <1>2, <2>1
  <2>3. Connected(Cliques, K \ {{p, q}}, p, q) BY <1>1, <2>2, ConnectedMore
  <2> QED BY <2>1, <2>3 DEF IsTree, Bridge
<1> QED BY <1>2

\* No spanning tree has wider separators in total than the one returned,
\* whichever way ties were broken and wherever the loop stopped.
THEOREM SeparatorsAreWidest == Spec => []WidestSeparators
<1>1. Init => PartOfHeavier BY DEF Init, InitTree, PartOfHeavier
<1>2. IInv /\ PartOfHeavier => WidestSeparators
  <2> SUFFICES ASSUME IInv, PartOfHeavier, stage = "done", NEW E \in SpanningTrees
               PROVE  TotalWeight(E) <= TotalWeight(edges)
    BY DEF WidestSeparators
  <2>1. PICK K : AsHeavy(E, K) BY DEF PartOfHeavier
  <2>2. K = edges BY <2>1, NoEdgeToSpare DEF AsHeavy, SpanningTrees
  <2> QED BY <2>1, <2>2 DEF AsHeavy
<1> QED BY <1>1, <1>2, Invariance, HeavierKept, PTL DEF Spec

-----------------------------------------------------------------------------
(***************************************************************************)
(* Kruskal's exchange: where the cliques have a junction tree at all, the  *)
(* edges added so far are always part of one.                              *)
(***************************************************************************)
PartOfJunctionTree ==
  stage # "vertices" /\ (\E J : JunctionTreeOver(Cliques, J)) =>
    \E J : JunctionTreeOver(Cliques, J) /\ edges \subseteq J

\* Of two candidates, one sharing all that the other does and weighing no more
\* has the same separator.
LEMMA EqualSeparators ==
  ASSUME TypeOK, NEW c \in Candidates, NEW d \in Candidates,
         Separator(d) \subseteq Separator(c), Weight(c) <= Weight(d)
  PROVE  Separator(c) = Separator(d)
<1>1. Separator(c) \subseteq Variable
  BY DEF Separator, Candidates, Edges, TypeOK
<1>2. IsFiniteSet(Separator(c)) BY <1>1, VariableAssumption, FS_Subset
<1>3. Weight(c) \in Nat /\ Weight(d) \in Nat BY WeightIsNat
<1>4. Weight(d) <= Weight(c) BY <1>2, FS_Subset DEF Weight
<1>5. Cardinality(Separator(c)) = Cardinality(Separator(d)) BY <1>3, <1>4 DEF Weight
<1> QED BY <1>2, <1>5, FS_Subset

LEMMA JoinExchanges ==
  ASSUME IInv, NEW u \in Cliques, NEW v \in Cliques, Join(u, v),
         NEW J, JunctionTreeOver(Cliques, J), edges \subseteq J
  PROVE  \E K : JunctionTreeOver(Cliques, K) /\ edges \cup {{u, v}} \subseteq K
<1>1. CASE {u, v} \in J BY <1>1
<1>2. CASE {u, v} \notin J
  <2>1. /\ stage = "edges" /\ {u, v} \in cand /\ Widest({u, v}) /\ rep[u] # rep[v]
        /\ cand \subseteq Candidates /\ TypeOK
    BY DEF Join, IInv, TypeOK
  <2>2. TreesAreSets BY AgreeFromParts DEF IInv
  <2>3. ~ Connected(Cliques, edges, u, v) BY <2>1, <2>2 DEF TreesAreSets
  <2>4. IsTree(Cliques, J) BY DEF JunctionTreeOver
  <2>0. PICK a \in Cliques, b \in Cliques : Exits(Cliques, J, edges, u, v, a, b)
    BY <2>3, <2>4, ExitEdge
  <2>5. /\ {a, b} \in J \ edges
        /\ Connected(Cliques, edges, u, a) /\ ~ Connected(Cliques, edges, u, b)
        /\ Beyond(Cliques, J, b, a, u) /\ Beyond(Cliques, J, a, b, v)
    BY <2>0 DEF Exits
  <2>6. {a, b} \in Candidates BY <2>4, <2>5 DEF IsTree, Candidates
  <2>7. rep[a] # rep[b] BY <2>2, <2>5 DEF TreesAreSets
  <2>8. {a, b} \in cand BY <2>1, <2>6, <2>7 DEF IInv, Stages
  <2>9. Weight({a, b}) <= Weight({u, v}) BY <2>1, <2>8 DEF Widest
  <2>10. u \cap v \subseteq a \cap b BY <2>5, SharedAcross
  <2>11. Separator({a, b}) = a \cap b /\ Separator({u, v}) = u \cap v
    BY DEF Separator
  <2>12. a \cap b = u \cap v
    <3>1. Separator({u, v}) \subseteq Separator({a, b}) BY <2>10, <2>11
    <3>2. Separator({a, b}) = Separator({u, v})
      BY <2>1, <2>6, <2>9, <3>1, EqualSeparators
    <3> QED BY <2>11, <3>2
  <2>13. JunctionTreeOver(Cliques, Exchanged(J, a, b, u, v))
    BY <2>5, <2>12, ExchangeIsJunctionTree
  <2>14. edges \cup {{u, v}} \subseteq Exchanged(J, a, b, u, v)
    BY <2>5 DEF Exchanged
  <2> QED BY <2>13, <2>14
<1> QED BY <1>1, <1>2

LEMMA PartKept ==
  ASSUME IInv, PartOfJunctionTree, [Next]_vars
  PROVE  PartOfJunctionTree'
<1>1. CASE AddVertex
  BY <1>1 DEF PartOfJunctionTree, AddVertex
<1>2. CASE SortCandidates
  <2>1. edges' = {} BY <1>2 DEF SortCandidates, IInv, Stages
  <2> QED BY <2>1 DEF PartOfJunctionTree
<1>3. ASSUME edges' = edges, Cliques' = Cliques, stage # "vertices" \/ stage' = stage
      PROVE  PartOfJunctionTree'
  BY <1>3 DEF PartOfJunctionTree
<1>4. ASSUME NEW u \in Cliques, NEW v \in Cliques, Reject(u, v)
      PROVE  PartOfJunctionTree'
  BY <1>3, <1>4 DEF Reject, Cliques
<1>5. ASSUME NEW u \in Cliques, NEW v \in Cliques, Join(u, v)
      PROVE  PartOfJunctionTree'
  <2>1. /\ edges' = edges \cup {{u, v}} /\ stage = "edges"
        /\ Cliques' = Cliques
    BY <1>5, JoinEffect DEF Join, Absorbs
  <2> SUFFICES ASSUME \E J : JunctionTreeOver(Cliques, J)
               PROVE  \E K : JunctionTreeOver(Cliques, K) /\ edges' \subseteq K
    BY <2>1 DEF PartOfJunctionTree
  <2>2. PICK J : JunctionTreeOver(Cliques, J) /\ edges \subseteq J
    BY <2>1 DEF PartOfJunctionTree
  <2> QED BY <1>5, <2>1, <2>2, JoinExchanges
<1>6. CASE Exhausted BY <1>3, <1>6 DEF Exhausted, Cliques
<1>7. CASE UNCHANGED vars BY <1>3, <1>7 DEF vars, Cliques
<1> QED BY <1>1, <1>2, <1>4, <1>5, <1>6, <1>7 DEF Next

\* The junction tree the edges are part of is the tree of the edges itself.
LEMMA WholeJunctionTree ==
  ASSUME IInv, PartOfJunctionTree, stage = "done", NEW J, JunctionTreeOver(Cliques, J)
  PROVE  JunctionTreeOver(Cliques, edges)
<1>1. PICK K : JunctionTreeOver(Cliques, K) /\ edges \subseteq K
  BY DEF PartOfJunctionTree
<1>2. K = edges BY <1>1, NoEdgeToSpare DEF JunctionTreeOver
<1> QED BY <1>1, <1>2

\* Whenever the cliques have a junction tree, what ElimTree_Create returns is
\* one, whichever way ties were broken and wherever the loop stopped.
THEOREM JunctionTreeFound ==
  Spec => [](stage = "done" /\ (\E J : JunctionTreeOver(Cliques, J))
               => JunctionTreeOver(Cliques, edges))
<1> DEFINE Found == stage = "done" /\ (\E J : JunctionTreeOver(Cliques, J))
                      => JunctionTreeOver(Cliques, edges)
<1>1. Init => PartOfJunctionTree BY DEF Init, InitTree, PartOfJunctionTree
<1>2. IInv /\ PartOfJunctionTree => Found BY WholeJunctionTree
<1> HIDE DEF Found
<1>3. Spec => []Found BY <1>1, <1>2, Invariance, PartKept, PTL DEF Spec
<1> QED BY <1>3 DEF Found
=============================================================================
