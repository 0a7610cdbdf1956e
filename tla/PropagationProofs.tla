-------------------------- MODULE PropagationProofs -------------------------
(***************************************************************************)
(* What the two sweeps achieve, for every tree, every root, every order of *)
(* the neighbours and every sequence of calls.                             *)
(***************************************************************************)
EXTENDS Propagation, Lemmas, FiniteSetTheorems, SequenceTheorems

-----------------------------------------------------------------------------
(***************************************************************************)
(* What messages keep, for every tree and every order of messages.         *)
(***************************************************************************)
AtHome == \A h \in Clique : cont[h][h] = 1

\* Seen along an edge: the end that is nearer to the home of a factor has it
\* if the other end does, and the separator has what the other end has.
Downhill ==
  \A u, w, h \in Clique :
    {u, w} \in tree /\ Beyond(Clique, tree, u, w, h) =>
      /\ sep[{u, w}][h] = cont[u][h]
      /\ cont[u][h] <= cont[w][h]

PotsInv == PotsTypeOK /\ NoDoubleCount /\ AtHome /\ Downhill

LEMMA TreeIsTree == tree \in Trees => IsTree(Clique, tree)
BY TreesAssumption

\* A clique is beyond none of its edges.
LEMMA OwnSide ==
  ASSUME IsTree(Clique, tree), NEW u \in Clique, NEW w \in Clique, {u, w} \in tree
  PROVE  ~ Beyond(Clique, tree, u, w, u)
<1>1. Beyond(Clique, tree, w, u, u) BY ConnectedSelf DEF Beyond
<1> QED BY <1>1, TwoSides

LEMMA InitPots == InitializePotentials => PotsInv
<1> SUFFICES ASSUME InitializePotentials PROVE PotsInv
  OBVIOUS
<1> USE DEF InitializePotentials
<1>1. IsTree(Clique, tree) BY TreeIsTree
<1>2. \A e \in tree : sep[e] = Unity BY DEF Unity
<1>3. \A v, h \in Clique : cont[v][h] = IF h = v THEN 1 ELSE 0 OBVIOUS
<1>4. PotsTypeOK BY DEF PotsTypeOK, Unity
<1>5. NoDoubleCount /\ AtHome
  BY <1>2, <1>3 DEF NoDoubleCount, AtHome, Unity
<1>6. Downhill
  <2> SUFFICES ASSUME NEW u \in Clique, NEW w \in Clique, NEW h \in Clique,
                      {u, w} \in tree, Beyond(Clique, tree, u, w, h)
               PROVE  sep[{u, w}][h] = cont[u][h] /\ cont[u][h] <= cont[w][h]
    BY DEF Downhill
  <2>1. h # u BY <1>1, OwnSide
  <2>2. sep[{u, w}][h] = 0 BY <1>2 DEF Unity
  <2> QED BY <1>3, <2>1, <2>2
<1> QED BY <1>4, <1>5, <1>6 DEF PotsInv

\* A message changes one potential and one separator.
LEMMA PassEffect ==
  ASSUME PotsInv, NEW r \in Clique, NEW c \in Clique, MessagePass(r, c)
  PROVE  /\ {r, c} \in tree /\ r # c /\ tree' = tree /\ PotsTypeOK'
         /\ \A h \in Clique : cont'[r][h] = cont[c][h] - sep[{r, c}][h] + cont[r][h]
         /\ \A v, h \in Clique : v # r => cont'[v][h] = cont[v][h]
         /\ \A e \in tree, h \in Clique :
              sep'[e][h] = IF e = {r, c} THEN cont[c][h] ELSE sep[e][h]
<1>1. {r, c} \in tree /\ tree' = tree BY DEF MessagePass
<1>2. r # c
  <2>1. {r, c} \in Edges(Clique) BY <1>1, TreeIsTree DEF PotsInv, PotsTypeOK, IsTree
  <2> QED BY <2>1 DEF Edges
<1>3. /\ cont \in [Clique -> [Clique -> Int]] /\ sep \in [tree -> [Clique -> Int]]
      /\ tree \in Trees
  BY DEF PotsInv, PotsTypeOK
<1> DEFINE new == [h \in Clique |-> cont[c][h] - sep[{r, c}][h] + cont[r][h]]
<1>4. Product(UpdateRatio(cont[c], sep[{r, c}]), cont[r]) = new
  BY DEF Product, UpdateRatio
<1>5. cont' = [cont EXCEPT ![r] = new] /\ sep' = [sep EXCEPT ![{r, c}] = cont[c]]
  BY <1>3, <1>4 DEF MessagePass
<1>6. new \in [Clique -> Int] BY <1>1, <1>3
<1>7. PotsTypeOK' BY <1>1, <1>3, <1>5, <1>6 DEF PotsTypeOK
<1>8. /\ \A h \in Clique : cont'[r][h] = cont[c][h] - sep[{r, c}][h] + cont[r][h]
      /\ \A v, h \in Clique : v # r => cont'[v][h] = cont[v][h]
  BY <1>3, <1>5
<1>9. \A e \in tree, h \in Clique :
        sep'[e][h] = IF e = {r, c} THEN cont[c][h] ELSE sep[e][h]
  BY <1>1, <1>3, <1>5
<1> QED BY <1>1, <1>2, <1>7, <1>8, <1>9

\* Which is: the receiver has what the caller has of the factors from the
\* caller's side, and what it had of the others.
LEMMA PassOutcome ==
  ASSUME PotsInv, NEW r \in Clique, NEW c \in Clique, MessagePass(r, c), NEW h \in Clique
  PROVE  /\ Beyond(Clique, tree, r, c, h) => cont'[r][h] = cont[c][h]
         /\ ~ Beyond(Clique, tree, r, c, h) =>
              cont'[r][h] = cont[r][h] /\ sep[{r, c}][h] = cont[c][h]
         /\ cont[r][h] <= cont'[r][h]
<1>1. /\ {r, c} \in tree /\ {c, r} = {r, c}
      /\ cont'[r][h] = cont[c][h] - sep[{r, c}][h] + cont[r][h]
  BY PassEffect
<1>2. IsTree(Clique, tree) BY TreeIsTree DEF PotsInv, PotsTypeOK
<1>3. cont[c][h] \in Int /\ cont[r][h] \in Int /\ sep[{r, c}][h] \in Int
  BY <1>1 DEF PotsInv, PotsTypeOK
<1>4. CASE Beyond(Clique, tree, r, c, h)
  <2>1. sep[{r, c}][h] = cont[r][h] /\ cont[r][h] <= cont[c][h]
    BY <1>1, <1>4 DEF PotsInv, Downhill
  <2> QED BY <1>1, <1>3, <1>4, <2>1
<1>5. CASE ~ Beyond(Clique, tree, r, c, h)
  <2>1. Beyond(Clique, tree, c, r, h) BY <1>1, <1>2, <1>5, TwoSides
  <2>2. sep[{r, c}][h] = cont[c][h] BY <1>1, <2>1 DEF PotsInv, Downhill
  <2> QED BY <1>1, <1>3, <1>5, <2>2
<1> QED BY <1>4, <1>5

LEMMA PassKeeps ==
  ASSUME PotsInv, NEW r \in Clique, NEW c \in Clique, MessagePass(r, c)
  PROVE  PotsInv'
<1>1. /\ {r, c} \in tree /\ r # c /\ tree' = tree /\ PotsTypeOK'
      /\ \A v, h \in Clique : v # r => cont'[v][h] = cont[v][h]
      /\ \A e \in tree, h \in Clique :
           sep'[e][h] = IF e = {r, c} THEN cont[c][h] ELSE sep[e][h]
  BY PassEffect
<1>2. IsTree(Clique, tree) BY TreeIsTree DEF PotsInv, PotsTypeOK
<1>3. \A h \in Clique : cont'[r][h] \in {cont[c][h], cont[r][h]}
  BY PassOutcome
<1>4. NoDoubleCount'
  BY <1>1, <1>3 DEF PotsInv, NoDoubleCount
<1>5. AtHome'
  <2>1. ~ Beyond(Clique, tree, r, c, r) BY <1>1, <1>2, OwnSide
  <2>2. cont'[r][r] = cont[r][r] BY <2>1, PassOutcome
  <2> QED BY <1>1, <2>2 DEF PotsInv, AtHome
<1>6. Downhill'
  <2> SUFFICES ASSUME NEW u \in Clique, NEW w \in Clique, NEW h \in Clique,
                      {u, w} \in tree, Beyond(Clique, tree, u, w, h)
               PROVE  sep'[{u, w}][h] = cont'[u][h] /\ cont'[u][h] <= cont'[w][h]
    BY <1>1 DEF Downhill
  <2>0. sep[{u, w}][h] = cont[u][h] /\ cont[u][h] <= cont[w][h]
    BY DEF PotsInv, Downhill
  <2>1. \A v \in Clique : cont[v][h] \in Int /\ cont'[v][h] \in Int
    BY <1>1 DEF PotsInv, PotsTypeOK
  <2>2. u # w BY <1>2 DEF IsTree, Edges
  <2>3. CASE u = r /\ w = c
    <3>1. cont'[r][h] = cont[c][h] BY <2>3, PassOutcome
    <3>2. sep'[{u, w}][h] = cont[c][h] /\ cont'[c][h] = cont[c][h] BY <1>1, <2>3
    <3> QED BY <2>1, <2>3, <3>1, <3>2
  <2>4. CASE u = c /\ w = r
    <3>1. {u, w} = {r, c} BY <2>4
    <3>2. ~ Beyond(Clique, tree, r, c, h) BY <1>1, <1>2, <2>4, <3>1, TwoSides
    <3>3. cont'[r][h] = cont[r][h] BY <3>2, PassOutcome
    <3>4. sep'[{u, w}][h] = cont[c][h] /\ cont'[c][h] = cont[c][h] BY <1>1, <3>1
    <3> QED BY <2>0, <2>1, <2>4, <3>3, <3>4
  <2>5. CASE u = r /\ w # c
    <3>1. {u, w} # {r, c} BY <2>5, <2>2
    <3>2. {r, w} \in tree BY <2>5
    <3>3. ~ Beyond(Clique, tree, r, c, h)
      <4>1. ASSUME Beyond(Clique, tree, r, c, h) PROVE FALSE
        <5>1. Beyond(Clique, tree, w, r, h)
          BY <1>1, <1>2, <2>5, <3>2, <4>1, FurtherSide
        <5>2. {w, r} \in tree BY <3>2
        <5> QED BY <1>2, <2>5, <5>1, <5>2, TwoSides
      <4> QED BY <4>1
    <3>4. cont'[r][h] = cont[r][h] BY <3>3, PassOutcome
    <3>5. sep'[{u, w}][h] = sep[{u, w}][h] /\ cont'[w][h] = cont[w][h]
      BY <1>1, <2>2, <2>5, <3>1
    <3> QED BY <2>0, <2>1, <2>5, <3>4, <3>5
  <2>6. CASE w = r /\ u # c
    <3>1. {u, w} # {r, c} BY <2>6, <2>2
    <3>2. sep'[{u, w}][h] = sep[{u, w}][h] /\ cont'[u][h] = cont[u][h]
      BY <1>1, <2>2, <2>6, <3>1
    <3>3. cont[r][h] <= cont'[r][h] BY PassOutcome
    <3> QED BY <2>0, <2>1, <2>6, <3>2, <3>3
  <2>7. CASE u # r /\ w # r
    <3>1. {u, w} # {r, c} BY <2>7
    <3>2. /\ sep'[{u, w}][h] = sep[{u, w}][h]
          /\ cont'[u][h] = cont[u][h] /\ cont'[w][h] = cont[w][h]
      BY <1>1, <2>7, <3>1
    <3> QED BY <2>0, <3>2
  <2> QED BY <2>3, <2>4, <2>5, <2>6, <2>7
<1> QED BY <1>1, <1>4, <1>5, <1>6 DEF PotsInv

LEMMA PotsKeep == PotsInv /\ [PassAny]_potVars => PotsInv'
<1>1. ASSUME PotsInv, PassAny PROVE PotsInv'
  BY <1>1, PassKeeps DEF PassAny
<1>2. ASSUME PotsInv, UNCHANGED potVars PROVE PotsInv'
  BY <1>2 DEF potVars, PotsInv, PotsTypeOK, NoDoubleCount, AtHome, Downhill
<1> QED BY <1>1, <1>2

LEMMA PotsInvariance == AnySchedule => []PotsInv
BY InitPots, PotsKeep, PTL DEF AnySchedule

\* From a holder of a factor the separators towards its home all have it.
LEMMA Gapless == PotsInv => SpreadsFromHome
<1> SUFFICES ASSUME PotsInv, NEW h \in Clique, NEW v \in Clique, cont[v][h] # 0,
                    NEW P \in SUBSET Clique, h \in P,
                    Closed({e \in tree : sep[e][h] # 0}, P), v \notin P
             PROVE  FALSE
  BY DEF SpreadsFromHome, Carriers, Connected
<1>1. IsTree(Clique, tree) BY TreeIsTree DEF PotsInv, PotsTypeOK
<1> DEFINE Missing == {z \in Clique \ P : cont[z][h] # 0}
           Gate(z, n) == {z, n} \in tree /\ Beyond(Clique, tree, z, n, h)
           S == {y \in Clique : \E z \in Missing, n \in Clique :
                   Gate(z, n) /\ Beyond(Clique, tree, n, z, y)}
<1>2. Missing \subseteq S
  <2> SUFFICES ASSUME NEW z \in Missing PROVE z \in S
    OBVIOUS
  <2>1. PICK n \in Clique : Gate(z, n) BY <1>1, SomeSide
  <2>2. Beyond(Clique, tree, n, z, z) BY ConnectedSelf DEF Beyond
  <2> QED BY <2>1, <2>2
<1>3. h \notin S BY <1>1, TwoSides
<1>4. Closed(tree, S)
  <2> HIDE DEF S
  <2> SUFFICES ASSUME NEW e \in tree, NEW a \in e \cap S, NEW b \in e
               PROVE  b \in S
    BY DEF Closed
  <2> USE DEF S
  <2>1. a \in Clique /\ b \in Clique /\ (a # b => e = {a, b})
    BY <1>1 DEF IsTree, Edges
  <2>2. PICK z \in Missing, n \in Clique : Gate(z, n) /\ Beyond(Clique, tree, n, z, a)
    OBVIOUS
  <2>3. CASE e = {z, n}
    <3>1. sep[{z, n}][h] = cont[z][h] /\ cont[z][h] <= cont[n][h]
      BY <2>2 DEF PotsInv, Downhill
    <3>2. cont[z][h] = 1 /\ cont[n][h] \in {0, 1}
      BY DEF PotsInv, NoDoubleCount
    <3>3. n \notin P
      BY <2>2, <3>1, <3>2 DEF Closed
    <3>4. n \in Missing BY <3>1, <3>2, <3>3
    <3> QED BY <1>2, <2>3, <3>4
  <2>4. CASE e # {z, n} /\ a # b
    <3>1. {a, b} \in tree \ {{n, z}} BY <2>1, <2>4
    <3>2. Beyond(Clique, tree, n, z, b)
      BY <2>2, <3>1, ConnectedEnds, ConnectedTransitive DEF Beyond
    <3> QED BY <2>1, <2>2, <3>2
  <2> QED BY <2>3, <2>4
<1>5. v \in S BY <1>2
<1>6. Connected(Clique, tree, v, h) BY <1>1 DEF IsTree
<1> QED BY <1>3, <1>4, <1>5, <1>6 DEF Connected

-----------------------------------------------------------------------------
\* No order of messages counts a factor twice or divides it out.
THEOREM FactorsOnce == AnySchedule => []NoDoubleCount
<1>1. PotsInv => NoDoubleCount BY DEF PotsInv
<1> QED BY PotsInvariance, <1>1, PTL

\* A factor is carried from its home to wherever it is, clique by clique.
THEOREM FactorsSpread == AnySchedule => []SpreadsFromHome
BY PotsInvariance, Gapless, PTL

\* No message takes a factor away.
THEOREM Monotone == AnySchedule => NothingForgotten
<1>1. PotsInv /\ [PassAny]_potVars
        => [\A v, h \in Clique : cont[v][h] <= cont'[v][h]]_potVars
  <2> SUFFICES ASSUME PotsInv, NEW r \in Clique, NEW c \in Clique, MessagePass(r, c),
                      NEW v \in Clique, NEW h \in Clique
               PROVE  cont[v][h] <= cont'[v][h]
    BY DEF PassAny
  <2>1. CASE v = r BY <2>1, PassOutcome
  <2>2. CASE v # r
    <3>1. \A x, y \in Clique : x # r => cont'[x][y] = cont[x][y] BY PassEffect
    <3> QED BY <2>2, <3>1 DEF PotsInv, PotsTypeOK
  <2> QED BY <2>1, <2>2
<1> QED BY PotsInvariance, <1>1, PTL DEF AnySchedule, NothingForgotten

-----------------------------------------------------------------------------
(* When a message brings a factor to a clique, it brings it to the separator *)
(* it goes over, which had none of it either.                                *)

LEMMA InitCharge == InitializePotentials => Charge
<1> SUFFICES ASSUME InitializePotentials, NEW h \in Clique
             PROVE  Cardinality(Holders(h)) = Cardinality(Carriers(h)) + 1
  BY DEF Charge
<1>1. Holders(h) = {h} BY DEF InitializePotentials, Holders
<1>2. Carriers(h) = {} BY DEF InitializePotentials, Carriers, Unity
<1>3. Cardinality({h}) = 1 BY FS_Singleton
<1>4. Cardinality({}) = 0 BY FS_EmptySet
<1> QED BY <1>1, <1>2, <1>3, <1>4

LEMMA PassKeepsCharge ==
  ASSUME PotsInv, Charge, NEW r \in Clique, NEW c \in Clique, MessagePass(r, c)
  PROVE  Charge'
<1> SUFFICES ASSUME NEW h \in Clique
             PROVE  Cardinality(Holders(h)') = Cardinality(Carriers(h)') + 1
  BY DEF Charge
<1>1. /\ {r, c} \in tree /\ tree' = tree
      /\ \A v \in Clique : v # r => cont'[v][h] = cont[v][h]
      /\ \A e \in tree : sep'[e][h] = IF e = {r, c} THEN cont[c][h] ELSE sep[e][h]
  <2>1. /\ {r, c} \in tree /\ tree' = tree
        /\ \A v, k \in Clique : v # r => cont'[v][k] = cont[v][k]
        /\ \A e \in tree, k \in Clique :
             sep'[e][k] = IF e = {r, c} THEN cont[c][k] ELSE sep[e][k]
    BY PassEffect
  <2> QED BY <2>1
<1>2. /\ \A v \in Clique : cont[v][h] \in {0, 1}
      /\ \A e \in tree : sep[e][h] \in {0, 1}
  BY DEF PotsInv, NoDoubleCount
<1>3. CASE cont'[r][h] = cont[r][h] /\ sep[{r, c}][h] = cont[c][h]
  <2>1. Holders(h)' = Holders(h) BY <1>1, <1>3 DEF Holders
  <2>2. Carriers(h)' = Carriers(h) BY <1>1, <1>3 DEF Carriers
  <2> QED BY <2>1, <2>2 DEF Charge
<1>4. CASE cont'[r][h] = 1 /\ cont[r][h] = 0 /\ sep[{r, c}][h] = 0 /\ cont[c][h] = 1
  <2>1. Holders(h)' = Holders(h) \cup {r} /\ r \notin Holders(h)
    BY <1>1, <1>4 DEF Holders
  <2>2. Carriers(h)' = Carriers(h) \cup {{r, c}} /\ {r, c} \notin Carriers(h)
    <3>1. sep'[{r, c}][h] = 1 BY <1>1, <1>4
    <3>2. \A e \in tree : e # {r, c} => sep'[e][h] = sep[e][h] BY <1>1
    <3>3. ASSUME NEW e \in tree PROVE sep'[e][h] # 0 <=> (sep[e][h] # 0 \/ e = {r, c})
      <4>1. CASE e = {r, c} BY <3>1, <4>1
      <4>2. CASE e # {r, c} BY <3>2, <4>2
      <4> QED BY <4>1, <4>2
    <3> QED BY <1>1, <1>4, <3>3 DEF Carriers
  <2>3. IsFiniteSet(Holders(h)) BY CliqueAssumption, FS_Subset DEF Holders
  <2>4. IsFiniteSet(Carriers(h))
    <3>1. Carriers(h) \subseteq SUBSET Clique
      BY TreeIsTree DEF PotsInv, PotsTypeOK, IsTree, Edges, Carriers
    <3> QED BY <3>1, CliqueAssumption, FS_SUBSET, FS_Subset
  <2>5. /\ Cardinality(Holders(h)') = Cardinality(Holders(h)) + 1
        /\ Cardinality(Carriers(h)') = Cardinality(Carriers(h)) + 1
    BY <2>1, <2>2, <2>3, <2>4, FS_AddElement
  <2> QED BY <2>5 DEF Charge
<1>5. CASE Beyond(Clique, tree, r, c, h)
  <2>1. cont'[r][h] = cont[c][h] BY <1>5, PassOutcome
  <2>2. sep[{r, c}][h] = cont[r][h] /\ cont[r][h] <= cont[c][h]
    BY <1>1, <1>5 DEF PotsInv, Downhill
  <2> QED BY <1>2, <1>3, <1>4, <2>1, <2>2
<1>6. CASE ~ Beyond(Clique, tree, r, c, h)
  BY <1>3, <1>6, PassOutcome
<1> QED BY <1>5, <1>6

LEMMA ChargeStays == PotsInv /\ Charge /\ [PassAny]_potVars => Charge'
<1>1. ASSUME PotsInv, Charge, PassAny PROVE Charge'
  BY <1>1, PassKeepsCharge DEF PassAny
<1>2. ASSUME Charge, UNCHANGED potVars PROVE Charge'
  BY <1>2 DEF potVars, Charge, Holders, Carriers
<1> QED BY <1>1, <1>2

\* The product the junction tree stands for is the same after any messages.
THEOREM ChargeKept == AnySchedule => []Charge
BY PotsInvariance, InitCharge, ChargeStays, PTL DEF AnySchedule

-----------------------------------------------------------------------------
(***************************************************************************)
(* What the sweeps add.                                                    *)
(***************************************************************************)
FrameSet == [this : Clique, todo : SUBSET Clique]
Depth == 1 .. Len(stack)

\* p is the neighbour of v in the direction of the root.
Up(v, p) == {v, p} \in tree /\ Beyond(Clique, tree, v, p, root)

Active(v) == \E k \in Depth : stack[k].this = v
Finished(v) == v \in marks /\ ~ Active(v)

\* Everything on v's side of the edge from v up to p has reached p.
Delivered(v, p) ==
  \A h \in Clique : Beyond(Clique, tree, p, v, h) => cont[p][h] = 1

StackInv ==
  /\ pc = "idle" => stack = <<>>
  /\ pc # "idle" => stack # <<>> /\ stack[1].this = root
  /\ pc = "distribute" => Len(stack) = 1 /\ marks = {root}

\* The frames of a collection climb down from the root, and marking follows.
ClimbInv ==
  pc = "collect" =>
    /\ \A k \in Depth : stack[k].this \in marks
    /\ \A k \in Depth : stack[k].todo \subseteq Neighbors(stack[k].this)
    /\ \A k, l \in Depth : stack[k].this = stack[l].this => k = l
    /\ \A k \in Depth : k > 1 => Up(stack[k].this, stack[k-1].this)
    /\ \A v \in marks, p \in Clique : Up(v, p) => p \in marks

\* A neighbour further down is still to come, or done, or being visited.
TodoInv ==
  pc = "collect" =>
    \A k \in Depth, n \in Clique :
      Up(n, stack[k].this) =>
        /\ n \in stack[k].todo => n \notin marks
        /\ \/ n \in stack[k].todo
           \/ Finished(n)
           \/ k + 1 \in Depth /\ stack[k+1].this = n

FinishedInv ==
  pc = "collect" =>
    \A v, p \in Clique : Finished(v) /\ Up(v, p) => Delivered(v, p)

DistributeInv ==
  pc = "distribute" /\ phase # "fresh" =>
    \A n \in Neighbors(root) \ stack[1].todo, h \in Clique : cont[n][h] = 1

IInv ==
  /\ TypeOK /\ PotsInv
  /\ StackInv /\ ClimbInv /\ TodoInv /\ FinishedInv
  /\ RootComplete /\ DistributeInv /\ NeighborsComplete

-----------------------------------------------------------------------------
\* Up leads along the tree to the root.
LEMMA UpFacts ==
  ASSUME TypeOK, NEW v \in Clique, NEW p \in Clique
  PROVE  /\ IsTree(Clique, tree)
         /\ ~ Up(root, p)
         /\ {v, p} \in tree => v # p /\ (Up(v, p) <=> ~ Up(p, v))
         /\ \A q \in Clique : Up(v, p) /\ Up(v, q) => p = q
<1>1. IsTree(Clique, tree) /\ root \in Clique
  BY TreeIsTree DEF TypeOK, PotsTypeOK
<1>2. ~ Up(root, p) BY <1>1, OwnSide DEF Up
<1>3. ASSUME {v, p} \in tree PROVE v # p /\ (Up(v, p) <=> ~ Up(p, v))
  <2>1. {p, v} = {v, p} OBVIOUS
  <2>2. v # p BY <1>1, <1>3 DEF IsTree, Edges
  <2> QED BY <1>1, <1>3, <2>1, <2>2, TwoSides DEF Up
<1>4. ASSUME NEW q \in Clique, Up(v, p), Up(v, q), p # q PROVE FALSE
  <2>1. {v, p} \in tree /\ {v, q} \in tree /\ {q, v} \in tree
    <3>1. {q, v} = {v, q} OBVIOUS
    <3> QED BY <1>4, <3>1 DEF Up
  <2>2. Beyond(Clique, tree, v, p, root) /\ Beyond(Clique, tree, v, q, root)
    BY <1>4 DEF Up
  <2>3. Beyond(Clique, tree, q, v, root) BY <1>1, <1>4, <2>1, <2>2, FurtherSide
  <2> QED BY <1>1, <2>1, <2>2, <2>3, TwoSides
<1> QED BY <1>1, <1>2, <1>3, <1>4

LEMMA TopFacts ==
  ASSUME stack \in Seq(FrameSet), stack # <<>>
  PROVE  /\ Len(stack) \in Nat \ {0}
         /\ Top \in FrameSet /\ Top.this \in Clique /\ Top.todo \in SUBSET Clique
         /\ \A k \in Depth : stack[k] \in FrameSet /\ stack[k].this \in Clique
<1>1. Len(stack) \in Nat \ {0} BY EmptySeq
<1>2. \A k \in Depth : stack[k] \in FrameSet BY ElementOfSeq DEF Depth
<1>3. Len(stack) \in Depth BY <1>1 DEF Depth
<1> QED BY <1>1, <1>2, <1>3 DEF Top, FrameSet

LEMMA AdvancedFacts ==
  ASSUME stack \in Seq(FrameSet), stack # <<>>, NEW n
  PROVE  /\ Advanced(n) \in Seq(FrameSet)
         /\ Len(Advanced(n)) = Len(stack)
         /\ \A k \in Depth : /\ Advanced(n)[k].this = stack[k].this
                             /\ k # Len(stack) => Advanced(n)[k] = stack[k]
         /\ Advanced(n)[Len(stack)].todo = Top.todo \ {n}
<1>1. Len(stack) \in Nat \ {0} /\ \A k \in Depth : stack[k] \in FrameSet
  BY TopFacts
<1>2. Len(stack) \in Depth BY <1>1 DEF Depth
<1> DEFINE f == [stack[Len(stack)] EXCEPT !.todo = @ \ {n}]
<1>3. f \in FrameSet /\ f.this = Top.this /\ f.todo = Top.todo \ {n}
  BY <1>1, <1>2 DEF FrameSet, Top
<1>4. Advanced(n) = [stack EXCEPT ![Len(stack)] = f] BY DEF Advanced
<1>5. /\ [stack EXCEPT ![Len(stack)] = f] \in Seq(FrameSet)
      /\ Len([stack EXCEPT ![Len(stack)] = f]) = Len(stack)
      /\ \A k \in 1 .. Len(stack) :
           [stack EXCEPT ![Len(stack)] = f][k] = IF k = Len(stack) THEN f ELSE stack[k]
  BY <1>2, <1>3, ExceptSeq DEF Depth
<1>6. \A k \in Depth : Advanced(n)[k] = IF k = Len(stack) THEN f ELSE stack[k]
  BY <1>4, <1>5 DEF Depth
<1>7. /\ Advanced(n)[Len(stack)] = f
      /\ \A k \in Depth : k # Len(stack) => Advanced(n)[k] = stack[k]
  BY <1>2, <1>6
<1>8. \A k \in Depth : Advanced(n)[k].this = stack[k].this
  BY <1>3, <1>7 DEF Top
<1> QED BY <1>3, <1>4, <1>5, <1>7, <1>8

LEMMA PopFacts ==
  ASSUME stack \in Seq(FrameSet), Len(stack) > 1
  PROVE  /\ Pop \in Seq(FrameSet) /\ Pop # <<>>
         /\ Len(Pop) = Len(stack) - 1
         /\ \A k \in 1 .. Len(stack) - 1 : k \in Depth /\ Pop[k] = stack[k]
<1>1. Len(stack) \in Nat \ {0} /\ \A k \in Depth : stack[k] \in FrameSet
  BY TopFacts, EmptySeq
<1>2. \A k \in 1 .. Len(stack) - 1 : k \in Depth /\ stack[k] \in FrameSet
  BY <1>1 DEF Depth
<1>3. 1 \in Int /\ Len(stack) - 1 \in Int /\ 1 <= Len(stack) - 1 BY <1>1
<1>4. /\ Pop \in Seq(FrameSet)
      /\ Len(Pop) = IF 1 <= Len(stack) - 1 THEN (Len(stack) - 1) - 1 + 1 ELSE 0
      /\ \A k \in 1 .. (Len(stack) - 1) - 1 + 1 : Pop[k] = stack[1 + k - 1]
  BY <1>2, <1>3, SubSeqProperties DEF Pop
<1>5. \A m \in Nat : \A l :
        m > 1 /\ l = (IF 1 <= m - 1 THEN (m - 1) - 1 + 1 ELSE 0) => l = m - 1
  OBVIOUS
<1>6. Len(Pop) = Len(stack) - 1 BY <1>1, <1>4, <1>5
<1>7. Pop # <<>> BY <1>3, <1>6, EmptySeq
<1>8. \A k \in 1 .. Len(stack) - 1 : Pop[k] = stack[k]
  <2> TAKE k \in 1 .. Len(stack) - 1
  <2>1. k \in 1 .. (Len(stack) - 1) - 1 + 1 /\ 1 + k - 1 = k BY <1>1
  <2> QED BY <1>4, <2>1
<1> QED BY <1>2, <1>4, <1>6, <1>7, <1>8

LEMMA FrameType ==
  ASSUME NEW v \in Clique PROVE Frame(v) \in FrameSet
BY DEF Frame, FrameSet, Neighbors

\* A message takes no factor from a clique that has it.
LEMMA PassKeepsFactors ==
  ASSUME PotsInv, NEW r \in Clique, NEW c \in Clique, MessagePass(r, c),
         NEW v \in Clique, NEW h \in Clique, cont[v][h] = 1
  PROVE  cont'[v][h] = 1
<1>1. \A x, y \in Clique : x # r => cont'[x][y] = cont[x][y] BY PassEffect
<1>2. cont[r][h] <= cont'[r][h] BY PassOutcome
<1>3. cont'[r][h] \in {0, 1} BY PassKeeps DEF PotsInv, NoDoubleCount
<1> QED BY <1>1, <1>2, <1>3

\* The steps that leave the potentials alone.
LEMMA QuietFacts ==
  ASSUME IInv, UNCHANGED <<potVars, root>>
  PROVE  /\ PotsInv' /\ PotsTypeOK' /\ root' \in Clique
         /\ \A v, p \in Clique : Up(v, p)' <=> Up(v, p)
         /\ \A v, p \in Clique : Delivered(v, p)' <=> Delivered(v, p)
         /\ \A v \in Clique : Neighbors(v)' = Neighbors(v)
         /\ phase' = phase => RootComplete' /\ NeighborsComplete'
<1> USE DEF potVars
<1>1. PotsInv' /\ PotsTypeOK'
  BY DEF IInv, PotsInv, PotsTypeOK, NoDoubleCount, AtHome, Downhill
<1>2. root' \in Clique BY DEF IInv, TypeOK
<1>3. \A v, p \in Clique : Up(v, p)' <=> Up(v, p) BY DEF Up
<1>4. \A v, p \in Clique : Delivered(v, p)' <=> Delivered(v, p) BY DEF Delivered
<1>5. \A v \in Clique : Neighbors(v)' = Neighbors(v) BY DEF Neighbors
<1>6. ASSUME phase' = phase PROVE RootComplete' /\ NeighborsComplete'
  BY <1>6 DEF IInv, RootComplete, NeighborsComplete, Neighbors
<1> QED BY <1>1, <1>2, <1>3, <1>4, <1>5, <1>6

-----------------------------------------------------------------------------
LEMMA InitInv == Init => IInv
<1> SUFFICES ASSUME Init PROVE IInv
  OBVIOUS
<1>1. PotsInv /\ PotsTypeOK BY InitPots DEF Init, PotsInv
<1>2. pc = "idle" /\ phase = "fresh" /\ stack = <<>> /\ marks = {} /\ root \in Clique
  BY DEF Init
<1>3. TypeOK BY <1>1, <1>2, EmptySeq DEF TypeOK
<1> QED BY <1>1, <1>2, <1>3
        DEF IInv, StackInv, ClimbInv, TodoInv, FinishedInv, RootComplete,
            DistributeInv, NeighborsComplete

LEMMA CallCollectKeeps ==
  ASSUME IInv, CallCollect
  PROVE  IInv'
<1>1. UNCHANGED <<potVars, root>> /\ phase' = phase /\ pc' = "collect" /\ marks' = {root}
  BY DEF CallCollect
<1>2. /\ PotsInv' /\ PotsTypeOK' /\ root' \in Clique
      /\ \A v, p \in Clique : Up(v, p)' <=> Up(v, p)
      /\ \A v \in Clique : Neighbors(v)' = Neighbors(v)
      /\ RootComplete' /\ NeighborsComplete'
  BY <1>1, QuietFacts
<1>3. root \in Clique /\ phase \in {"fresh", "collected", "distributed"}
  BY DEF IInv, TypeOK
<1>4. /\ stack' = <<Frame(root)>> /\ Len(stack') = 1 /\ stack' # <<>>
      /\ stack'[1] = Frame(root)
  BY DEF CallCollect
<1>5. Depth' = {1} BY <1>4 DEF Depth
<1>6. stack'[1].this = root /\ stack'[1].todo = Neighbors(root)
  BY <1>4 DEF Frame
<1>7. TypeOK'
  <2>1. Frame(root) \in [this : Clique, todo : SUBSET Clique]
    BY <1>3, FrameType DEF FrameSet
  <2>2. stack' \in Seq([this : Clique, todo : SUBSET Clique]) BY <1>4, <2>1
  <2> QED BY <1>1, <1>2, <1>3, <2>2 DEF TypeOK
<1>8. StackInv' BY <1>1, <1>4, <1>6 DEF StackInv
<1>9. \A p \in Clique : ~ Up(root, p) BY <1>3, UpFacts DEF IInv
<1>10. ClimbInv' BY <1>1, <1>2, <1>3, <1>5, <1>6, <1>9 DEF ClimbInv
<1>11. \A n \in Clique : Up(n, root) => n \in Neighbors(root) /\ n # root
  <2> TAKE n \in Clique
  <2>1. {n, root} = {root, n} OBVIOUS
  <2> QED BY <1>3, <2>1, UpFacts DEF IInv, Up, Neighbors
<1>12. TodoInv' BY <1>1, <1>2, <1>3, <1>5, <1>6, <1>11 DEF TodoInv
<1>13. FinishedInv' BY <1>1, <1>5, <1>6 DEF FinishedInv, Finished, Active
<1>14. DistributeInv' BY <1>1 DEF DistributeInv
<1> QED BY <1>2, <1>7, <1>8, <1>10, <1>12, <1>13, <1>14 DEF IInv

LEMMA CollectSkipKeeps ==
  ASSUME IInv, NEW n \in Clique, CollectSkip(n)
  PROVE  IInv'
<1>1. /\ UNCHANGED <<potVars, root>> /\ phase' = phase
      /\ pc = "collect" /\ pc' = "collect" /\ marks' = marks
      /\ stack' = Advanced(n)
  BY DEF CollectSkip
<1>2. /\ PotsInv' /\ PotsTypeOK' /\ root' \in Clique
      /\ \A v, p \in Clique : Up(v, p)' <=> Up(v, p)
      /\ \A v, p \in Clique : Delivered(v, p)' <=> Delivered(v, p)
      /\ \A v \in Clique : Neighbors(v)' = Neighbors(v)
      /\ RootComplete' /\ NeighborsComplete'
  BY <1>1, QuietFacts
<1>3. stack \in Seq(FrameSet) /\ stack # <<>>
  BY <1>1 DEF IInv, TypeOK, StackInv, FrameSet
<1>4. /\ Len(stack) \in Nat \ {0}
      /\ \A k \in Depth : stack[k] \in FrameSet /\ stack[k].this \in Clique
  BY <1>3, TopFacts
<1>5. /\ stack' \in Seq(FrameSet) /\ Len(stack') = Len(stack)
      /\ \A k \in Depth : /\ stack'[k].this = stack[k].this
                          /\ k # Len(stack) => stack'[k] = stack[k]
      /\ stack'[Len(stack)].todo = Top.todo \ {n}
  BY <1>1, <1>3, AdvancedFacts
<1>6. Depth' = Depth /\ Len(stack) \in Depth /\ 1 \in Depth
  BY <1>4, <1>5 DEF Depth
<1>7. \A k \in Depth : stack'[k].todo \subseteq stack[k].todo
  BY <1>5 DEF Top
<1>8. \A v \in Clique : Active(v)' <=> Active(v)
  BY <1>5, <1>6 DEF Active
<1>9. \A v \in Clique : Finished(v)' <=> Finished(v)
  BY <1>1, <1>8 DEF Finished
<1>10. TypeOK' BY <1>1, <1>2, <1>5 DEF IInv, TypeOK, FrameSet
<1>11. StackInv'
  <2>1. stack' # <<>> BY <1>4, <1>5, EmptySeq
  <2> QED BY <1>1, <1>5, <1>6, <2>1 DEF IInv, StackInv
<1>12. ClimbInv'
  <2>1. \A k \in Depth : k > 1 => k - 1 \in Depth BY <1>4 DEF Depth
  <2>2. (\A k \in Depth : k > 1 => Up(stack[k].this, stack[k-1].this))'
    BY <1>1, <1>2, <1>4, <1>5, <1>6, <2>1 DEF IInv, ClimbInv
  <2>3. (\A k \in Depth : stack[k].todo \subseteq Neighbors(stack[k].this))'
    <3> SUFFICES ASSUME NEW k \in Depth
                 PROVE  (stack[k].todo \subseteq Neighbors(stack[k].this))'
      BY <1>6
    <3>1. stack[k].todo \subseteq Neighbors(stack[k].this)
      BY <1>1 DEF IInv, ClimbInv
    <3>2. stack'[k].this = stack[k].this /\ stack[k].this \in Clique BY <1>4, <1>5
    <3>3. stack'[k].todo \subseteq stack[k].todo BY <1>7
    <3> QED BY <1>2, <3>1, <3>2, <3>3
  <2>4. (\A v \in marks, p \in Clique : Up(v, p) => p \in marks)'
    BY <1>1, <1>2 DEF IInv, ClimbInv, TypeOK
  <2>5. (\A k \in Depth : stack[k].this \in marks)'
    BY <1>1, <1>5, <1>6 DEF IInv, ClimbInv
  <2>6. (\A k, l \in Depth : stack[k].this = stack[l].this => k = l)'
    BY <1>1, <1>5, <1>6 DEF IInv, ClimbInv
  <2> QED BY <2>2, <2>3, <2>4, <2>5, <2>6 DEF ClimbInv
<1>13. ~ Up(n, Top.this)
  BY <1>1, <1>6 DEF IInv, TodoInv, CollectSkip, Top
<1>14. TodoInv'
  <2> SUFFICES ASSUME NEW k \in Depth, NEW m \in Clique, Up(m, stack[k].this)
               PROVE  /\ m \in stack'[k].todo => m \notin marks
                      /\ \/ m \in stack'[k].todo
                         \/ Finished(m)
                         \/ k + 1 \in Depth /\ stack[k+1].this = m
    BY <1>1, <1>2, <1>4, <1>5, <1>6, <1>9 DEF TodoInv
  <2>1. /\ m \in stack[k].todo => m \notin marks
        /\ \/ m \in stack[k].todo
           \/ Finished(m)
           \/ k + 1 \in Depth /\ stack[k+1].this = m
    BY <1>1 DEF IInv, TodoInv
  <2>2. m \in stack[k].todo => m \in stack'[k].todo
    BY <1>5, <1>13 DEF Top
  <2> QED BY <1>7, <2>1, <2>2
<1>15. FinishedInv' BY <1>1, <1>2, <1>9 DEF IInv, FinishedInv
<1>16. DistributeInv' BY <1>1 DEF DistributeInv
<1> QED BY <1>2, <1>10, <1>11, <1>12, <1>14, <1>15, <1>16 DEF IInv

LEMMA CollectRecurseKeeps ==
  ASSUME IInv, NEW n \in Clique, CollectRecurse(n)
  PROVE  IInv'
<1>1. /\ UNCHANGED <<potVars, root>> /\ phase' = phase
      /\ pc = "collect" /\ pc' = "collect" /\ marks' = marks \cup {n}
      /\ stack' = Append(Advanced(n), Frame(n)) /\ n \notin marks /\ n \in Top.todo
  BY DEF CollectRecurse
<1>2. /\ PotsInv' /\ PotsTypeOK' /\ root' \in Clique
      /\ \A v, p \in Clique : Up(v, p)' <=> Up(v, p)
      /\ \A v, p \in Clique : Delivered(v, p)' <=> Delivered(v, p)
      /\ \A v \in Clique : Neighbors(v)' = Neighbors(v)
      /\ RootComplete' /\ NeighborsComplete'
  BY <1>1, QuietFacts
<1>3. stack \in Seq(FrameSet) /\ stack # <<>> /\ TypeOK
  BY <1>1 DEF IInv, TypeOK, StackInv, FrameSet
<1>4. /\ Len(stack) \in Nat \ {0}
      /\ \A k \in Depth : stack[k] \in FrameSet /\ stack[k].this \in Clique
  BY <1>3, TopFacts
<1>5. /\ Advanced(n) \in Seq(FrameSet) /\ Len(Advanced(n)) = Len(stack)
      /\ \A k \in Depth : /\ Advanced(n)[k].this = stack[k].this
                          /\ k # Len(stack) => Advanced(n)[k] = stack[k]
      /\ Advanced(n)[Len(stack)].todo = Top.todo \ {n}
  BY <1>3, AdvancedFacts
<1>6. Frame(n) \in FrameSet /\ Frame(n).this = n /\ Frame(n).todo = Neighbors(n)
  BY FrameType DEF Frame
<1>7. /\ stack' \in Seq(FrameSet) /\ Len(stack') = Len(stack) + 1
      /\ \A k \in Depth : stack'[k] = Advanced(n)[k]
      /\ stack'[Len(stack) + 1] = Frame(n)
  BY <1>1, <1>5, <1>6 DEF Depth
<1>8. /\ Depth' = Depth \cup {Len(stack) + 1}
      /\ Len(stack) \in Depth /\ 1 \in Depth /\ Len(stack) + 1 \notin Depth
      /\ \A k \in Depth : k + 1 \in Depth'
      /\ \A k \in Depth : k > 1 => k - 1 \in Depth
  BY <1>4, <1>7 DEF Depth
<1>9. /\ \A k \in Depth : /\ stack'[k].this = stack[k].this
                          /\ stack'[k].todo \subseteq stack[k].todo
                          /\ k # Len(stack) => stack'[k].todo = stack[k].todo
      /\ stack'[Len(stack)].todo = Top.todo \ {n}
      /\ stack'[Len(stack) + 1].this = n
      /\ stack'[Len(stack) + 1].todo = Neighbors(n)
  BY <1>5, <1>6, <1>7, <1>8 DEF Top
<1> HIDE DEF Depth
<1>10. Up(n, Top.this) /\ Top.this \in marks /\ Top.this \in Clique
  <2>1. Top.this \in marks /\ n \in Neighbors(Top.this) /\ Top.this \in Clique
    BY <1>1, <1>4, <1>8 DEF IInv, ClimbInv, Top
  <2>2. ~ Up(Top.this, n)
    BY <1>1, <2>1 DEF IInv, ClimbInv
  <2>3. {n, Top.this} \in tree /\ {n, Top.this} = {Top.this, n}
    BY <2>1 DEF Neighbors
  <2> QED BY <1>3, <2>1, <2>2, <2>3, UpFacts
<1>11. \A v \in Clique : Active(v)' <=> Active(v) \/ v = n
  BY <1>8, <1>9 DEF Active
<1>12. ~ Active(n) BY <1>1 DEF IInv, ClimbInv, Active
<1>13. \A v \in Clique : Finished(v)' <=> Finished(v)
  BY <1>1, <1>11, <1>12 DEF Finished
<1>14. TypeOK' BY <1>1, <1>2, <1>3, <1>7 DEF TypeOK, FrameSet
<1>15. StackInv'
  <2>1. stack' # <<>> BY <1>4, <1>7, EmptySeq
  <2> QED BY <1>1, <1>8, <1>9, <2>1 DEF IInv, StackInv
<1>16. ClimbInv'
  <2>1. (\A k \in Depth : stack[k].this \in marks)'
    BY <1>1, <1>8, <1>9 DEF IInv, ClimbInv
  <2>2. (\A k \in Depth : stack[k].todo \subseteq Neighbors(stack[k].this))'
    <3> SUFFICES ASSUME NEW k \in Depth'
                 PROVE  (stack[k].todo \subseteq Neighbors(stack[k].this))'
      OBVIOUS
    <3>1. CASE k = Len(stack) + 1 BY <1>2, <1>9, <3>1
    <3>2. CASE k \in Depth
      <4>1. stack[k].todo \subseteq Neighbors(stack[k].this)
        BY <1>1, <3>2 DEF IInv, ClimbInv
      <4>2. /\ stack'[k].this = stack[k].this /\ stack[k].this \in Clique
            /\ stack'[k].todo \subseteq stack[k].todo
        BY <1>4, <1>9, <3>2
      <4> QED BY <1>2, <4>1, <4>2
    <3> QED BY <1>8, <3>1, <3>2
  <2>3. (\A k, l \in Depth : stack[k].this = stack[l].this => k = l)'
    <3>0. \A k \in Depth : stack'[k].this = stack[k].this BY <1>9
    <3>1. \A k \in Depth : stack'[k].this # n
      <4>1. \A k \in Depth : stack[k].this # n BY <1>1 DEF IInv, ClimbInv
      <4> QED BY <3>0, <4>1
    <3>2. \A k, l \in Depth : stack'[k].this = stack'[l].this => k = l
      <4>1. \A k, l \in Depth : stack[k].this = stack[l].this => k = l
        BY <1>1 DEF IInv, ClimbInv
      <4> QED BY <3>0, <4>1
    <3> QED BY <1>8, <1>9, <3>1, <3>2
  <2>4. (\A k \in Depth : k > 1 => Up(stack[k].this, stack[k-1].this))'
    <3> SUFFICES ASSUME NEW k \in Depth', k > 1
                 PROVE  Up(stack[k].this, stack[k-1].this)'
      OBVIOUS
    <3>1. CASE k = Len(stack) + 1
      <4>1. k - 1 = Len(stack) BY <1>4, <3>1
      <4>2. stack'[k].this = n /\ stack'[k-1].this = Top.this
        BY <1>8, <1>9, <3>1, <4>1 DEF Top
      <4> QED BY <1>2, <1>10, <4>2
    <3>2. CASE k \in Depth
      <4>1. k - 1 \in Depth BY <1>8, <3>2
      <4>2. Up(stack[k].this, stack[k-1].this) BY <1>1, <3>2 DEF IInv, ClimbInv
      <4> QED BY <1>2, <1>4, <1>9, <3>2, <4>1, <4>2
    <3> QED BY <1>8, <3>1, <3>2
  <2>5. (\A v \in marks, p \in Clique : Up(v, p) => p \in marks)'
    <3> SUFFICES ASSUME NEW v \in marks', NEW p \in Clique, Up(v, p)'
                 PROVE  p \in marks'
      OBVIOUS
    <3>1. CASE v = n
      <4>1. p = Top.this BY <1>2, <1>3, <1>10, <3>1, UpFacts
      <4> QED BY <1>1, <1>10, <4>1
    <3>2. CASE v \in marks BY <1>1, <1>2, <3>2 DEF IInv, ClimbInv, TypeOK
    <3> QED BY <1>1, <3>1, <3>2
  <2> QED BY <2>1, <2>2, <2>3, <2>4, <2>5 DEF ClimbInv
<1>17. TodoInv'
  <2> SUFFICES ASSUME NEW k \in Depth', NEW m \in Clique, Up(m, stack[k].this)'
               PROVE  /\ m \in stack'[k].todo => m \notin marks'
                      /\ \/ m \in stack'[k].todo
                         \/ Finished(m)
                         \/ k + 1 \in Depth' /\ stack'[k+1].this = m
    BY <1>13 DEF TodoInv
  <2>1. CASE k = Len(stack) + 1
    <3>1. Up(m, n) BY <1>2, <1>9, <2>1
    <3>2. {n, m} = {m, n} OBVIOUS
    <3>3. m \in Neighbors(n) /\ m # n BY <1>3, <3>1, <3>2, UpFacts DEF Up, Neighbors
    <3>4. m \notin marks BY <1>1, <3>1 DEF IInv, ClimbInv
    <3> QED BY <1>1, <1>9, <2>1, <3>3, <3>4
  <2>2. CASE k \in Depth
    <3>1. Up(m, stack[k].this) BY <1>2, <1>4, <1>9, <2>2
    <3>2. /\ m \in stack[k].todo => m \notin marks
          /\ \/ m \in stack[k].todo
             \/ Finished(m)
             \/ k + 1 \in Depth /\ stack[k+1].this = m
      BY <1>1, <2>2, <3>1 DEF IInv, TodoInv
    <3>3. CASE m = n
      <4>1. stack[k].this = Top.this
        BY <1>3, <1>4, <1>10, <2>2, <3>1, <3>3, UpFacts
      <4>2. k = Len(stack)
        BY <1>1, <1>8, <2>2, <4>1 DEF IInv, ClimbInv, Top
      <4>3. n \notin stack'[k].todo BY <1>9, <4>2
      <4>4. k + 1 \in Depth' /\ stack'[k+1].this = n BY <1>8, <1>9, <4>2
      <4> QED BY <3>3, <4>3, <4>4
    <3>4. CASE m # n
      <4>1. m \in stack'[k].todo <=> m \in stack[k].todo
        BY <1>9, <2>2, <3>4 DEF Top
      <4>2. k + 1 \in Depth => k + 1 \in Depth' /\ stack'[k+1].this = stack[k+1].this
        BY <1>8, <1>9
      <4> QED BY <1>1, <3>2, <3>4, <4>1, <4>2
    <3> QED BY <3>3, <3>4
  <2> QED BY <1>8, <2>1, <2>2
<1>18. FinishedInv' BY <1>1, <1>2, <1>13 DEF IInv, FinishedInv
<1>19. DistributeInv' BY <1>1 DEF DistributeInv
<1> QED BY <1>2, <1>14, <1>15, <1>16, <1>17, <1>18, <1>19 DEF IInv

\* A vertex that has heard from everything below it delivers everything on
\* its side.
LEMMA ReturnDelivers ==
  ASSUME IInv, CollectReturn
  PROVE  LET v == Top.this
             p == stack[Len(stack) - 1].this
         IN  /\ v \in Clique /\ p \in Clique /\ Up(v, p) /\ MessagePass(p, v)
             /\ \A h \in Clique :
                  Beyond(Clique, tree, p, v, h) => cont[v][h] = 1 /\ cont'[p][h] = 1
<1> DEFINE v == Top.this
           p == stack[Len(stack) - 1].this
<1>1. /\ pc = "collect" /\ Top.todo = {} /\ Len(stack) > 1 /\ MessagePass(p, v)
      /\ TypeOK /\ stack \in Seq(FrameSet) /\ stack # <<>>
  BY DEF CollectReturn, IInv, TypeOK, FrameSet, StackInv
<1>2. Len(stack) \in Nat \ {0} /\ \A k \in Depth : stack[k].this \in Clique
  BY <1>1, TopFacts
<1>3. Len(stack) \in Depth /\ Len(stack) - 1 \in Depth /\ Len(stack) + 1 \notin Depth
  BY <1>1, <1>2 DEF Depth
<1>4. v \in Clique /\ p \in Clique /\ Up(v, p)
  BY <1>1, <1>2, <1>3 DEF IInv, ClimbInv, Top
<1>5. IsTree(Clique, tree) /\ tree' = tree
  BY <1>1, <1>4, UpFacts DEF MessagePass
<1>6. {v, p} \in tree /\ {p, v} = {v, p} BY <1>4 DEF Up
<1>7. \A x \in Clique : Up(x, v) => Delivered(x, v)
  <2> SUFFICES ASSUME NEW x \in Clique, Up(x, v) PROVE Delivered(x, v)
    OBVIOUS
  <2>1. Finished(x)
    BY <1>1, <1>3 DEF IInv, TodoInv, Top
  <2> QED BY <1>1, <1>4, <2>1 DEF IInv, FinishedInv
<1>8. ASSUME NEW h \in Clique, Beyond(Clique, tree, p, v, h)
      PROVE  cont[v][h] = 1
  <2>1. CASE h = v BY <1>4, <2>1 DEF IInv, PotsInv, AtHome
  <2>2. CASE h # v
    <3>1. PICK x \in Clique : {v, x} \in tree /\ Beyond(Clique, tree, v, x, h)
      BY <1>4, <1>5, <2>2, SomeSide
    <3>2. x # p BY <1>4, <1>5, <1>6, <1>8, <3>1, TwoSides
    <3>3. ~ Up(v, x)
      <4> HIDE DEF v, p
      <4>1. \A q \in Clique : Up(v, p) /\ Up(v, q) => p = q BY <1>1, <1>4, UpFacts
      <4> QED BY <1>4, <3>2, <4>1
    <3>4. Up(x, v) BY <1>1, <1>4, <3>1, <3>3, UpFacts
    <3> QED BY <1>7, <3>1, <3>4 DEF Delivered
  <2> QED BY <2>1, <2>2
<1>9. ASSUME NEW h \in Clique, Beyond(Clique, tree, p, v, h)
      PROVE  cont'[p][h] = 1
  <2>1. cont'[p][h] = cont[v][h] BY <1>1, <1>4, <1>9, PassOutcome DEF IInv
  <2> QED BY <1>8, <1>9, <2>1
<1> QED BY <1>1, <1>4, <1>8, <1>9

\* What a message of a sweep leaves alone, and what it only adds to.
LEMMA PassFacts ==
  ASSUME IInv, NEW r \in Clique, NEW c \in Clique, MessagePass(r, c), root' = root
  PROVE  /\ PotsInv' /\ PotsTypeOK' /\ root' \in Clique
         /\ \A v, p \in Clique : Up(v, p)' <=> Up(v, p)
         /\ \A v, p \in Clique : Delivered(v, p) => Delivered(v, p)'
         /\ \A v \in Clique : Neighbors(v)' = Neighbors(v)
         /\ phase' = phase => RootComplete' /\ NeighborsComplete'
<1>1. PotsInv BY DEF IInv
<1>2. PotsInv' /\ PotsTypeOK' BY <1>1, PassKeeps DEF PotsInv
<1>3. tree' = tree BY DEF MessagePass
<1>4. root' \in Clique BY DEF IInv, TypeOK
<1>5. \A v, p \in Clique : Up(v, p)' <=> Up(v, p) BY <1>3 DEF Up
<1>6. \A v, h \in Clique : cont[v][h] = 1 => cont'[v][h] = 1
  BY <1>1, PassKeepsFactors
<1>7. \A v, p \in Clique : Delivered(v, p) => Delivered(v, p)'
  BY <1>3, <1>6 DEF Delivered
<1>8. \A v \in Clique : Neighbors(v)' = Neighbors(v) BY <1>3 DEF Neighbors
<1>9. ASSUME phase' = phase PROVE RootComplete' /\ NeighborsComplete'
  <2>1. \A v \in Neighbors(root) : v \in Clique BY DEF Neighbors
  <2>2. Neighbors(root)' = Neighbors(root) BY <1>3 DEF Neighbors
  <2> QED BY <1>4, <1>6, <1>9, <2>1, <2>2 DEF IInv, RootComplete, NeighborsComplete
<1> QED BY <1>2, <1>4, <1>5, <1>7, <1>8, <1>9

LEMMA CollectReturnKeeps ==
  ASSUME IInv, CollectReturn
  PROVE  IInv'
<1>1. /\ pc = "collect" /\ Len(stack) > 1 /\ stack' = Pop
      /\ root' = root /\ pc' = "collect" /\ marks' = marks /\ phase' = phase
      /\ TypeOK /\ stack \in Seq(FrameSet) /\ stack # <<>>
  BY DEF CollectReturn, IInv, TypeOK, FrameSet, StackInv
<1>2. PICK v \in Clique, p \in Clique :
        /\ v = stack[Len(stack)].this /\ Up(v, p) /\ MessagePass(p, v)
        /\ \A h \in Clique :
             Beyond(Clique, tree, p, v, h) => cont[v][h] = 1 /\ cont'[p][h] = 1
  BY ReturnDelivers DEF Top
<1>3. /\ PotsInv' /\ PotsTypeOK' /\ root' \in Clique
      /\ \A x, q \in Clique : Up(x, q)' <=> Up(x, q)
      /\ \A x, q \in Clique : Delivered(x, q) => Delivered(x, q)'
      /\ \A x \in Clique : Neighbors(x)' = Neighbors(x)
      /\ RootComplete' /\ NeighborsComplete'
  BY <1>1, <1>2, PassFacts
<1>4. Delivered(v, p)'
  <2>1. tree' = tree BY <1>2 DEF MessagePass
  <2> QED BY <1>2, <2>1 DEF Delivered
<1>5. /\ Len(stack) \in Nat \ {0}
      /\ \A k \in Depth : stack[k].this \in Clique
  BY <1>1, TopFacts
<1>6. /\ stack' \in Seq(FrameSet) /\ stack' # <<>> /\ Len(stack') = Len(stack) - 1
      /\ \A k \in 1 .. Len(stack) - 1 : stack'[k] = stack[k]
  BY <1>1, PopFacts
<1>7. /\ Depth' = Depth \ {Len(stack)} /\ Depth' = 1 .. Len(stack) - 1
      /\ Len(stack) \in Depth /\ 1 \in Depth'
      /\ \A k \in Depth' : k > 1 => k - 1 \in Depth'
  BY <1>1, <1>5, <1>6 DEF Depth
<1>8. \A k \in Depth' : k \in Depth /\ stack'[k] = stack[k] BY <1>6, <1>7
<1> HIDE DEF Depth
<1>9. \A x \in Clique : Active(x)' <=> Active(x) /\ x # v
  <2>1. \A k \in Depth : stack[k].this = v => k = Len(stack)
    BY <1>1, <1>2, <1>7 DEF IInv, ClimbInv
  <2> QED BY <1>2, <1>7, <1>8, <2>1 DEF Active
<1>10. v \in marks BY <1>1, <1>2, <1>7 DEF IInv, ClimbInv
<1>11. \A x \in Clique : Finished(x)' <=> Finished(x) \/ x = v
  BY <1>1, <1>9, <1>10 DEF Finished
<1>12. TypeOK' BY <1>1, <1>3, <1>6 DEF TypeOK, FrameSet
<1>13. StackInv' BY <1>1, <1>6, <1>7, <1>8 DEF IInv, StackInv
<1>14. ClimbInv'
  <2>1. (\A k \in Depth : stack[k].this \in marks)'
    BY <1>1, <1>8 DEF IInv, ClimbInv
  <2>2. (\A k \in Depth : stack[k].todo \subseteq Neighbors(stack[k].this))'
    <3>1. \A k \in Depth : stack[k].todo \subseteq Neighbors(stack[k].this)
      BY <1>1 DEF IInv, ClimbInv
    <3> QED BY <1>3, <1>5, <1>8, <3>1
  <2>3. (\A k, l \in Depth : stack[k].this = stack[l].this => k = l)'
    <3>1. \A k, l \in Depth : stack[k].this = stack[l].this => k = l
      BY <1>1 DEF IInv, ClimbInv
    <3> QED BY <1>8, <3>1
  <2>4. (\A k \in Depth : k > 1 => Up(stack[k].this, stack[k-1].this))'
    <3>1. \A k \in Depth : k > 1 => Up(stack[k].this, stack[k-1].this)
      BY <1>1 DEF IInv, ClimbInv
    <3> QED BY <1>3, <1>5, <1>7, <1>8, <3>1
  <2>5. (\A x \in marks, q \in Clique : Up(x, q) => q \in marks)'
    <3>1. \A x \in marks, q \in Clique : Up(x, q) => q \in marks
      BY <1>1 DEF IInv, ClimbInv
    <3> QED BY <1>1, <1>3, <3>1 DEF TypeOK
  <2> QED BY <2>1, <2>2, <2>3, <2>4, <2>5 DEF ClimbInv
<1>15. TodoInv'
  <2> SUFFICES ASSUME NEW k \in Depth', NEW m \in Clique, Up(m, stack[k].this)'
               PROVE  /\ m \in stack'[k].todo => m \notin marks'
                      /\ \/ m \in stack'[k].todo
                         \/ Finished(m)'
                         \/ k + 1 \in Depth' /\ stack'[k+1].this = m
    BY DEF TodoInv
  <2>1. k \in Depth /\ stack'[k] = stack[k] /\ stack[k].this \in Clique
    BY <1>5, <1>8
  <2>2. Up(m, stack[k].this) BY <1>3, <2>1
  <2>3. /\ m \in stack[k].todo => m \notin marks
        /\ \/ m \in stack[k].todo
           \/ Finished(m)
           \/ k + 1 \in Depth /\ stack[k+1].this = m
    BY <1>1, <2>1, <2>2 DEF IInv, TodoInv
  <2>4. CASE k + 1 \in Depth /\ stack[k+1].this = m
    <3>1. CASE k + 1 = Len(stack)
      BY <1>1, <1>2, <1>11, <2>1, <2>3, <2>4, <3>1
    <3>2. CASE k + 1 # Len(stack)
      BY <1>1, <1>7, <1>8, <2>1, <2>3, <2>4, <3>2
    <3> QED BY <3>1, <3>2
  <2> QED BY <1>1, <1>11, <2>1, <2>3, <2>4
<1>16. FinishedInv'
  <2> SUFFICES ASSUME NEW x \in Clique, NEW q \in Clique, Finished(x)', Up(x, q)'
               PROVE  Delivered(x, q)'
    BY DEF FinishedInv
  <2>1. Up(x, q) BY <1>3
  <2>2. CASE x = v
    <3>1. p = q BY <1>1, <1>2, <2>1, <2>2, UpFacts
    <3> QED BY <1>4, <2>2, <3>1
  <2>3. CASE x # v
    <3>1. Finished(x) BY <1>11, <2>3
    <3>2. Delivered(x, q) BY <1>1, <2>1, <3>1 DEF IInv, FinishedInv
    <3> QED BY <1>3, <3>2
  <2> QED BY <2>2, <2>3
<1>17. DistributeInv' BY <1>1 DEF DistributeInv
<1> QED BY <1>3, <1>12, <1>13, <1>14, <1>15, <1>16, <1>17 DEF IInv

LEMMA CollectedKeeps ==
  ASSUME IInv, Collected
  PROVE  IInv'
<1>1. /\ UNCHANGED <<potVars, root>> /\ pc = "collect" /\ pc' = "idle"
      /\ stack' = <<>> /\ marks' = {} /\ Top.todo = {} /\ Len(stack) = 1
      /\ phase' \in {phase, "collected"}
  BY DEF Collected
<1>2. PotsInv' /\ PotsTypeOK' /\ root' \in Clique BY <1>1, QuietFacts
<1>3. /\ TypeOK /\ root \in Clique /\ IsTree(Clique, tree) /\ stack[1].this = root
      /\ phase \in {"fresh", "collected", "distributed"}
  BY <1>1, UpFacts DEF IInv, TypeOK, StackInv
<1>4. Depth = {1} /\ stack[1].todo = {} BY <1>1 DEF Depth, Top
<1>5. \A x \in Clique : Up(x, root) => Delivered(x, root)
  <2> SUFFICES ASSUME NEW x \in Clique, Up(x, root) PROVE Delivered(x, root)
    OBVIOUS
  <2>1. Finished(x) BY <1>1, <1>3, <1>4 DEF IInv, TodoInv
  <2> QED BY <1>1, <1>3, <2>1 DEF IInv, FinishedInv
<1>6. \A h \in Clique : cont[root][h] = 1
  <2> TAKE h \in Clique
  <2>1. CASE h = root BY <1>3, <2>1 DEF IInv, PotsInv, AtHome
  <2>2. CASE h # root
    <3>1. PICK x \in Clique : {root, x} \in tree /\ Beyond(Clique, tree, root, x, h)
      BY <1>3, <2>2, SomeSide
    <3>2. ~ Up(root, x) BY <1>3, UpFacts
    <3>3. Up(x, root) BY <1>3, <3>1, <3>2, UpFacts
    <3> QED BY <1>5, <3>1, <3>3 DEF Delivered
  <2> QED BY <2>1, <2>2
<1>7. \A h \in Clique : cont'[root'][h] = 1 BY <1>1, <1>6 DEF potVars
<1>8. NeighborsComplete'
  BY <1>1 DEF IInv, NeighborsComplete, Neighbors, potVars
<1>9. TypeOK' BY <1>1, <1>2, <1>3, EmptySeq DEF TypeOK
<1> QED BY <1>1, <1>2, <1>7, <1>8, <1>9
        DEF IInv, StackInv, ClimbInv, TodoInv, FinishedInv, RootComplete, DistributeInv

LEMMA CallDistributeKeeps ==
  ASSUME IInv, CallDistribute
  PROVE  IInv'
<1>1. /\ UNCHANGED <<potVars, root>> /\ phase' = phase /\ pc' = "distribute"
      /\ marks' = {root} /\ stack' = <<Frame(root)>>
  BY DEF CallDistribute
<1>2. /\ PotsInv' /\ PotsTypeOK' /\ root' \in Clique /\ root' = root
      /\ \A v \in Clique : Neighbors(v)' = Neighbors(v)
      /\ RootComplete' /\ NeighborsComplete'
  BY <1>1, QuietFacts
<1>3. root \in Clique /\ phase \in {"fresh", "collected", "distributed"}
  BY DEF IInv, TypeOK
<1>4. /\ Len(stack') = 1 /\ stack' # <<>>
      /\ stack'[1].this = root /\ stack'[1].todo = Neighbors(root)
  BY <1>1 DEF Frame
<1>5. TypeOK'
  <2>1. Frame(root) \in [this : Clique, todo : SUBSET Clique]
    BY <1>3, FrameType DEF FrameSet
  <2> QED BY <1>1, <1>2, <1>3, <2>1 DEF TypeOK
<1>6. StackInv' BY <1>1, <1>4 DEF StackInv
<1>7. Neighbors(root)' \ stack'[1].todo = {} BY <1>1, <1>2, <1>3, <1>4 DEF Neighbors
<1>8. DistributeInv' BY <1>7 DEF DistributeInv
<1> QED BY <1>1, <1>2, <1>5, <1>6, <1>8
        DEF IInv, ClimbInv, TodoInv, FinishedInv

LEMMA DistributePassKeeps ==
  ASSUME IInv, NEW n \in Clique, DistributePass(n)
  PROVE  IInv'
<1>1. /\ root' = root /\ phase' = phase /\ pc = "distribute" /\ pc' = "distribute"
      /\ marks' = marks /\ stack' = Advanced(n)
      /\ IF n \in marks THEN UNCHANGED potVars ELSE MessagePass(n, Top.this)
  BY DEF DistributePass
<1>2. /\ TypeOK /\ stack \in Seq(FrameSet) /\ stack # <<>> /\ Len(stack) = 1
      /\ stack[1].this = root /\ marks = {root} /\ root \in Clique
      /\ IsTree(Clique, tree)
  BY <1>1, UpFacts DEF IInv, TypeOK, FrameSet, StackInv
<1>3. Top.this = root /\ Top.todo = stack[1].todo BY <1>2 DEF Top
<1>4. /\ PotsInv' /\ PotsTypeOK' /\ root' \in Clique
      /\ Neighbors(root)' = Neighbors(root)
      /\ RootComplete' /\ NeighborsComplete'
      /\ \A v, h \in Clique : cont[v][h] = 1 => cont'[v][h] = 1
  <2>1. CASE UNCHANGED potVars
    <3>1. cont' = cont BY <2>1 DEF potVars
    <3> QED BY <1>1, <1>2, <2>1, <3>1, QuietFacts
  <2>2. CASE MessagePass(n, Top.this)
    <3>1. MessagePass(n, root) BY <1>3, <2>2
    <3> QED BY <1>1, <1>2, <3>1, PassFacts, PassKeepsFactors DEF IInv
  <2> QED BY <1>1, <2>1, <2>2
<1>5. /\ stack' \in Seq(FrameSet) /\ Len(stack') = 1 /\ stack' # <<>>
      /\ stack'[1].this = root /\ stack'[1].todo = stack[1].todo \ {n}
  <2>1. 1 \in Depth BY <1>2 DEF Depth
  <2>2. /\ stack' \in Seq(FrameSet) /\ Len(stack') = 1
        /\ stack'[1].this = root /\ stack'[1].todo = stack[1].todo \ {n}
    BY <1>1, <1>2, <1>3, <2>1, AdvancedFacts
  <2> QED BY <2>2, EmptySeq
<1>6. TypeOK' BY <1>1, <1>2, <1>4, <1>5 DEF TypeOK, FrameSet
<1>7. StackInv' BY <1>1, <1>2, <1>5 DEF StackInv
<1>8. ASSUME phase # "fresh", n \in Neighbors(root), NEW h \in Clique
      PROVE  cont'[n][h] = 1
  <2>1. {root, n} \in tree /\ {n, root} = {root, n} /\ n # root
    BY <1>2, <1>8 DEF Neighbors, IsTree, Edges
  <2>2. MessagePass(n, root) BY <1>1, <1>2, <1>3, <2>1
  <2>3. PotsInv /\ cont[root][h] = 1 BY <1>8 DEF IInv, RootComplete
  <2>4. CASE Beyond(Clique, tree, n, root, h)
    BY <1>2, <2>2, <2>3, <2>4, PassOutcome
  <2>5. CASE ~ Beyond(Clique, tree, n, root, h)
    <3>1. Beyond(Clique, tree, root, n, h) BY <1>2, <2>1, <2>5, TwoSides
    <3>2. cont[root][h] <= cont[n][h]
      BY <1>2, <2>1, <2>3, <3>1 DEF PotsInv, Downhill
    <3>3. cont[n][h] \in {0, 1} BY <2>3 DEF PotsInv, NoDoubleCount
    <3> QED BY <1>4, <2>3, <3>2, <3>3
  <2> QED BY <2>4, <2>5
<1>9. DistributeInv'
  <2> SUFFICES ASSUME phase # "fresh", NEW h \in Clique,
                      NEW m \in Neighbors(root), m \notin stack'[1].todo
               PROVE  cont'[m][h] = 1
    BY <1>1, <1>2, <1>4 DEF DistributeInv
  <2>1. CASE m = n BY <1>8, <2>1
  <2>2. CASE m # n
    <3>1. m \in Clique /\ m \notin stack[1].todo BY <1>5, <2>2 DEF Neighbors
    <3>2. cont[m][h] = 1 BY <1>1, <3>1 DEF IInv, DistributeInv
    <3> QED BY <1>4, <3>1, <3>2
  <2> QED BY <2>1, <2>2
<1> QED BY <1>1, <1>4, <1>6, <1>7, <1>9
        DEF IInv, ClimbInv, TodoInv, FinishedInv

LEMMA DistributedKeeps ==
  ASSUME IInv, Distributed
  PROVE  IInv'
<1>1. /\ UNCHANGED <<potVars, root>> /\ pc = "distribute" /\ pc' = "idle"
      /\ stack' = <<>> /\ marks' = {} /\ Top.todo = {}
      /\ phase' = IF phase = "fresh" THEN "fresh" ELSE "distributed"
  BY DEF Distributed
<1>2. PotsInv' /\ PotsTypeOK' /\ root' \in Clique BY <1>1, QuietFacts
<1>3. Len(stack) = 1 /\ stack[1].todo = {} BY <1>1 DEF IInv, StackInv, Top
<1>4. /\ cont' = cont /\ root' = root /\ Neighbors(root)' = Neighbors(root)
  BY <1>1 DEF potVars, Neighbors
<1>5. RootComplete' BY <1>1, <1>4 DEF IInv, RootComplete
<1>6. NeighborsComplete'
  BY <1>1, <1>3, <1>4 DEF IInv, DistributeInv, NeighborsComplete
<1>7. TypeOK' BY <1>1, <1>2, EmptySeq DEF TypeOK
<1> QED BY <1>1, <1>2, <1>5, <1>6, <1>7
        DEF IInv, StackInv, ClimbInv, TodoInv, FinishedInv, DistributeInv

LEMMA StutterKeeps ==
  ASSUME IInv, UNCHANGED vars
  PROVE  IInv'
<1> USE DEF vars, sweepVars
<1>1. /\ PotsInv' /\ PotsTypeOK' /\ root' \in Clique
      /\ \A v, p \in Clique : Up(v, p)' <=> Up(v, p)
      /\ \A v, p \in Clique : Delivered(v, p)' <=> Delivered(v, p)
      /\ \A v \in Clique : Neighbors(v)' = Neighbors(v)
      /\ RootComplete' /\ NeighborsComplete'
  BY QuietFacts
<1>2. TypeOK' BY <1>1 DEF IInv, TypeOK
<1>3. StackInv' BY DEF IInv, StackInv
<1>4. ClimbInv'
  BY DEF IInv, ClimbInv, Depth, Up, Neighbors, potVars
<1>5. TodoInv'
  BY DEF IInv, TodoInv, Depth, Up, Finished, Active, potVars
<1>6. FinishedInv'
  BY DEF IInv, FinishedInv, Depth, Up, Finished, Active, Delivered, potVars
<1>7. DistributeInv' BY DEF IInv, DistributeInv, Neighbors, potVars
<1> QED BY <1>1, <1>2, <1>3, <1>4, <1>5, <1>6, <1>7 DEF IInv

LEMMA NextKeeps == IInv /\ [Next]_vars => IInv'
<1> SUFFICES ASSUME IInv, [Next]_vars PROVE IInv'
  OBVIOUS
<1>1. CASE CallCollect BY <1>1, CallCollectKeeps
<1>2. CASE CallDistribute BY <1>2, CallDistributeKeeps
<1>3. CASE Sweep
  <2>1. ASSUME NEW n \in Clique, CollectSkip(n) PROVE IInv'
    BY <2>1, CollectSkipKeeps
  <2>2. ASSUME NEW n \in Clique, CollectRecurse(n) PROVE IInv'
    BY <2>2, CollectRecurseKeeps
  <2>3. CASE CollectReturn BY <2>3, CollectReturnKeeps
  <2>4. CASE Collected BY <2>4, CollectedKeeps
  <2>5. ASSUME NEW n \in Clique, DistributePass(n) PROVE IInv'
    BY <2>5, DistributePassKeeps
  <2>6. CASE Distributed BY <2>6, DistributedKeeps
  <2> QED BY <1>3, <2>1, <2>2, <2>3, <2>4, <2>5, <2>6 DEF Sweep
<1>4. CASE UNCHANGED vars BY <1>4, StutterKeeps
<1> QED BY <1>1, <1>2, <1>3, <1>4 DEF Next

LEMMA Invariance == Spec => []IInv
BY InitInv, NextKeeps, PTL DEF Spec

-----------------------------------------------------------------------------
\* The sweeps keep to the types of their state.
THEOREM SweepTypes == Spec => []TypeOK
<1>1. IInv => TypeOK BY DEF IInv
<1> QED BY Invariance, <1>1, PTL

\* After BNet_CollectEvidence the root has absorbed every factor.
THEOREM RootGetsAll == Spec => []RootComplete
<1>1. IInv => RootComplete BY DEF IInv
<1> QED BY Invariance, <1>1, PTL

\* After BNet_DistributeEvidence its neighbours have too.
THEOREM NeighborsGetAll == Spec => []NeighborsComplete
<1>1. IInv => NeighborsComplete BY DEF IInv
<1> QED BY Invariance, <1>1, PTL

\* A message that finds in the separator what it carries changes nothing.
LEMMA PassOfTheSame ==
  ASSUME PotsInv, NEW r \in Clique, NEW c \in Clique, MessagePass(r, c),
         sep[{r, c}] = cont[c]
  PROVE  UNCHANGED potVars
<1>1. /\ {r, c} \in tree /\ tree' = tree /\ PotsTypeOK /\ PotsTypeOK'
      /\ \A h \in Clique : cont'[r][h] = cont[c][h] - sep[{r, c}][h] + cont[r][h]
      /\ \A v, h \in Clique : v # r => cont'[v][h] = cont[v][h]
      /\ \A e \in tree, h \in Clique :
           sep'[e][h] = IF e = {r, c} THEN cont[c][h] ELSE sep[e][h]
  BY PassEffect DEF PotsInv
<1>2. \A v, h \in Clique : cont'[v][h] = cont[v][h]
  BY <1>1 DEF PotsTypeOK
<1>3. \A e \in tree, h \in Clique : sep'[e][h] = sep[e][h]
  BY <1>1
<1>4. cont' = cont BY <1>1, <1>2 DEF PotsTypeOK
<1>5. sep' = sep BY <1>1, <1>3 DEF PotsTypeOK
<1> QED BY <1>1, <1>4, <1>5 DEF potVars

\* Once the root is complete, what lies behind an edge has come along it.
LEMMA CarriedToRoot ==
  ASSUME IInv, phase # "fresh", NEW v \in Clique, NEW p \in Clique, Up(v, p),
         NEW h \in Clique, Beyond(Clique, tree, p, v, h)
  PROVE  sep[{v, p}][h] = 1
<1>1. /\ IsTree(Clique, tree) /\ root \in Clique /\ cont[root][h] = 1
      /\ {v, p} \in tree /\ {p, v} = {v, p} /\ Beyond(Clique, tree, v, p, root)
  BY UpFacts DEF IInv, TypeOK, RootComplete, Up
<1>2. sep[{v, p}][h] \in {0, 1} BY <1>1 DEF IInv, PotsInv, NoDoubleCount
<1>3. ASSUME sep[{v, p}][h] = 0 PROVE FALSE
  <2>1. Connected(Clique, Carriers(h), h, root)
    BY <1>1, Gapless DEF IInv, SpreadsFromHome
  <2>2. Carriers(h) \subseteq tree \ {{p, v}} BY <1>1, <1>3 DEF Carriers
  <2>3. Connected(Clique, tree \ {{p, v}}, h, root) BY <2>1, <2>2, ConnectedMore
  <2>4. Beyond(Clique, tree, p, v, root) BY <2>3, ConnectedTransitive DEF Beyond
  <2> QED BY <1>1, <2>4, TwoSides
<1> QED BY <1>2, <1>3

\* So a message towards the root has nothing new to say.
LEMMA UpwardCurrent ==
  ASSUME IInv, phase # "fresh", NEW v \in Clique, NEW p \in Clique, Up(v, p)
  PROVE  sep[{p, v}] = cont[v]
<1>1. /\ PotsInv /\ IsTree(Clique, tree) /\ {v, p} \in tree /\ {p, v} = {v, p}
  BY UpFacts DEF IInv, Up
<1>2. ASSUME NEW h \in Clique PROVE sep[{v, p}][h] = cont[v][h]
  <2>1. CASE Beyond(Clique, tree, v, p, h) BY <1>1, <2>1 DEF PotsInv, Downhill
  <2>2. CASE ~ Beyond(Clique, tree, v, p, h)
    <3>1. Beyond(Clique, tree, p, v, h) BY <1>1, <2>2, TwoSides
    <3>2. sep[{v, p}][h] = 1 BY <3>1, CarriedToRoot
    <3>3. cont[p][h] <= cont[v][h] /\ sep[{v, p}][h] = cont[p][h]
      BY <1>1, <3>1 DEF PotsInv, Downhill
    <3>4. cont[v][h] \in {0, 1} BY <1>1 DEF PotsInv, NoDoubleCount
    <3> QED BY <3>2, <3>3, <3>4
  <2> QED BY <2>1, <2>2
<1>3. sep[{v, p}] \in [Clique -> Int] /\ cont[v] \in [Clique -> Int]
  BY <1>1 DEF PotsInv, PotsTypeOK
<1>4. sep[{v, p}] = cont[v] BY <1>2, <1>3
<1> QED BY <1>1, <1>4

\* Nor has one from the root, to a neighbour that is complete.
LEMMA DownwardCurrent ==
  ASSUME IInv, phase = "distributed", NEW n \in Clique, {n, root} \in tree
  PROVE  sep[{n, root}] = cont[root]
<1>1. /\ PotsInv /\ IsTree(Clique, tree) /\ root \in Clique /\ {root, n} = {n, root}
      /\ n \in Neighbors(root)
  BY UpFacts DEF IInv, TypeOK, Neighbors
<1>2. ASSUME NEW h \in Clique PROVE sep[{n, root}][h] = cont[root][h]
  <2>1. cont[root][h] = 1 /\ cont[n][h] = 1
    BY <1>1 DEF IInv, RootComplete, NeighborsComplete
  <2>2. CASE Beyond(Clique, tree, root, n, h) BY <1>1, <2>2 DEF PotsInv, Downhill
  <2>3. CASE ~ Beyond(Clique, tree, root, n, h)
    <3>1. Beyond(Clique, tree, n, root, h) BY <1>1, <2>3, TwoSides
    <3> QED BY <1>1, <2>1, <3>1 DEF PotsInv, Downhill
  <2> QED BY <2>2, <2>3
<1>3. sep[{n, root}] \in [Clique -> Int] /\ cont[root] \in [Clique -> Int]
  BY <1>1 DEF PotsInv, PotsTypeOK
<1> QED BY <1>2, <1>3

(***************************************************************************)
(* BNet_CollectEvidence may be called again after a collection, and        *)
(* BNet_DistributeEvidence after a distribution that followed one: no      *)
(* potential and no separator changes, on every tree and from every root.  *)
(***************************************************************************)
THEOREM RepeatsAreIdle == Spec => RepeatsChangeNothing
<1> DEFINE Repeat == \/ pc = "collect" /\ phase # "fresh"
                     \/ pc = "distribute" /\ phase = "distributed"
<1>1. IInv /\ [Next]_vars => [Repeat => UNCHANGED potVars]_vars
  <2> SUFFICES ASSUME IInv, Next, Repeat PROVE UNCHANGED potVars
    OBVIOUS
  <2>1. CASE CollectReturn
    <3>1. phase # "fresh" BY <2>1 DEF CollectReturn
    <3>2. PICK v \in Clique, p \in Clique : Up(v, p) /\ MessagePass(p, v)
      BY <2>1, ReturnDelivers
    <3>3. sep[{p, v}] = cont[v] BY <3>1, <3>2, UpwardCurrent
    <3> QED BY <3>2, <3>3, PassOfTheSame DEF IInv
  <2>2. ASSUME NEW n \in Clique, DistributePass(n) PROVE UNCHANGED potVars
    <3>1. phase = "distributed" BY <2>2 DEF DistributePass
    <3>2. Top.this = root /\ root \in Clique
      BY <2>2 DEF IInv, TypeOK, StackInv, Top, DistributePass
    <3>3. CASE n \in marks BY <2>2, <3>3 DEF DistributePass
    <3>4. CASE n \notin marks
      <4>1. MessagePass(n, root) BY <2>2, <3>2, <3>4 DEF DistributePass
      <4>2. {n, root} \in tree BY <4>1 DEF MessagePass
      <4>3. sep[{n, root}] = cont[root] BY <3>1, <4>2, DownwardCurrent
      <4> QED BY <3>2, <4>1, <4>3, PassOfTheSame DEF IInv
    <3> QED BY <3>3, <3>4
  <2>3. CASE UNCHANGED potVars BY <2>3
  <2> QED BY <2>1, <2>2, <2>3 DEF Next, Sweep, CallCollect, CallDistribute,
             CollectSkip, CollectRecurse, Collected, Distributed
<1> QED BY <1>1, Invariance, PTL DEF Spec, RepeatsChangeNothing

(***************************************************************************)
(* Vertex_CollectEvidence sends to its caller only after all its recursive *)
(* calls have returned, and then everything on its side goes along.        *)
(***************************************************************************)
THEOREM CompleteOnly == Spec => CompleteMessages
<1> DEFINE Step ==
      \A u, w \in Clique :
        /\ pc = "collect" /\ {u, w} \in tree
        /\ Beyond(Clique, tree, u, w, root)
        /\ sep'[{u, w}] # sep[{u, w}]
        => \A h \in Clique :
             Beyond(Clique, tree, w, u, h) => sep'[{u, w}][h] = 1
<1>1. IInv /\ [Next]_vars => [Step]_vars
  <2> SUFFICES ASSUME IInv, Next, NEW u \in Clique, NEW w \in Clique,
                      pc = "collect", {u, w} \in tree,
                      Beyond(Clique, tree, u, w, root),
                      sep'[{u, w}] # sep[{u, w}],
                      NEW h \in Clique, Beyond(Clique, tree, w, u, h)
               PROVE  sep'[{u, w}][h] = 1
    OBVIOUS
  <2>1. CASE CollectReturn
    <3>1. PICK v \in Clique, p \in Clique :
            /\ Up(v, p) /\ MessagePass(p, v)
            /\ \A x \in Clique : Beyond(Clique, tree, p, v, x) => cont[v][x] = 1
      BY <2>1, ReturnDelivers
    <3>2. \A e \in tree : sep'[e] = IF e = {p, v} THEN cont[v] ELSE sep[e]
      <4>1. sep \in [tree -> [Clique -> Int]] BY DEF IInv, PotsInv, PotsTypeOK
      <4>2. sep' = [sep EXCEPT ![{p, v}] = cont[v]] BY <3>1 DEF MessagePass
      <4> QED BY <4>1, <4>2
    <3>3. {u, w} = {p, v} BY <3>2
    <3>4. Up(u, w) BY DEF Up
    <3>5. ~ Up(p, v) BY <3>1, UpFacts DEF IInv, Up
    <3>6. u = v /\ w = p
      <4>1. (u = v /\ w = p) \/ (u = p /\ w = v) BY <3>3
      <4> QED BY <3>4, <3>5, <4>1
    <3> QED BY <3>1, <3>2, <3>3, <3>6
  <2>2. CASE sep' = sep BY <2>2
  <2> QED BY <2>1, <2>2 DEF Next, Sweep, potVars, CallCollect, CallDistribute,
             CollectSkip, CollectRecurse, Collected, DistributePass, Distributed
<1> QED BY <1>1, Invariance, PTL DEF Spec, CompleteMessages
=============================================================================
