----------------------- MODULE ElimSetsDetailedProofs -----------------------
(***************************************************************************)
(* ElimSetsDetailed implements ElimSets, for any variable ordering, any    *)
(* networks and any number of bits in a char, so that what is proved of    *)
(* ElimSets holds of the bit vectors.                                      *)
(***************************************************************************)
EXTENDS ElimSetsDetailed, Lemmas, FiniteSetTheorems, TLAPS

(***************************************************************************)
(* Orderings.  A list of N labels that lists all of them lists each once,  *)
(* so that the position of a label can be had back from it.                *)
(***************************************************************************)
Ordering(s) == s \in [1 .. N -> Name] /\ ToSet(s) = Name

LEMMA Counted ==
  /\ N \in Nat /\ Ordering(vbls)
  /\ IsFiniteSet(Name) /\ Cardinality(Name) = N
  /\ \A k \in Rank : k \in Nat /\ k + 1 \in 1 .. N
  /\ \A k \in 1 .. N : k \in Nat /\ k - 1 \in Rank /\ (k - 1) + 1 = k
<1>1. N \in Nat /\ vbls \in [1 .. N -> Name] /\ ToSet(vbls) = Name /\ IsInjective(vbls)
  BY VblsAssumption DEF N
<1>2. vbls \in Bijection(1 .. N, Name)
  <2>1. \A v \in Name : \E k \in 1 .. N : vbls[k] = v
    BY <1>1 DEF ToSet
  <2>2. \A a, b \in 1 .. N : vbls[a] = vbls[b] => a = b
    BY <1>1 DEF IsInjective
  <2> QED BY <1>1, <2>1, <2>2 DEF Bijection, Injection, Surjection, IsInjective
<1>3. IsFiniteSet(1 .. N) /\ Cardinality(1 .. N) = N
  BY <1>1, FS_Interval
<1>4. ExistsBijection(1 .. N, Name)
  BY <1>2 DEF ExistsBijection
<1>5. IsFiniteSet(Name) /\ Cardinality(Name) = N
  BY <1>3, <1>4, FS_Bijection
<1>6. /\ \A k \in Rank : k \in Nat /\ k + 1 \in 1 .. N
      /\ \A k \in 1 .. N : k \in Nat /\ k - 1 \in Rank /\ (k - 1) + 1 = k
  BY <1>1 DEF Rank
<1> QED BY <1>1, <1>5, <1>6 DEF Ordering

LEMMA Ranks ==
  ASSUME NEW s, Ordering(s)
  PROVE  /\ \A v \in Name : RankByLabel(s, v) \in Rank /\ s[RankByLabel(s, v) + 1] = v
         /\ \A k \in Rank : s[k + 1] \in Name /\ RankByLabel(s, s[k + 1]) = k
         /\ \A u, v \in Name : RankByLabel(s, u) = RankByLabel(s, v) => u = v
<1>1. /\ s \in [1 .. N -> Name] /\ DOMAIN s = 1 .. N
      /\ \A v \in Name : \E k \in 1 .. N : s[k] = v
  BY DEF Ordering, ToSet
<1>2. s \in Surjection(1 .. N, Name)
  BY <1>1 DEF Surjection
<1>3. IsFiniteSet(1 .. N) /\ Cardinality(1 .. N) = N
  BY Counted, FS_Interval
<1>4. s \in Injection(1 .. N, Name)
  BY <1>2, <1>3, Counted, FS_SurjSameCardinalityImpliesInj
<1>5. \A a, b \in 1 .. N : s[a] = s[b] => a = b
  BY <1>1, <1>4 DEF Injection, IsInjective
<1>6. ASSUME NEW v \in Name
      PROVE  RankByLabel(s, v) \in Rank /\ s[RankByLabel(s, v) + 1] = v
  <2> DEFINE p == CHOOSE k \in DOMAIN s : s[k] = v
  <2>1. p \in 1 .. N /\ s[p] = v
    BY <1>1
  <2>2. RankByLabel(s, v) = p - 1
    BY DEF RankByLabel
  <2> HIDE DEF p
  <2>3. p - 1 \in Rank /\ (p - 1) + 1 = p
    BY <2>1, Counted
  <2> QED BY <2>1, <2>2, <2>3
<1>7. ASSUME NEW k \in Rank
      PROVE  s[k + 1] \in Name /\ RankByLabel(s, s[k + 1]) = k
  <2>1. k \in Nat /\ k + 1 \in 1 .. N
    BY Counted
  <2>2. s[k + 1] \in Name
    BY <1>1, <2>1
  <2> DEFINE r == RankByLabel(s, s[k + 1])
  <2>3. r \in Rank /\ s[r + 1] = s[k + 1]
    BY <1>6, <2>2
  <2> HIDE DEF r
  <2>4. r \in Nat /\ r + 1 \in 1 .. N
    BY <2>3, Counted
  <2>5. r + 1 = k + 1
    BY <1>5, <2>1, <2>3, <2>4
  <2>6. r = k
    BY <2>1, <2>4, <2>5
  <2> QED BY <2>2, <2>6 DEF r
<1>8. \A u, v \in Name : RankByLabel(s, u) = RankByLabel(s, v) => u = v
  BY <1>6
<1> QED BY <1>6, <1>7, <1>8

-----------------------------------------------------------------------------
(***************************************************************************)
(* Graphs, about which GraphProofs has the facts.                          *)
(***************************************************************************)
GP == INSTANCE GraphProofs WITH Iterator <- {}, MaxEdges <- 0, g <- imm, itr <- <<>>

Good(h) == GP!Good(h)
NoRepeat(s) == GP!NoRepeat(s)

LEMMA LabelsApart ==
  /\ Name \subseteq Seq(STRING) /\ <<>> \notin Name /\ GP!PrefixFree
  /\ 0 \in Nat
BY NameAssumption DEF PrefixFree, Begins, GP!PrefixFree, GP!Begins

LEMMA LabelsAreNotNull == \A v \in Name : v # NULL
BY NameAssumption DEF NULL

LEMMA SameData ==
  /\ NULL = GP!NULL /\ Arc = GP!Arc /\ Graphs = GP!Graphs
  /\ \A s : Listed(s) = GP!Listed(s)
  /\ \A s, e : Places(s, e) = GP!Places(s, e) /\ Place(s, e) = GP!Place(s, e)
BY DEF NULL, GP!NULL, Arc, GP!Arc, Graphs, GP!Graphs, Listed, GP!Listed,
       Places, GP!Places, Place, GP!Place, SrcSink, GP!SrcSink

LEMMA SameMaps ==
  /\ \A s, e : MapGet(s, e) = GP!MapGet(s, e) /\ MapAdd(s, e) = GP!MapAdd(s, e)
  /\ \A h, u, v : GetEdge(h, u, v) = GP!GetEdge(h, u, v)
  /\ \A h, v : WithVertex(h, v) = GP!WithVertex(h, v)
  /\ \A s : FirstOf(s) = GP!FirstOf(s)
<1>1. \A s, e : MapGet(s, e) = GP!MapGet(s, e) /\ MapAdd(s, e) = GP!MapAdd(s, e)
  BY SameData DEF MapGet, GP!MapGet, MapAdd, GP!MapAdd
<1>2. \A h, u, v : GetEdge(h, u, v) = GP!GetEdge(h, u, v)
  BY <1>1 DEF GetEdge, GP!GetEdge
<1>3. \A h, v : WithVertex(h, v) = GP!WithVertex(h, v)
  BY DEF WithVertex, GP!WithVertex, HasVertex, GP!HasVertex
<1>4. \A s : FirstOf(s) = GP!FirstOf(s)
  BY SameData DEF FirstOf, GP!FirstOf
<1> QED BY <1>1, <1>2, <1>3, <1>4

LEMMA SameEdge ==
  ASSUME NEW h, NEW u, NEW v
  PROVE  WithEdge(h, u, v) = GP!WithEdge(h, u, v)
<1>1. /\ MapAdd(h.edges, <<u, v>>) = GP!MapAdd(h.edges, <<u, v>>)
      /\ MapAdd(h.out[u], <<u, v>>) = GP!MapAdd(h.out[u], <<u, v>>)
      /\ MapAdd(h.in[v], <<u, v>>) = GP!MapAdd(h.in[v], <<u, v>>)
      /\ GetEdge(h, u, v) = GP!GetEdge(h, u, v) /\ NULL = GP!NULL
  BY SameMaps, SameData
<1> QED BY <1>1 DEF WithEdge, GP!WithEdge

LEMMA EmptyIsGood ==
  ASSUME NEW b \in BOOLEAN
  PROVE  Good(Empty(b)) /\ Listed(Empty(b).vertices) = {} /\ Listed(Empty(b).edges) = {}
<1>1. Empty(b) = GP!Empty(b)
  BY DEF Empty, GP!Empty
<1>2. Good(GP!Empty(b)) /\ GP!Listed(GP!Empty(b).vertices) = {} /\ GP!Listed(GP!Empty(b).edges) = {}
  BY GP!EmptyGood, LabelsApart DEF Good
<1> QED BY <1>1, <1>2, SameData

\* What a graph holds.
LEMMA GraphIs ==
  ASSUME NEW h, Good(h)
  PROVE  /\ h \in Graphs
         /\ h.vertices \in Seq(Name) /\ NoRepeat(h.vertices) /\ Listed(h.vertices) \subseteq Name
         /\ h.edges \in Seq(Arc) /\ Listed(h.edges) \subseteq Arc
         /\ \A e \in Listed(h.edges) : e[1] \in Listed(h.vertices) /\ e[2] \in Listed(h.vertices)
         /\ \A v \in Name :
              /\ h.in[v] \in Seq(Arc) /\ NoRepeat(h.in[v])
              /\ h.out[v] \in Seq(Arc) /\ NoRepeat(h.out[v])
              /\ Listed(h.out[v]) = {e \in Listed(h.edges) : e[1] = v}
              /\ Listed(h.in[v])  = {e \in Listed(h.edges) : e[2] = v}
<1>1. GP!Good(h)
  BY DEF Good
<1>2. /\ h.vertices \in Seq(Name) /\ GP!NoRepeat(h.vertices) /\ GP!Listed(h.vertices) \subseteq Name
      /\ h.edges \in Seq(GP!Arc) /\ GP!Listed(h.edges) \subseteq GP!Arc
      /\ \A v \in Name :
           /\ h.in[v] \in Seq(GP!Arc) /\ GP!NoRepeat(h.in[v])
           /\ h.out[v] \in Seq(GP!Arc) /\ GP!NoRepeat(h.out[v])
           /\ GP!Listed(h.out[v]) = {e \in GP!Listed(h.edges) : e[1] = v}
           /\ GP!Listed(h.in[v])  = {e \in GP!Listed(h.edges) : e[2] = v}
  BY <1>1, GP!Parts, LabelsApart
<1>3. /\ h \in GP!Graphs
      /\ \A e \in GP!Listed(h.edges) :
           e[1] \in GP!Listed(h.vertices) /\ e[2] \in GP!Listed(h.vertices)
  BY <1>1 DEF GP!Good, GP!EndsIn
<1> QED BY <1>2, <1>3, SameData DEF NoRepeat

LEMMA VertexAdds ==
  ASSUME NEW h, Good(h), NEW v \in Name
  PROVE  /\ Good(WithVertex(h, v))
         /\ Listed(WithVertex(h, v).vertices) = Listed(h.vertices) \cup {v}
         /\ WithVertex(h, v).edges = h.edges
<1>1. GP!Good(h)
  BY DEF Good
<1>2. /\ GP!Good(GP!WithVertex(h, v))
      /\ GP!Listed(GP!WithVertex(h, v).vertices) = GP!Listed(h.vertices) \cup {v}
      /\ GP!WithVertex(h, v).edges = h.edges
  BY <1>1, GP!VertexAdded, LabelsApart
<1>3. WithVertex(h, v) = GP!WithVertex(h, v)
  BY SameMaps
<1> QED BY <1>2, <1>3, SameData DEF Good

LEMMA EdgeAdds ==
  ASSUME NEW h, Good(h), NEW u \in Listed(h.vertices), NEW v \in Listed(h.vertices)
  PROVE  /\ Good(WithEdge(h, u, v))
         /\ Listed(WithEdge(h, u, v).edges) = Listed(h.edges) \cup {<<u, v>>}
         /\ WithEdge(h, u, v).vertices = h.vertices
<1>1. GP!Good(h) /\ u \in GP!Listed(h.vertices) /\ v \in GP!Listed(h.vertices)
  BY SameData DEF Good
<1>2. /\ GP!Good(GP!WithEdge(h, u, v))
      /\ GP!Listed(GP!WithEdge(h, u, v).edges) = GP!Listed(h.edges) \cup {<<u, v>>}
      /\ GP!WithEdge(h, u, v).vertices = h.vertices
  BY <1>1, GP!EdgeAdded, LabelsApart
<1>3. WithEdge(h, u, v) = GP!WithEdge(h, u, v)
  BY SameEdge
<1> QED BY <1>2, <1>3, SameData DEF Good

LEMMA GetEdgeFinds ==
  ASSUME NEW h, Good(h), NEW u \in Name, NEW v \in Name, <<u, v>> \in Listed(h.edges)
  PROVE  GetEdge(h, u, v) = <<u, v>>
<1>1. GP!Good(h) /\ <<u, v>> \in GP!Listed(h.edges)
  BY SameData DEF Good
<1>2. GP!GetEdge(h, u, v) = <<u, v>>
  BY <1>1, GP!GetEdgeIs, LabelsApart
<1> QED BY <1>2, SameMaps

LEMMA NextOfAt ==
  ASSUME NEW s \in Seq(Arc), NoRepeat(s), NEW k \in DOMAIN s
  PROVE  NextOf(s, s[k]) = IF k = Len(s) THEN NULL ELSE s[k + 1]
<1>1. s \in Seq(GP!Arc) /\ GP!NoRepeat(s) /\ s[k] \in GP!Arc
  BY SameData DEF NoRepeat
<1>2. /\ \A m \in DOMAIN s : s[m] = s[k] => GP!Place(s, s[k]) = m
      /\ GP!Places(s, s[k]) = {} <=> s[k] \notin GP!Listed(s)
  BY <1>1, GP!PlaceOf, LabelsApart
<1>3. Place(s, s[k]) = k /\ Places(s, s[k]) # {}
  BY <1>2, SameData DEF Listed
<1> QED BY <1>3 DEF NextOf

-----------------------------------------------------------------------------
(***************************************************************************)
(* The walk over the vertices of a graph: what is left of it.              *)
(***************************************************************************)
At(h, v) == CHOOSE k \in DOMAIN h.vertices : h.vertices[k] = v
Left(h, v) ==
  IF v = NULL THEN {} ELSE {h.vertices[k] : k \in At(h, v) .. Len(h.vertices)}

LEMMA ToVisitIsLeft == ToVisit = Left(imm, cur)
BY DEF ToVisit, Left, At

LEMMA LeftAt ==
  ASSUME NEW h, Good(h), NEW k \in DOMAIN h.vertices
  PROVE  Left(h, h.vertices[k]) = {h.vertices[m] : m \in k .. Len(h.vertices)}
<1>1. h.vertices \in Seq(Name) /\ NoRepeat(h.vertices)
  BY GraphIs
<1>2. h.vertices[k] # NULL
  BY <1>1, LabelsAreNotNull
<1>3. At(h, h.vertices[k]) = k
  BY <1>1 DEF At, NoRepeat, GP!NoRepeat
<1> QED BY <1>2, <1>3 DEF Left

LEMMA WalkBegins ==
  ASSUME NEW h, Good(h)
  PROVE  /\ FirstVertex(h) = NULL \/ FirstVertex(h) \in Listed(h.vertices)
         /\ Left(h, FirstVertex(h)) = Listed(h.vertices)
<1> DEFINE s == h.vertices
<1>1. s \in Seq(Name) /\ DOMAIN s = 1 .. Len(s) /\ Len(s) \in Nat
  BY GraphIs
<1>2. CASE s = <<>>
  <2>1. FirstVertex(h) = NULL /\ Listed(s) = {}
    BY <1>2 DEF FirstVertex, FirstOf, Listed
  <2> QED BY <2>1 DEF Left
<1>3. CASE s # <<>>
  <2>1. 1 \in DOMAIN s /\ FirstVertex(h) = s[1]
    BY <1>1, <1>3 DEF FirstVertex, FirstOf
  <2>2. Left(h, s[1]) = {s[m] : m \in 1 .. Len(s)}
    BY <2>1, LeftAt
  <2> QED BY <1>1, <2>1, <2>2 DEF Listed
<1> QED BY <1>2, <1>3

LEMMA WalkGoesOn ==
  ASSUME NEW h, Good(h), NEW v \in Listed(h.vertices)
  PROVE  /\ NextVertex(h, v) = NULL \/ NextVertex(h, v) \in Listed(h.vertices)
         /\ v \in Left(h, v) /\ Left(h, v) \subseteq Listed(h.vertices)
         /\ Left(h, NextVertex(h, v)) = Left(h, v) \ {v}
<1> DEFINE s == h.vertices
<1>1. s \in Seq(Name) /\ DOMAIN s = 1 .. Len(s) /\ Len(s) \in Nat
  BY GraphIs
<1>2. \A a, b \in DOMAIN s : s[a] = s[b] => a = b
  BY GraphIs DEF NoRepeat, GP!NoRepeat
<1>3. PICK k \in DOMAIN s : s[k] = v
  BY DEF Listed
<1> DEFINE found == {m \in DOMAIN s : s[m] = v}
           next  == {m \in DOMAIN s : m - 1 \in found /\ \A l \in found : m - 1 <= l}
<1>4. found = {k}
  BY <1>2, <1>3
<1>5. NextVertex(h, v) = IF next = {} THEN NULL ELSE s[CHOOSE m \in next : TRUE]
  BY DEF NextVertex
<1> HIDE DEF found
<1>6. next = IF k = Len(s) THEN {} ELSE {k + 1}
  BY <1>1, <1>3, <1>4
<1> HIDE DEF next
<1>7. NextVertex(h, v) = IF k = Len(s) THEN NULL ELSE s[k + 1]
  BY <1>5, <1>6
<1>8. Left(h, v) = {s[m] : m \in k .. Len(s)}
  BY <1>3, LeftAt
<1>9. v \in Left(h, v) /\ Left(h, v) \subseteq Listed(s)
  BY <1>1, <1>3, <1>8 DEF Listed
<1>10. CASE k = Len(s)
  <2>1. NextVertex(h, v) = NULL
    BY <1>7, <1>10
  <2>2. Left(h, v) = {v}
    BY <1>1, <1>3, <1>8, <1>10
  <2> QED BY <1>9, <2>1, <2>2 DEF Left
<1>11. CASE k # Len(s)
  <2>1. NextVertex(h, v) = s[k + 1] /\ k + 1 \in DOMAIN s
    BY <1>1, <1>3, <1>7, <1>11
  <2>2. Left(h, s[k + 1]) = {s[m] : m \in k + 1 .. Len(s)}
    BY <2>1, LeftAt
  <2>3. \A m \in k + 1 .. Len(s) : m \in k .. Len(s) /\ s[m] # v
    BY <1>1, <1>2, <1>3
  <2>4. \A m \in k .. Len(s) : m = k \/ m \in k + 1 .. Len(s)
    BY <1>1, <1>3
  <2>5. Left(h, s[k + 1]) = Left(h, v) \ {v}
    BY <1>3, <1>8, <2>2, <2>3, <2>4
  <2> QED BY <1>9, <2>1, <2>5 DEF Listed
<1> QED BY <1>10, <1>11

-----------------------------------------------------------------------------
(***************************************************************************)
(* Loops that add to a graph.                                              *)
(***************************************************************************)
LEMMA VerticesAdd ==
  ASSUME NEW h, Good(h), NEW list \in Seq(Name)
  PROVE  /\ Good(WithVertices(h, list))
         /\ Listed(WithVertices(h, list).vertices) = Listed(h.vertices) \cup Listed(list)
         /\ WithVertices(h, list).edges = h.edges
<1> DEFINE n == Len(list)
           S == {x \in Graphs : Good(x)}
           Iter(f) == f = [k \in 0 .. n |-> IF k = 0 THEN h ELSE WithVertex(f[k-1], list[k])]
           after == CHOOSE f : Iter(f)
           st == [k \in 1 .. n |-> [x \in S |-> WithVertex(x, list[k])]]
           Q == {k \in 0 .. n : /\ Good(after[k])
                                /\ Listed(after[k].vertices)
                                     = Listed(h.vertices) \cup {list[m] : m \in 1 .. k}
                                /\ after[k].edges = h.edges}
<1>0. WithVertices(h, list) = after[n]
  BY DEF WithVertices
<1>1. /\ n \in Nat /\ 0 \in 0 .. n /\ 0 + 1 .. n = 1 .. n /\ DOMAIN list = 1 .. n
      /\ \A k \in 1 .. n : list[k] \in Name
      /\ \A k \in 1 .. n : k \in 0 .. n /\ k - 1 \in 0 .. n /\ k # 0
      /\ \A k \in 0 .. n : k # 0 => k \in 1 .. n
  OBVIOUS
<1> HIDE DEF n
<1>2. h \in S
  BY GraphIs
<1>3. \A k \in 1 .. n, x \in S : st[k][x] = WithVertex(x, list[k]) /\ st[k][x] \in S
  <2> TAKE k \in 1 .. n, x \in S
  <2>1. Good(WithVertex(x, list[k])) /\ list[k] \in Name
    BY <1>1, VertexAdds
  <2>2. WithVertex(x, list[k]) \in Graphs
    BY <2>1, GraphIs
  <2> QED BY <2>1, <2>2
<1> HIDE DEF S
<1>4. PICK f : LoopOf(f, 0, n, S, h, st)
  <2> HIDE DEF st
  <2>1. \A k \in 0 + 1 .. n : \A x \in S : st[k][x] \in S
    BY <1>1, <1>3
  <2> QED BY <1>1, <1>2, <2>1, LoopExists
<1>5. Iter(f)
  <2>1. \A k \in 0 .. n : f[k] = IF k = 0 THEN h ELSE WithVertex(f[k-1], list[k])
    BY <1>1, <1>3, <1>4 DEF LoopOf
  <2>2. f = [k \in 0 .. n |-> f[k]]
    BY <1>4 DEF LoopOf
  <2> QED BY <2>1, <2>2
<1>6. Iter(after)
  <2> HIDE DEF Iter
  <2> QED BY <1>5
<1> HIDE DEF after
<1>7. after[0] = h /\ \A k \in 1 .. n : after[k] = WithVertex(after[k-1], list[k])
  BY <1>1, <1>6
<1>8. 0 \in Q
  BY <1>1, <1>7
<1>9. ASSUME NEW k \in 0 + 1 .. n, k - 1 \in Q PROVE k \in Q
  <2>1. /\ k \in 1 .. n /\ list[k] \in Name
        /\ \A m : m \in 1 .. k <=> m \in 1 .. k - 1 \/ m = k
    BY <1>1
  <2>2. /\ Good(after[k]) /\ after[k].edges = h.edges
        /\ Listed(after[k].vertices) = Listed(after[k-1].vertices) \cup {list[k]}
    BY <1>7, <1>9, <2>1, VertexAdds
  <2>3. Listed(after[k].vertices) = Listed(h.vertices) \cup {list[m] : m \in 1 .. k}
    BY <1>9, <2>1, <2>2
  <2> QED BY <1>1, <2>1, <2>2, <2>3
<1>10. n \in Q
  <2> HIDE DEF Q
  <2>1. \A k \in 0 .. n : k \in Q
    BY <1>1, <1>8, <1>9, IntervalInduction
  <2> QED BY <1>1, <2>1
<1> QED BY <1>0, <1>1, <1>10 DEF Listed

\* Pairs of vertices of h.
Between(h) == Listed(h.vertices) \X Listed(h.vertices)

LEMMA EdgesAdd ==
  ASSUME NEW h, Good(h), NEW list \in Seq(Between(h))
  PROVE  /\ Good(WithEdges(h, list))
         /\ Listed(WithEdges(h, list).edges) = Listed(h.edges) \cup Listed(list)
         /\ WithEdges(h, list).vertices = h.vertices
<1> DEFINE n == Len(list)
           S == {x \in Graphs : Good(x) /\ x.vertices = h.vertices}
           Iter(f) == f = [k \in 0 .. n |-> IF k = 0 THEN h
                                            ELSE WithEdge(f[k-1], list[k][1], list[k][2])]
           after == CHOOSE f : Iter(f)
           st == [k \in 1 .. n |-> [x \in S |-> WithEdge(x, list[k][1], list[k][2])]]
           Q == {k \in 0 .. n : /\ Good(after[k])
                                /\ Listed(after[k].edges)
                                     = Listed(h.edges) \cup {list[m] : m \in 1 .. k}
                                /\ after[k].vertices = h.vertices}
<1>0. WithEdges(h, list) = after[n]
  BY DEF WithEdges
<1>1. /\ n \in Nat /\ 0 \in 0 .. n /\ 0 + 1 .. n = 1 .. n /\ DOMAIN list = 1 .. n
      /\ \A k \in 1 .. n : k \in 0 .. n /\ k - 1 \in 0 .. n /\ k # 0
      /\ \A k \in 0 .. n : k # 0 => k \in 1 .. n
  OBVIOUS
<1>11. \A k \in 1 .. n : /\ list[k][1] \in Listed(h.vertices) /\ list[k][2] \in Listed(h.vertices)
                         /\ list[k] = <<list[k][1], list[k][2]>>
  <2>1. \A k \in 1 .. n : list[k] \in Between(h)
    BY <1>1
  <2> QED BY <2>1 DEF Between
<1> HIDE DEF n
<1>2. h \in S
  BY GraphIs
<1>3. \A k \in 1 .. n, x \in S :
        st[k][x] = WithEdge(x, list[k][1], list[k][2]) /\ st[k][x] \in S
  <2> TAKE k \in 1 .. n, x \in S
  <2> DEFINE y == WithEdge(x, list[k][1], list[k][2])
  <2>1. Good(y) /\ y.vertices = h.vertices
    BY <1>11, EdgeAdds
  <2>2. y \in Graphs
    BY <2>1, GraphIs
  <2> QED BY <2>1, <2>2
<1> HIDE DEF S
<1>4. PICK f : LoopOf(f, 0, n, S, h, st)
  <2> HIDE DEF st
  <2>1. \A k \in 0 + 1 .. n : \A x \in S : st[k][x] \in S
    BY <1>1, <1>3
  <2> QED BY <1>1, <1>2, <2>1, LoopExists
<1>5. Iter(f)
  <2>1. \A k \in 0 .. n : f[k] = IF k = 0 THEN h ELSE WithEdge(f[k-1], list[k][1], list[k][2])
    BY <1>1, <1>3, <1>4 DEF LoopOf
  <2>2. f = [k \in 0 .. n |-> f[k]]
    BY <1>4 DEF LoopOf
  <2> QED BY <2>1, <2>2
<1>6. Iter(after)
  <2> HIDE DEF Iter
  <2> QED BY <1>5
<1> HIDE DEF after
<1>7. /\ after[0] = h
      /\ \A k \in 1 .. n : after[k] = WithEdge(after[k-1], list[k][1], list[k][2])
  BY <1>1, <1>6
<1>8. 0 \in Q
  BY <1>1, <1>7
<1>9. ASSUME NEW k \in 0 + 1 .. n, k - 1 \in Q PROVE k \in Q
  <2>1. k \in 1 .. n /\ \A m : m \in 1 .. k <=> m \in 1 .. k - 1 \/ m = k
    BY <1>1
  <2>4. /\ after[k] = WithEdge(after[k-1], list[k][1], list[k][2])
        /\ Good(after[k-1]) /\ after[k-1].vertices = h.vertices
    BY <1>7, <1>9, <2>1
  <2>2. /\ Good(after[k]) /\ after[k].vertices = h.vertices
        /\ Listed(after[k].edges) = Listed(after[k-1].edges) \cup {list[k]}
    <3> DEFINE u == list[k][1]
               w == list[k][2]
               x == after[k-1]
               y == after[k]
    <3>1. /\ u \in Listed(x.vertices) /\ w \in Listed(x.vertices) /\ Good(x)
          /\ y = WithEdge(x, u, w) /\ list[k] = <<u, w>> /\ x.vertices = h.vertices
      BY <1>11, <2>1, <2>4
    <3> HIDE DEF u, w, x, y
    <3>2. Good(y) /\ y.vertices = x.vertices /\ Listed(y.edges) = Listed(x.edges) \cup {<<u, w>>}
      BY <3>1, EdgeAdds
    <3>3. Good(y) /\ y.vertices = h.vertices /\ Listed(y.edges) = Listed(x.edges) \cup {list[k]}
      BY <3>1, <3>2
    <3> QED BY <3>3 DEF x, y
  <2>3. Listed(after[k].edges) = Listed(h.edges) \cup {list[m] : m \in 1 .. k}
    BY <1>9, <2>1, <2>2
  <2> QED BY <1>1, <2>1, <2>2, <2>3
<1>10. n \in Q
  <2> HIDE DEF Q
  <2>1. \A k \in 0 .. n : k \in Q
    BY <1>1, <1>8, <1>9, IntervalInduction
  <2> QED BY <1>1, <2>1
<1> QED BY <1>0, <1>1, <1>10 DEF Listed

\* A loop over nothing adds nothing.
LEMMA NoEdgesAdd ==
  ASSUME NEW h
  PROVE  WithEdges(h, <<>>) = h
<1> DEFINE Iter(f) == f = [k \in 0 .. Len(<<>>) |-> IF k = 0 THEN h
                             ELSE WithEdge(f[k-1], <<>>[k][1], <<>>[k][2])]
           after == CHOOSE f : Iter(f)
           base == [k \in 0 .. 0 |-> h]
<1>1. WithEdges(h, <<>>) = after[Len(<<>>)]
  BY DEF WithEdges
<1>2. Len(<<>>) = 0 /\ \A k \in 0 .. 0 : k = 0
  OBVIOUS
<1>3. Iter(base)
  BY <1>2
<1>4. Iter(after)
  <2> HIDE DEF Iter, base
  <2> QED BY <1>3
<1> HIDE DEF after
<1> QED BY <1>1, <1>2, <1>4

-----------------------------------------------------------------------------
(***************************************************************************)
(* The walk over the parents of a vertex ends after the last, as there are *)
(* no more parents than labels, and lists each once.                       *)
(***************************************************************************)
LEMMA InEdges ==
  ASSUME NEW h, Good(h), NEW v \in Name
  PROVE  LET s == h.in[v]
         IN  /\ s \in Seq(Arc) /\ NoRepeat(s) /\ DOMAIN s = 1 .. Len(s) /\ Len(s) \in 0 .. N
             /\ \A k \in DOMAIN s : /\ s[k] \in Listed(h.edges) /\ s[k][1] \in Name
                                    /\ s[k] = <<s[k][1], v>>
             /\ \A a, b \in DOMAIN s : s[a][1] = s[b][1] => a = b
<1> DEFINE s == h.in[v]
<1>1. /\ s \in Seq(Arc) /\ NoRepeat(s)
      /\ Listed(s) = {e \in Listed(h.edges) : e[2] = v} /\ Listed(h.edges) \subseteq Arc
  BY GraphIs
<1>2. DOMAIN s = 1 .. Len(s) /\ Len(s) \in Nat
  BY <1>1
<1> HIDE DEF s
<1>3. \A k \in DOMAIN s : s[k] \in Listed(h.edges) /\ s[k] \in Arc /\ s[k][2] = v
  BY <1>1 DEF Listed
<1>4. \A k \in DOMAIN s : s[k][1] \in Name /\ s[k] = <<s[k][1], v>>
  BY <1>3 DEF Arc
<1>5. \A a, b \in DOMAIN s : s[a][1] = s[b][1] => a = b
  <2> TAKE a, b \in DOMAIN s
  <2> HAVE s[a][1] = s[b][1]
  <2>1. s[a] = s[b]
    BY <1>4
  <2> QED BY <1>1, <2>1 DEF NoRepeat, GP!NoRepeat
<1>6. Len(s) <= N
  <2> DEFINE f == [k \in 1 .. Len(s) |-> s[k][1]]
  <2>1. f \in [1 .. Len(s) -> Name]
    BY <1>2, <1>4
  <2>2. \A a, b \in 1 .. Len(s) : f[a] = f[b] => a = b
    BY <1>2, <1>5
  <2>3. f \in Injection(1 .. Len(s), Name)
    BY <2>1, <2>2 DEF Injection, IsInjective
  <2> HIDE DEF f
  <2>4. Cardinality(1 .. Len(s)) <= Cardinality(Name)
    BY <2>3, Counted, FS_Injection
  <2>5. Cardinality(1 .. Len(s)) = Len(s)
    <3> DEFINE L == Len(s)
    <3>1. L \in Nat /\ 1 \in Int
      BY <1>2
    <3> HIDE DEF L
    <3>2. Cardinality(1 .. L) = IF 1 > L THEN 0 ELSE L - 1 + 1
      BY <3>1, FS_Interval
    <3>3. Cardinality(1 .. L) = L
      BY <3>1, <3>2
    <3> QED BY <3>3 DEF L
  <2> QED BY <2>4, <2>5, Counted
<1>7. Len(s) \in 0 .. N
  BY <1>2, <1>6, Counted
<1> QED BY <1>1, <1>2, <1>3, <1>4, <1>5, <1>7 DEF s

LEMMA ParentListIs ==
  ASSUME NEW h, Good(h), NEW v \in Name
  PROVE  ParentList(h, v) = [n \in 1 .. Len(h.in[v]) |-> h.in[v][n][1]]
<1> DEFINE s == h.in[v]
           L == Len(s)
           Iter(f) == f = [n \in 1 .. N+1 |->
                             IF n = 1 THEN FirstParent(h, v)
                             ELSE IF f[n-1] = NULL THEN NULL ELSE NextParent(h, v, f[n-1])]
           walk == CHOOSE f : Iter(f)
           w == [n \in 1 .. N+1 |-> IF n <= L THEN s[n][1] ELSE NULL]
           Ends(n) == walk[n] = NULL /\ \A m \in 1 .. n-1 : walk[m] # NULL
           end == CHOOSE n \in 1 .. N+1 : Ends(n)
<1>0. ParentList(h, v) = [n \in 1 .. end-1 |-> walk[n]]
  BY DEF ParentList
<1>1. /\ s \in Seq(Arc) /\ NoRepeat(s) /\ DOMAIN s = 1 .. L /\ L \in 0 .. N
      /\ \A k \in 1 .. L : s[k] \in Listed(h.edges) /\ s[k][1] \in Name /\ s[k] = <<s[k][1], v>>
  BY InEdges
<1>2. N \in Nat /\ L \in Nat /\ L <= N
  BY <1>1, Counted
<1>3. FirstParent(h, v) = IF L = 0 THEN NULL ELSE s[1][1]
  <2>1. s = <<>> <=> L = 0
    BY <1>1
  <2>2. L # 0 => s[1] # NULL
    <3>1. L # 0 => s[1] = <<s[1][1], v>>
      BY <1>1, <1>2
    <3> QED BY <3>1 DEF NULL
  <2> QED BY <2>1, <2>2 DEF FirstParent, FirstOf, End
<1>4. ASSUME NEW n \in 1 .. L
      PROVE  NextParent(h, v, s[n][1]) = IF n = L THEN NULL ELSE s[n + 1][1]
  <2>1. GetEdge(h, s[n][1], v) = s[n]
    <3>1. s[n][1] \in Name /\ <<s[n][1], v>> \in Listed(h.edges) /\ s[n] = <<s[n][1], v>>
      BY <1>1
    <3>2. GetEdge(h, s[n][1], v) = <<s[n][1], v>>
      BY <3>1, GetEdgeFinds
    <3> QED BY <3>1, <3>2
  <2>2. NextOf(s, s[n]) = IF n = L THEN NULL ELSE s[n + 1]
    BY <1>1, NextOfAt
  <2>3. n # L => s[n + 1] # NULL
    <3>1. n # L => s[n + 1] = <<s[n + 1][1], v>>
      BY <1>1, <1>2
    <3> QED BY <3>1 DEF NULL
  <2>4. NextParent(h, v, s[n][1]) = End(NextOf(s, s[n]), 1)
    BY <2>1 DEF NextParent
  <2> QED BY <2>2, <2>3, <2>4 DEF End
<1>5. \A n \in 1 .. N+1 : w[n] = NULL <=> n > L
  BY <1>1, <1>2, LabelsAreNotNull
<1> HIDE DEF s, L
<1>6. ASSUME NEW n \in 1 .. N+1
      PROVE  w[n] = IF n = 1 THEN FirstParent(h, v)
                    ELSE IF w[n-1] = NULL THEN NULL ELSE NextParent(h, v, w[n-1])
  <2>1. CASE n = 1
    BY <1>2, <1>3, <2>1
  <2>2. CASE n # 1
    <3>1. n - 1 \in 1 .. N+1 /\ (n - 1) + 1 = n
      BY <1>2, <2>2
    <3>2. CASE n - 1 > L
      BY <1>2, <1>5, <2>2, <3>1, <3>2
    <3>3. CASE n - 1 <= L
      <4>1. n - 1 \in 1 .. L /\ w[n-1] = s[n-1][1] /\ w[n-1] # NULL
        BY <1>2, <1>5, <3>1, <3>3
      <4>2. NextParent(h, v, w[n-1]) = IF n - 1 = L THEN NULL ELSE s[n][1]
        BY <1>4, <3>1, <4>1
      <4> QED BY <1>2, <2>2, <3>1, <4>1, <4>2
    <3> QED BY <1>2, <3>1, <3>2, <3>3
  <2> QED BY <2>1, <2>2
<1>7. Iter(w)
  <2>1. w = [n \in 1 .. N+1 |-> w[n]]
    OBVIOUS
  <2> HIDE DEF w
  <2> QED BY <1>6, <2>1
<1>8. Iter(walk)
  <2> HIDE DEF Iter, w
  <2> QED BY <1>7
<1>9. \A n \in 1 .. N+1 : walk[n] = w[n]
  <2> HIDE DEF w, walk
  <2> DEFINE Q == {n \in 1 .. N+1 : walk[n] = w[n]}
  <2>1. 1 \in Q
    BY <1>2, <1>6, <1>8
  <2>2. ASSUME NEW n \in 1 + 1 .. N+1, n - 1 \in Q PROVE n \in Q
    <3>1. n \in 1 .. N+1 /\ n # 1 /\ walk[n-1] = w[n-1]
      BY <2>2
    <3> QED BY <1>6, <1>8, <3>1
  <2>3. N + 1 \in Nat /\ 1 \in 0 .. N+1
    BY <1>2
  <2> HIDE DEF Q
  <2>4. \A n \in 1 .. N+1 : n \in Q
    BY <2>1, <2>2, <2>3, IntervalInduction
  <2> QED BY <2>4 DEF Q
<1> HIDE DEF walk
<1>10. end = L + 1
  <2>1. L + 1 \in 1 .. N+1 /\ Ends(L + 1)
    BY <1>2, <1>5, <1>9
  <2>2. ASSUME NEW n \in 1 .. N+1, Ends(n) PROVE n = L + 1
    <3>1. walk[n] = NULL /\ n > L
      BY <1>5, <1>9, <2>2
    <3>2. ~ (n > L + 1)
      <4>1. ASSUME n > L + 1 PROVE FALSE
        <5>1. L + 1 \in 1 .. n - 1
          BY <1>2, <4>1
        <5> QED BY <2>1, <2>2, <5>1
      <4> QED BY <4>1
    <3> QED BY <1>2, <3>1, <3>2
  <2> HIDE DEF Ends
  <2> QED BY <2>1, <2>2
<1> HIDE DEF end
<1>11. \A n \in 1 .. L : walk[n] = s[n][1]
  BY <1>2, <1>9
<1> QED BY <1>0, <1>2, <1>10, <1>11 DEF L, s

LEMMA ParentsListed ==
  ASSUME NEW h, Good(h), NEW v \in Name
  PROVE  /\ ParentList(h, v) \in Seq(Name)
         /\ ParentList(h, v) \in Seq(Listed(h.vertices))
         /\ NoRepeat(ParentList(h, v))
         /\ Listed(ParentList(h, v)) = {u \in Name : <<u, v>> \in Listed(h.edges)}
<1> DEFINE s == h.in[v]
           list == [n \in 1 .. Len(s) |-> s[n][1]]
<1>1. ParentList(h, v) = list
  BY ParentListIs
<1>2. /\ s \in Seq(Arc) /\ DOMAIN s = 1 .. Len(s) /\ Len(s) \in 0 .. N
      /\ \A k \in DOMAIN s : /\ s[k] \in Listed(h.edges) /\ s[k][1] \in Name
                             /\ s[k] = <<s[k][1], v>>
      /\ \A a, b \in DOMAIN s : s[a][1] = s[b][1] => a = b
  BY InEdges
<1>3. /\ Listed(s) = {e \in Listed(h.edges) : e[2] = v}
      /\ \A e \in Listed(h.edges) : e[1] \in Listed(h.vertices)
  BY GraphIs
<1> HIDE DEF s
<1>4. DOMAIN list = 1 .. Len(s) /\ Len(s) \in Nat
  BY <1>2, Counted
<1>5. list \in Seq(Name) /\ list \in Seq(Listed(h.vertices))
  BY <1>2, <1>3, <1>4
<1>6. NoRepeat(list)
  BY <1>2 DEF NoRepeat, GP!NoRepeat
<1>7. ASSUME NEW n \in 1 .. Len(s) PROVE <<list[n], v>> \in Listed(h.edges) /\ list[n] \in Name
  <2>1. n \in DOMAIN s /\ list[n] = s[n][1]
    BY <1>2
  <2>2. s[n] \in Listed(h.edges) /\ s[n][1] \in Name /\ s[n] = <<s[n][1], v>>
    BY <1>2, <2>1
  <2> QED BY <2>1, <2>2
<1>8. ASSUME NEW u \in Name, <<u, v>> \in Listed(h.edges) PROVE \E n \in 1 .. Len(s) : list[n] = u
  <2>1. <<u, v>> \in Listed(s)
    BY <1>3, <1>8
  <2>2. PICK n \in 1 .. Len(s) : s[n] = <<u, v>>
    BY <1>2, <2>1 DEF Listed
  <2> QED BY <2>2
<1>9. Listed(list) = {u \in Name : <<u, v>> \in Listed(h.edges)}
  BY <1>4, <1>7, <1>8 DEF Listed
<1> QED BY <1>1, <1>5, <1>6, <1>9

-----------------------------------------------------------------------------
(***************************************************************************)
(* The pairs of parents that are married.                                  *)
(***************************************************************************)
LEMMA ListedBoth ==
  ASSUME NEW S, NEW s \in Seq(S), NEW t \in Seq(S)
  PROVE  s \o t \in Seq(S) /\ Listed(s \o t) = Listed(s) \cup Listed(t)
<1>1. /\ s \o t \in Seq(S) /\ Len(s \o t) = Len(s) + Len(t)
      /\ Len(s) \in Nat /\ Len(t) \in Nat
      /\ DOMAIN (s \o t) = 1 .. Len(s) + Len(t) /\ DOMAIN s = 1 .. Len(s) /\ DOMAIN t = 1 .. Len(t)
  OBVIOUS
<1>2. \A k \in 1 .. Len(s) : (s \o t)[k] = s[k]
  OBVIOUS
<1>3. \A k \in 1 .. Len(t) : (s \o t)[Len(s) + k] = t[k]
  OBVIOUS
<1>4. ASSUME NEW k \in DOMAIN (s \o t) PROVE (s \o t)[k] \in Listed(s) \cup Listed(t)
  <2>1. CASE k \in 1 .. Len(s)
    BY <1>1, <1>2, <2>1 DEF Listed
  <2>2. CASE k \notin 1 .. Len(s)
    <3>1. k - Len(s) \in 1 .. Len(t) /\ Len(s) + (k - Len(s)) = k
      BY <1>1, <2>2
    <3>2. (s \o t)[k] = t[k - Len(s)]
      BY <1>3, <3>1
    <3> QED BY <1>1, <3>1, <3>2 DEF Listed
  <2> QED BY <2>1, <2>2
<1>5. ASSUME NEW k \in DOMAIN s PROVE s[k] \in Listed(s \o t)
  BY <1>1, <1>2 DEF Listed
<1>6. ASSUME NEW k \in DOMAIN t PROVE t[k] \in Listed(s \o t)
  <2>1. Len(s) + k \in DOMAIN (s \o t)
    BY <1>1
  <2> QED BY <1>1, <1>3, <2>1 DEF Listed
<1>7. Listed(s \o t) = Listed(s) \cup Listed(t)
  BY <1>4, <1>5, <1>6 DEF Listed
<1> QED BY <1>1, <1>7

LEMMA Flattened ==
  ASSUME NEW S, NEW ss \in Seq(Seq(S))
  PROVE  /\ FlattenSeq(ss) \in Seq(S)
         /\ Listed(FlattenSeq(ss)) = UNION {Listed(ss[k]) : k \in DOMAIN ss}
<1> DEFINE n == Len(ss)
           Iter(f) == f = [k \in 1 .. n |-> IF k = 1 THEN ss[k] ELSE f[k-1] \o ss[k]]
           flat == CHOOSE f : Iter(f)
           st == [k \in 1 .. n |-> [x \in Seq(S) |-> x \o ss[k]]]
           Q == {k \in 1 .. n : /\ flat[k] \in Seq(S)
                                /\ Listed(flat[k]) = UNION {Listed(ss[m]) : m \in 1 .. k}}
<1>1. n \in Nat /\ DOMAIN ss = 1 .. n /\ \A k \in 1 .. n : ss[k] \in Seq(S)
  OBVIOUS
<1>2. CASE n = 0
  <2>1. FlattenSeq(ss) = ss /\ ss = <<>>
    BY <1>2 DEF FlattenSeq
  <2> QED BY <1>1, <1>2, <2>1 DEF Listed
<1>3. CASE n # 0
  <2>0. FlattenSeq(ss) = flat[n]
    BY <1>3 DEF FlattenSeq
  <2> HIDE DEF n
  <2>1. /\ 1 \in 1 .. n /\ 1 \in 0 .. n /\ n \in 1 .. n
        /\ \A k \in 1 + 1 .. n : k \in 1 .. n /\ k # 1 /\ k - 1 \in 1 .. n
        /\ \A k \in 1 .. n : k # 1 => k \in 1 + 1 .. n
    BY <1>1, <1>3
  <2>2. \A k \in 1 + 1 .. n : \A x \in Seq(S) : st[k][x] = x \o ss[k] /\ st[k][x] \in Seq(S)
    <3> TAKE k \in 1 + 1 .. n
    <3> TAKE x \in Seq(S)
    <3>1. k \in 1 .. n /\ ss[k] \in Seq(S)
      BY <1>1, <2>1
    <3>2. st[k][x] = x \o ss[k]
      BY <3>1
    <3>3. x \o ss[k] \in Seq(S)
      BY <3>1, ListedBoth
    <3> QED BY <3>2, <3>3
  <2>3. PICK f : LoopOf(f, 1, n, Seq(S), ss[1], st)
    <3>1. ss[1] \in Seq(S)
      BY <1>1, <2>1
    <3>2. \A k \in 1 + 1 .. n : \A x \in Seq(S) : st[k][x] \in Seq(S)
      BY <2>2
    <3> HIDE DEF st
    <3> QED BY <1>1, <2>1, <3>1, <3>2, LoopExists
  <2>4. /\ f \in [1 .. n -> Seq(S)] /\ f[1] = ss[1]
        /\ \A k \in 1 + 1 .. n : f[k] = st[k][f[k - 1]]
    BY <2>3 DEF LoopOf
  <2>5. \A k \in 1 + 1 .. n : f[k] = f[k - 1] \o ss[k]
    <3> TAKE k \in 1 + 1 .. n
    <3>1. f[k - 1] \in Seq(S)
      BY <2>1, <2>4
    <3> HIDE DEF st
    <3> QED BY <2>2, <2>4, <3>1
  <2>6. Iter(f)
    <3>1. \A k \in 1 .. n : f[k] = IF k = 1 THEN ss[k] ELSE f[k-1] \o ss[k]
      BY <2>1, <2>4, <2>5
    <3>2. f = [k \in 1 .. n |-> f[k]]
      BY <2>4
    <3> QED BY <3>1, <3>2
  <2>7. Iter(flat)
    <3> HIDE DEF Iter
    <3> QED BY <2>6
  <2> HIDE DEF flat
  <2>8. flat[1] = ss[1] /\ \A k \in 1 + 1 .. n : flat[k] = flat[k-1] \o ss[k]
    BY <2>1, <2>7
  <2>9. 1 \in Q
    <3>1. \A m : m \in 1 .. 1 <=> m = 1
      OBVIOUS
    <3>2. UNION {Listed(ss[m]) : m \in 1 .. 1} = Listed(ss[1])
      BY <3>1
    <3> QED BY <1>1, <2>1, <2>8, <3>2
  <2>10. ASSUME NEW k \in 1 + 1 .. n, k - 1 \in Q PROVE k \in Q
    <3>1. k \in 1 .. n /\ \A m : m \in 1 .. k <=> m \in 1 .. k - 1 \/ m = k
      BY <2>1
    <3>2. /\ flat[k-1] \in Seq(S) /\ ss[k] \in Seq(S) /\ flat[k] = flat[k-1] \o ss[k]
          /\ Listed(flat[k-1]) = UNION {Listed(ss[m]) : m \in 1 .. k - 1}
      BY <1>1, <2>8, <2>10, <3>1
    <3>3. flat[k] \in Seq(S) /\ Listed(flat[k]) = Listed(flat[k-1]) \cup Listed(ss[k])
      BY <3>2, ListedBoth
    <3>4. UNION {Listed(ss[m]) : m \in 1 .. k}
            = (UNION {Listed(ss[m]) : m \in 1 .. k - 1}) \cup Listed(ss[k])
      BY <3>1
    <3> QED BY <3>1, <3>2, <3>3, <3>4
  <2>11. n \in Q
    <3> HIDE DEF Q
    <3>1. \A k \in 1 .. n : k \in Q
      BY <1>1, <2>1, <2>9, <2>10, IntervalInduction
    <3> QED BY <2>1, <3>1
  <2> QED BY <1>1, <2>0, <2>11
<1> QED BY <1>2, <1>3

LEMMA PairsAre ==
  ASSUME NEW S, NEW list \in Seq(S)
  PROVE  /\ Pairs(list) \in Seq(S \X S)
         /\ Listed(Pairs(list))
              = {x \in S \X S : \E a, b \in DOMAIN list : a < b /\ x = <<list[a], list[b]>>}
<1> DEFINE L == Len(list)
           of(n) == [m \in 1 .. L - n |-> <<list[n], list[n + m]>>]
           ss == [n \in DOMAIN list |-> of(n)]
<1>0. Pairs(list) = FlattenSeq(ss)
  BY DEF Pairs
<1>1. L \in Nat /\ DOMAIN list = 1 .. L /\ \A n \in 1 .. L : list[n] \in S
  OBVIOUS
<1> HIDE DEF L
<1>2. ASSUME NEW n \in 1 .. L
      PROVE  /\ of(n) \in Seq(S \X S)
             /\ \A x : x \in Listed(of(n)) <=> \E b \in DOMAIN list : n < b /\ x = <<list[n], list[b]>>
  <2>1. L - n \in Nat /\ \A m \in 1 .. L - n : n + m \in 1 .. L /\ n < n + m
    BY <1>1
  <2>2. \A m \in 1 .. L - n : <<list[n], list[n + m]>> \in S \X S
    BY <1>1, <2>1
  <2>3. of(n) \in Seq(S \X S) /\ DOMAIN of(n) = 1 .. L - n
    BY <2>1, <2>2
  <2>4. \A b \in 1 .. L : n < b => b - n \in 1 .. L - n /\ n + (b - n) = b
    BY <1>1
  <2>5. ASSUME NEW x, x \in Listed(of(n)) PROVE \E b \in DOMAIN list : n < b /\ x = <<list[n], list[b]>>
    <3>1. PICK m \in 1 .. L - n : x = of(n)[m]
      BY <2>3, <2>5 DEF Listed
    <3> QED BY <1>1, <2>1, <3>1
  <2>6. ASSUME NEW b \in DOMAIN list, n < b PROVE <<list[n], list[b]>> \in Listed(of(n))
    <3>1. b - n \in 1 .. L - n /\ n + (b - n) = b
      BY <1>1, <2>4, <2>6
    <3>2. of(n)[b - n] = <<list[n], list[b]>>
      BY <3>1
    <3> QED BY <2>3, <3>1, <3>2 DEF Listed
  <2> QED BY <2>3, <2>5, <2>6
<1> HIDE DEF of
<1>3. ss \in Seq(Seq(S \X S)) /\ DOMAIN ss = 1 .. L /\ \A n \in 1 .. L : ss[n] = of(n)
  BY <1>1, <1>2
<1> HIDE DEF ss
<1>4. /\ FlattenSeq(ss) \in Seq(S \X S)
      /\ Listed(FlattenSeq(ss)) = UNION {Listed(ss[k]) : k \in DOMAIN ss}
  BY <1>3, Flattened
<1>5. \A x : x \in Listed(FlattenSeq(ss)) <=> \E n \in 1 .. L : x \in Listed(of(n))
  BY <1>3, <1>4
<1>6. \A x : x \in Listed(FlattenSeq(ss)) <=>
               \E a, b \in DOMAIN list : a < b /\ x = <<list[a], list[b]>>
  BY <1>1, <1>2, <1>5
<1>7. \A a, b \in DOMAIN list : <<list[a], list[b]>> \in S \X S
  BY <1>1
<1> QED BY <1>0, <1>4, <1>6, <1>7

\* The edges between members of a list that lists each once.
LEMMA MarriagesAre ==
  ASSUME NEW S, NEW list \in Seq(S), NoRepeat(list)
  PROVE  /\ \A x \in Listed(Pairs(list)) :
              x[1] \in Listed(list) /\ x[2] \in Listed(list) /\ x[1] # x[2]
         /\ \A u, v \in Listed(list) :
              u # v => <<u, v>> \in Listed(Pairs(list)) \/ <<v, u>> \in Listed(Pairs(list))
<1>0. Listed(Pairs(list))
        = {x \in S \X S : \E a, b \in DOMAIN list : a < b /\ x = <<list[a], list[b]>>}
  BY PairsAre
<1>1. /\ \A x : x \in Listed(Pairs(list)) <=>
            x \in S \X S /\ \E a, b \in DOMAIN list : a < b /\ x = <<list[a], list[b]>>
      /\ \A a \in DOMAIN list : list[a] \in S /\ a \in Int
  BY <1>0
<1>2. ASSUME NEW x \in Listed(Pairs(list))
      PROVE  x[1] \in Listed(list) /\ x[2] \in Listed(list) /\ x[1] # x[2]
  <2>1. PICK a \in DOMAIN list, b \in DOMAIN list : a < b /\ x = <<list[a], list[b]>>
    BY <1>1
  <2>2. a # b
    BY <1>1, <2>1
  <2> QED BY <2>1, <2>2 DEF NoRepeat, GP!NoRepeat, Listed
<1>3. ASSUME NEW u \in Listed(list), NEW v \in Listed(list), u # v
      PROVE  <<u, v>> \in Listed(Pairs(list)) \/ <<v, u>> \in Listed(Pairs(list))
  <2>1. PICK a \in DOMAIN list, b \in DOMAIN list : u = list[a] /\ v = list[b]
    BY DEF Listed
  <2>2. a < b \/ b < a
    BY <1>1, <1>3, <2>1
  <2>3. <<u, v>> \in S \X S /\ <<v, u>> \in S \X S
    BY <1>1, <2>1
  <2> QED BY <1>1, <2>1, <2>2, <2>3
<1> QED BY <1>2, <1>3

\* What GatherElimSets connects is nothing.
LEMMA NothingConnected ==
  ASSUME NEW h, NEW bv, bv.size \in Nat
  PROVE  ConnectAll(h, VertexList(bv)) = h
<1>1. VertexList(bv) = <<>>
  <2>1. ~ (0 > bv.size)
    OBVIOUS
  <2> QED BY <2>1 DEF VertexList
<1>2. Pairs(<<>>) = <<>>
  BY DEF Pairs, FlattenSeq
<1>3. ConnectAll(h, <<>>) = WithEdges(h, <<>>)
  BY <1>2 DEF ConnectAll, FlattenSeq
<1> QED BY <1>1, <1>3, NoEdgesAdd

-----------------------------------------------------------------------------
(***************************************************************************)
(* Bit vectors with a bit for every variable.  The bits that pad the last  *)
(* byte belong to none.                                                    *)
(***************************************************************************)
Full == [bits : [0 .. NumBytes(N) - 1 -> SUBSET (0 .. CHAR_BIT - 1)], size : {N}]

On(bv) == {k \in Rank : GetBit(bv, k)}

LEMMA BitPlaces ==
  /\ CHAR_BIT \in Nat \ {0} /\ NumBytes(N) \in Nat
  /\ \A k \in Rank : /\ k \div CHAR_BIT \in 0 .. NumBytes(N) - 1
                     /\ k % CHAR_BIT \in 0 .. CHAR_BIT - 1
                     /\ k = (k \div CHAR_BIT) * CHAR_BIT + (k % CHAR_BIT)
                     /\ (k \div CHAR_BIT) * CHAR_BIT < N
  /\ \A m \in 0 .. NumBytes(N) - 1, n \in 0 .. CHAR_BIT - 1 :
       m * CHAR_BIT + n < N =>
         /\ m * CHAR_BIT + n \in Rank
         /\ (m * CHAR_BIT + n) \div CHAR_BIT = m /\ (m * CHAR_BIT + n) % CHAR_BIT = n
<1> DEFINE c == CHAR_BIT
           q == NumBytes(N)
           r == (N + c - 1) % c
<1>1. N \in Nat /\ c \in Nat \ {0} /\ N + c - 1 \in Nat
  BY Counted, CharBitAssumption
<1> HIDE DEF c
<1>2. q \in Nat /\ r \in Nat /\ r < c /\ N + c - 1 = q * c + r
  <2>1. q = (N + c - 1) \div c
    BY DEF NumBytes, c
  <2> QED BY <1>1, <2>1, DivMod
<1> HIDE DEF q, r
<1>3. q * c \in Nat /\ N <= q * c
  <2> DEFINE p == q * c
  <2>1. p \in Nat
    BY <1>1, <1>2
  <2> HIDE DEF p
  <2> QED BY <1>1, <1>2, <2>1 DEF p
<1>4. ASSUME NEW k \in Rank
      PROVE  /\ k \div c \in 0 .. q - 1 /\ k % c \in 0 .. c - 1
             /\ k = (k \div c) * c + (k % c) /\ (k \div c) * c < N
  <2>1. k \in Nat /\ k < N /\ k < q * c
    BY <1>1, <1>3 DEF Rank
  <2>2. k \div c \in Nat /\ k % c \in Nat /\ k % c < c /\ k = ((k \div c) * c) + (k % c)
    BY <1>1, <2>1, DivMod
  <2>3. k \div c < q
    BY <1>1, <1>2, <2>1, DivBound
  <2> DEFINE d == k \div c
             e == k % c
             p == d * c
  <2>4. p \in Nat /\ p <= k
    <3> HIDE DEF d, e
    <3>1. p \in Nat
      BY <1>1, <2>2 DEF d
    <3> HIDE DEF p
    <3> QED BY <2>1, <2>2, <3>1 DEF p, d, e
  <2> HIDE DEF d, e, p
  <2>5. p < N
    BY <1>1, <2>1, <2>4
  <2>6. d \in 0 .. q - 1 /\ e \in 0 .. c - 1
    BY <1>1, <1>2, <2>2, <2>3 DEF d, e
  <2> QED BY <2>2, <2>5, <2>6 DEF d, e, p
<1>5. ASSUME NEW m \in 0 .. q - 1, NEW n \in 0 .. c - 1, m * c + n < N
      PROVE  m * c + n \in Rank /\ (m * c + n) \div c = m /\ (m * c + n) % c = n
  <2>1. m \in Nat /\ n \in Nat /\ n < c
    BY <1>1, <1>2
  <2>2. m * c + n \in Nat
    BY <1>1, <2>1
  <2>3. m * c + n \in Rank
    BY <1>1, <1>5, <2>2 DEF Rank
  <2>4. (m * c + n) \div c = m /\ (m * c + n) % c = n
    BY <1>1, <2>1, <2>2, DivUnique
  <2> QED BY <2>3, <2>4
<1> QED BY <1>1, <1>2, <1>4, <1>5 DEF c, q

LEMMA NoBits == BVCreate(N) \in Full /\ On(BVCreate(N)) = {}
<1>1. \A k \in Rank : k \div CHAR_BIT \in 0 .. NumBytes(N) - 1
  BY BitPlaces
<1> QED BY <1>1 DEF BVCreate, Full, On, GetBit

LEMMA BitSet ==
  ASSUME NEW bv \in Full, NEW k \in Rank
  PROVE  SetBitOn(bv, k) \in Full /\ On(SetBitOn(bv, k)) = On(bv) \cup {k}
<1> DEFINE m == k \div CHAR_BIT
           n == k % CHAR_BIT
           new == SetBitOn(bv, k)
<1>1. /\ bv.bits \in [0 .. NumBytes(N) - 1 -> SUBSET (0 .. CHAR_BIT - 1)] /\ bv.size = N
      /\ bv = [bits |-> bv.bits, size |-> N]
  BY DEF Full
<1>2. m \in 0 .. NumBytes(N) - 1 /\ n \in 0 .. CHAR_BIT - 1 /\ k = m * CHAR_BIT + n
  BY BitPlaces
<1>3. new = [bits |-> [bv.bits EXCEPT ![m] = @ \cup {n}], size |-> N]
  <2> HIDE DEF m, n
  <2>1. new = [bv EXCEPT !.bits[m] = @ \cup {n}]
    BY DEF SetBitOn, m, n
  <2> HIDE DEF new
  <2> QED BY <1>1, <2>1 DEF Full
<1> HIDE DEF m, n, new
<1>4. new \in Full /\ new.bits = [bv.bits EXCEPT ![m] = @ \cup {n}]
  BY <1>1, <1>2, <1>3 DEF Full
<1>5. ASSUME NEW l \in Rank
      PROVE  GetBit(new, l) <=> GetBit(bv, l) \/ l = k
  <2> DEFINE a == l \div CHAR_BIT
             b == l % CHAR_BIT
  <2>1. a \in 0 .. NumBytes(N) - 1 /\ l = a * CHAR_BIT + b
    BY BitPlaces
  <2>2. (GetBit(new, l) <=> b \in new.bits[a]) /\ (GetBit(bv, l) <=> b \in bv.bits[a])
    BY DEF GetBit
  <2>3. l = k => a = m /\ b = n
    BY DEF m, n
  <2> HIDE DEF a, b
  <2>4. a = m /\ b = n => l = k
    BY <1>2, <2>1
  <2> QED BY <1>1, <1>2, <1>4, <2>1, <2>2, <2>3, <2>4
<1> QED BY <1>4, <1>5 DEF On, new

LEMMA ContainsIs ==
  ASSUME NEW this \in Full, NEW other \in Full
  PROVE  ElimSetContains(this, other) <=> On(other) \subseteq On(this)
<1> DEFINE x == Xor(other, And(this, other))
<1>1. /\ this.bits \in [0 .. NumBytes(N) - 1 -> SUBSET (0 .. CHAR_BIT - 1)]
      /\ other.bits \in [0 .. NumBytes(N) - 1 -> SUBSET (0 .. CHAR_BIT - 1)]
      /\ other = [bits |-> other.bits, size |-> N] /\ this = [bits |-> this.bits, size |-> N]
  BY DEF Full
<1>2. /\ DOMAIN x.bits = 0 .. NumBytes(N) - 1 /\ x.size = N
      /\ \A m \in 0 .. NumBytes(N) - 1 : x.bits[m] = other.bits[m] \ this.bits[m]
  <2> DEFINE y == And(this, other)
  <2>1. /\ DOMAIN y.bits = 0 .. NumBytes(N) - 1
        /\ \A m \in 0 .. NumBytes(N) - 1 : y.bits[m] = this.bits[m] \cap other.bits[m]
    BY <1>1 DEF And, Full
  <2> HIDE DEF y
  <2>2. x = Xor(other, y)
    BY DEF y
  <2>3. /\ DOMAIN x.bits = 0 .. NumBytes(N) - 1 /\ x.size = N
        /\ \A m \in 0 .. NumBytes(N) - 1 :
             x.bits[m] = (other.bits[m] \ y.bits[m]) \cup (y.bits[m] \ other.bits[m])
    BY <1>1, <2>1, <2>2 DEF Xor, Full
  <2> HIDE DEF x
  <2> QED BY <2>1, <2>3
<1>3. ElimSetContains(this, other) <=> \A mn \in Walked(x) : mn[2] \notin x.bits[mn[1]]
  BY DEF ElimSetContains, Equals, NoBitOn
<1> HIDE DEF x
<1>4. \A k \in Rank : /\ GetBit(other, k) <=> k % CHAR_BIT \in other.bits[k \div CHAR_BIT]
                      /\ GetBit(this, k) <=> k % CHAR_BIT \in this.bits[k \div CHAR_BIT]
  BY DEF GetBit
<1>5. ASSUME \A mn \in Walked(x) : mn[2] \notin x.bits[mn[1]], NEW k \in On(other)
      PROVE  k \in On(this)
  <2> DEFINE m == k \div CHAR_BIT
             n == k % CHAR_BIT
  <2>1. k \in Rank /\ n \in other.bits[m]
    BY <1>4 DEF On
  <2>2. /\ m \in 0 .. NumBytes(N) - 1 /\ n \in 0 .. CHAR_BIT - 1 /\ k = m * CHAR_BIT + n
        /\ m * CHAR_BIT < N
    BY <2>1, BitPlaces
  <2>3. n \in this.bits[m] <=> GetBit(this, k)
    BY <1>4, <2>1
  <2> HIDE DEF m, n
  <2>4. m * CHAR_BIT + n < N
    BY <2>1, <2>2, Counted DEF Rank
  <2>5. <<m, n>> \in Walked(x)
    BY <1>2, <2>2, <2>4 DEF Walked
  <2>6. n \notin x.bits[m]
    BY <1>5, <2>5
  <2>7. n \in this.bits[m]
    BY <1>2, <2>1, <2>2, <2>6
  <2> QED BY <2>1, <2>3, <2>7 DEF On
<1>6. ASSUME On(other) \subseteq On(this), NEW mn \in Walked(x), mn[2] \in x.bits[mn[1]]
      PROVE  FALSE
  <2> DEFINE m == mn[1]
             n == mn[2]
             k == m * CHAR_BIT + n
  <2>1. m \in 0 .. NumBytes(N) - 1 /\ n \in 0 .. CHAR_BIT - 1 /\ k < N
    BY <1>2 DEF Walked
  <2>2. n \in other.bits[m] /\ n \notin this.bits[m]
    BY <1>2, <1>6, <2>1
  <2> HIDE DEF m, n
  <2>3. k \in Rank /\ k \div CHAR_BIT = m /\ k % CHAR_BIT = n
    BY <2>1, BitPlaces
  <2> HIDE DEF k
  <2>4. k \in On(other) /\ k \notin On(this)
    BY <1>4, <2>2, <2>3 DEF On
  <2> QED BY <1>6, <2>4
<1> QED BY <1>3, <1>5, <1>6

-----------------------------------------------------------------------------
(***************************************************************************)
(* Elimination sets: built by one ordering, numbered by the other.         *)
(***************************************************************************)
LEMMA NeighborsListed ==
  ASSUME NEW h, Good(h), NEW v \in Name
  PROVE  /\ NeighborList(h, v) \in Seq(Name)
         /\ Listed(NeighborList(h, v))
              = {u \in Name : <<u, v>> \in Listed(h.edges) \/ <<v, u>> \in Listed(h.edges)}
<1> DEFINE s == h.in[v]
           t == h.out[v]
           a == [k \in DOMAIN s |-> s[k][1]]
           b == [k \in DOMAIN t |-> t[k][2]]
<1>0. NeighborList(h, v) = a \o b
  BY DEF NeighborList
<1>1. /\ s \in Seq(Arc) /\ t \in Seq(Arc)
      /\ Listed(s) = {e \in Listed(h.edges) : e[2] = v}
      /\ Listed(t) = {e \in Listed(h.edges) : e[1] = v}
      /\ Listed(h.edges) \subseteq Arc
  BY GraphIs
<1> HIDE DEF s, t
<1>2. /\ DOMAIN s = 1 .. Len(s) /\ Len(s) \in Nat /\ DOMAIN t = 1 .. Len(t) /\ Len(t) \in Nat
      /\ \A k \in DOMAIN s : s[k] \in Arc /\ s[k] \in Listed(s)
      /\ \A k \in DOMAIN t : t[k] \in Arc /\ t[k] \in Listed(t)
  BY <1>1 DEF Listed
<1>3. /\ \A k \in DOMAIN s : s[k][1] \in Name /\ s[k] = <<s[k][1], v>>
      /\ \A k \in DOMAIN t : t[k][2] \in Name /\ t[k] = <<v, t[k][2]>>
  <2>1. \A k \in DOMAIN s : s[k] \in Arc /\ s[k][2] = v
    BY <1>1, <1>2
  <2>2. \A k \in DOMAIN t : t[k] \in Arc /\ t[k][1] = v
    BY <1>1, <1>2
  <2> QED BY <2>1, <2>2 DEF Arc
<1>4. a \in Seq(Name) /\ b \in Seq(Name) /\ DOMAIN a = DOMAIN s /\ DOMAIN b = DOMAIN t
  BY <1>2, <1>3
<1>5. Listed(a) = {u \in Name : <<u, v>> \in Listed(h.edges)}
  <2>1. ASSUME NEW k \in DOMAIN s PROVE a[k] \in Name /\ <<a[k], v>> \in Listed(h.edges)
    <3>1. a[k] = s[k][1] /\ s[k] \in Listed(h.edges)
      BY <1>1, <1>2
    <3> QED BY <1>3, <3>1
  <2>2. ASSUME NEW u \in Name, <<u, v>> \in Listed(h.edges) PROVE \E k \in DOMAIN s : a[k] = u
    <3>1. <<u, v>> \in Listed(s)
      BY <1>1, <2>2
    <3>2. PICK k \in DOMAIN s : s[k] = <<u, v>>
      BY <3>1 DEF Listed
    <3> QED BY <3>2
  <2> HIDE DEF a
  <2> QED BY <1>4, <2>1, <2>2 DEF Listed
<1>6. Listed(b) = {u \in Name : <<v, u>> \in Listed(h.edges)}
  <2>1. ASSUME NEW k \in DOMAIN t PROVE b[k] \in Name /\ <<v, b[k]>> \in Listed(h.edges)
    <3>1. b[k] = t[k][2] /\ t[k] \in Listed(h.edges)
      BY <1>1, <1>2
    <3> QED BY <1>3, <3>1
  <2>2. ASSUME NEW u \in Name, <<v, u>> \in Listed(h.edges) PROVE \E k \in DOMAIN t : b[k] = u
    <3>1. <<v, u>> \in Listed(t)
      BY <1>1, <2>2
    <3>2. PICK k \in DOMAIN t : t[k] = <<v, u>>
      BY <3>1 DEF Listed
    <3> QED BY <3>2
  <2> HIDE DEF b
  <2> QED BY <1>4, <2>1, <2>2 DEF Listed
<1> HIDE DEF a, b
<1>7. a \o b \in Seq(Name) /\ Listed(a \o b) = Listed(a) \cup Listed(b)
  BY <1>4, ListedBoth
<1> QED BY <1>0, <1>5, <1>6, <1>7

AndLower(ordering, h, v, rank) ==
  {v} \cup {w \in Listed(NeighborList(h, v)) : RankByLabel(ordering, w) < rank}

VariablesOf(labels) == {RankByLabel(vbls, u) : u \in labels}

LEMMA LowerIs ==
  ASSUME NEW ordering, NEW h, Good(h), NEW v \in Name, NEW rank
  PROVE  /\ WithLower(ordering, h, v, rank) \in Full
         /\ On(WithLower(ordering, h, v, rank)) = VariablesOf(AndLower(ordering, h, v, rank))
<1> DEFINE list == NeighborList(h, v)
           n == Len(list)
           Lower(u) == RankByLabel(ordering, u) < rank
           Iter(f) == f = [k \in 0 .. n |->
                             IF k = 0 THEN ElimSetAdd(BVCreate(N), v)
                             ELSE IF Lower(list[k]) THEN ElimSetAdd(f[k-1], list[k]) ELSE f[k-1]]
           after == CHOOSE f : Iter(f)
           st == [k \in 1 .. n |-> [x \in Full |-> IF Lower(list[k]) THEN ElimSetAdd(x, list[k]) ELSE x]]
           In(k) == {RankByLabel(vbls, u) : u \in {v} \cup {w \in {list[m] : m \in 1 .. k} : Lower(w)}}
           Q == {k \in 0 .. n : after[k] \in Full /\ On(after[k]) = In(k)}
<1>0. WithLower(ordering, h, v, rank) = after[n]
  BY DEF WithLower
<1>1. list \in Seq(Name)
  BY NeighborsListed
<1> HIDE DEF list
<1>2. /\ n \in Nat /\ 0 \in 0 .. n /\ n \in 0 .. n /\ DOMAIN list = 1 .. n
      /\ \A k \in 1 .. n : list[k] \in Name
      /\ \A k \in 0 + 1 .. n : k \in 1 .. n /\ k \in 0 .. n /\ k - 1 \in 0 .. n /\ k # 0
      /\ \A k \in 0 .. n : k # 0 => k \in 0 + 1 .. n
  BY <1>1
<1> HIDE DEF n
<1>3. ASSUME NEW x \in Full, NEW u \in Name
      PROVE  ElimSetAdd(x, u) \in Full /\ On(ElimSetAdd(x, u)) = On(x) \cup {RankByLabel(vbls, u)}
  <2>1. RankByLabel(vbls, u) \in Rank
    BY Counted, Ranks
  <2> QED BY <2>1, BitSet DEF ElimSetAdd
<1>4. ElimSetAdd(BVCreate(N), v) \in Full /\ On(ElimSetAdd(BVCreate(N), v)) = {RankByLabel(vbls, v)}
  BY <1>3, NoBits
<1> HIDE DEF Lower
<1>5. \A k \in 0 + 1 .. n : \A x \in Full :
        /\ st[k][x] = IF Lower(list[k]) THEN ElimSetAdd(x, list[k]) ELSE x
        /\ st[k][x] \in Full
  <2> TAKE k \in 0 + 1 .. n
  <2> TAKE x \in Full
  <2>1. k \in 1 .. n /\ list[k] \in Name
    BY <1>2
  <2>2. st[k][x] = IF Lower(list[k]) THEN ElimSetAdd(x, list[k]) ELSE x
    BY <2>1
  <2> HIDE DEF st
  <2> QED BY <1>3, <2>1, <2>2
<1>6. PICK f : LoopOf(f, 0, n, Full, ElimSetAdd(BVCreate(N), v), st)
  <2>1. \A k \in 0 + 1 .. n : \A x \in Full : st[k][x] \in Full
    BY <1>5
  <2> HIDE DEF st
  <2> QED BY <1>2, <1>4, <2>1, LoopExists
<1>7. /\ f \in [0 .. n -> Full] /\ f[0] = ElimSetAdd(BVCreate(N), v)
      /\ \A k \in 0 + 1 .. n : f[k] = IF Lower(list[k]) THEN ElimSetAdd(f[k-1], list[k]) ELSE f[k-1]
  <2> HIDE DEF st
  <2>1. /\ f \in [0 .. n -> Full] /\ f[0] = ElimSetAdd(BVCreate(N), v)
        /\ \A k \in 0 + 1 .. n : f[k] = st[k][f[k - 1]]
    BY <1>6 DEF LoopOf
  <2>2. \A k \in 0 + 1 .. n : f[k - 1] \in Full
    BY <1>2, <2>1
  <2> QED BY <1>5, <2>1, <2>2
<1>8. Iter(f)
  <2>1. \A k \in 0 .. n : f[k] = IF k = 0 THEN ElimSetAdd(BVCreate(N), v)
                                 ELSE IF Lower(list[k]) THEN ElimSetAdd(f[k-1], list[k]) ELSE f[k-1]
    BY <1>2, <1>7
  <2>2. f = [k \in 0 .. n |-> f[k]]
    BY <1>7
  <2> QED BY <2>1, <2>2
<1>9. Iter(after)
  <2> HIDE DEF Iter
  <2> QED BY <1>8
<1> HIDE DEF after
<1>10. /\ after[0] = ElimSetAdd(BVCreate(N), v)
       /\ \A k \in 0 + 1 .. n :
            after[k] = IF Lower(list[k]) THEN ElimSetAdd(after[k-1], list[k]) ELSE after[k-1]
  BY <1>2, <1>9
<1>11. 0 \in Q
  <2>1. In(0) = {RankByLabel(vbls, v)}
    <3>1. \A m : m \notin 1 .. 0
      OBVIOUS
    <3> QED BY <3>1
  <2> QED BY <1>2, <1>4, <1>10, <2>1
<1>12. ASSUME NEW k \in 0 + 1 .. n, k - 1 \in Q PROVE k \in Q
  <2>1. /\ k \in 1 .. n /\ k \in 0 .. n /\ list[k] \in Name
        /\ \A m : m \in 1 .. k <=> m \in 1 .. k - 1 \/ m = k
    BY <1>2
  <2>2. {list[m] : m \in 1 .. k} = {list[m] : m \in 1 .. k - 1} \cup {list[k]}
    BY <2>1
  <2>3. In(k) = In(k - 1) \cup (IF Lower(list[k]) THEN {RankByLabel(vbls, list[k])} ELSE {})
    BY <2>2
  <2>4. after[k-1] \in Full /\ On(after[k-1]) = In(k - 1)
    BY <1>12
  <2> HIDE DEF In
  <2>5. CASE Lower(list[k])
    <3>1. after[k] = ElimSetAdd(after[k-1], list[k])
      BY <1>10, <2>5
    <3>2. after[k] \in Full /\ On(after[k]) = On(after[k-1]) \cup {RankByLabel(vbls, list[k])}
      BY <1>3, <2>1, <2>4, <3>1
    <3> QED BY <2>1, <2>3, <2>4, <2>5, <3>2
  <2>6. CASE ~ Lower(list[k])
    <3>1. after[k] = after[k-1]
      BY <1>10, <2>6
    <3> QED BY <2>1, <2>3, <2>4, <2>6, <3>1
  <2> QED BY <2>5, <2>6
<1>13. n \in Q
  <2> HIDE DEF Q
  <2>1. \A k \in 0 .. n : k \in Q
    BY <1>2, <1>11, <1>12, IntervalInduction
  <2> QED BY <1>2, <2>1
<1>14. {list[m] : m \in 1 .. n} = Listed(list)
  BY <1>2 DEF Listed
<1>15. /\ after[n] \in Full
       /\ On(after[n])
            = {RankByLabel(vbls, u) : u \in {v} \cup {w \in Listed(list) : Lower(w)}}
  BY <1>13, <1>14
<1> QED BY <1>0, <1>15 DEF list, Lower, VariablesOf, AndLower

\* The members of an elimination set as ranks of the elimination ordering.
LEMMA MembersAre ==
  ASSUME Ordering(o), NEW bv \in Full, N # 0
  PROVE  /\ bv # NoSet
         /\ Members(bv) = {RankOf(vbls[k + 1]) : k \in On(bv)}
<1>1. bv # NoSet
  BY DEF Full, NoSet
<1> QED BY <1>1 DEF Members, On

LEMMA MembersCompare ==
  ASSUME Ordering(o), NEW a \in Full, NEW b \in Full, N # 0
  PROVE  Members(a) \subseteq Members(b) <=> On(a) \subseteq On(b)
<1>1. /\ Members(a) = {RankOf(vbls[k + 1]) : k \in On(a)}
      /\ Members(b) = {RankOf(vbls[k + 1]) : k \in On(b)}
      /\ On(a) \subseteq Rank /\ On(b) \subseteq Rank
  BY MembersAre DEF On
<1>2. ASSUME NEW k \in Rank, NEW l \in Rank, RankOf(vbls[k + 1]) = RankOf(vbls[l + 1])
      PROVE  k = l
  <2>1. vbls[k + 1] \in Name /\ vbls[l + 1] \in Name
    BY Counted, Ranks
  <2>2. vbls[k + 1] = vbls[l + 1]
    BY <1>2, <2>1, Ranks DEF RankOf
  <2>3. RankByLabel(vbls, vbls[k + 1]) = k /\ RankByLabel(vbls, vbls[l + 1]) = l
    BY Counted, Ranks
  <2> QED BY <2>2, <2>3
<1> QED BY <1>1, <1>2

LEMMA ElimSetIs ==
  ASSUME Ordering(o), NEW h, Good(h), NEW v \in Name, NEW rank
  PROVE  /\ ElimSetOf(h, v, rank) \in Full
         /\ N # 0
         /\ Members(ElimSetOf(h, v, rank))
              = {RankOf(u) : u \in {v} \cup {w \in Listed(NeighborList(h, v)) : RankOf(w) < rank}}
<1> DEFINE bv == ElimSetOf(h, v, rank)
           U == {v} \cup {w \in Listed(NeighborList(h, v)) : RankOf(w) < rank}
<1>1. bv \in Full /\ On(bv) = {RankByLabel(vbls, u) : u \in U}
  <2>1. bv = WithLower(o, h, v, rank) /\ U = AndLower(o, h, v, rank)
    BY DEF ElimSetOf, RankOf, AndLower
  <2> HIDE DEF bv, U
  <2>2. bv \in Full /\ On(bv) = VariablesOf(U)
    BY <2>1, LowerIs
  <2> QED BY <2>2 DEF VariablesOf
<1>2. N # 0
  <2>1. RankByLabel(vbls, v) \in Rank
    BY Counted, Ranks
  <2> QED BY <2>1, Counted
<1>3. U \subseteq Name
  <2>1. Listed(NeighborList(h, v)) \subseteq Name
    BY NeighborsListed
  <2> QED BY <2>1
<1> HIDE DEF bv, U
<1>4. Members(bv) = {RankOf(vbls[k + 1]) : k \in On(bv)}
  BY <1>1, <1>2, MembersAre
<1>5. \A u \in U : vbls[RankByLabel(vbls, u) + 1] = u
  BY <1>3, Counted, Ranks
<1>6. Members(bv) = {RankOf(u) : u \in U}
  BY <1>1, <1>4, <1>5
<1> QED BY <1>1, <1>2, <1>6 DEF bv, U

-----------------------------------------------------------------------------
(***************************************************************************)
(* The inductive invariant: how far each loop has come.                    *)
(***************************************************************************)
\* The edges the first n tables ask for.
ArcsOf(n) ==
  {e \in Arc : \E x \in 1 .. n : e[2] = tables[x].tableFor /\ e[1] \in ToSet(tables[x].parents)}

Whole == Listed(imm.vertices) = Name /\ Listed(imm.edges) = ArcsOf(Len(tables))

Placed ==
  /\ pc \in {"vertices", "edges", "copy", "moralize", "gather", "reduce", "done"}
  /\ pc = "vertices" => /\ i \in 0 .. N
                        /\ Listed(imm.vertices) = {vbls[k] : k \in 1 .. i}
                        /\ Listed(imm.edges) = {}
  /\ pc = "edges" => /\ i \in 0 .. Len(tables)
                     /\ Listed(imm.vertices) = Name
                     /\ Listed(imm.edges) = ArcsOf(i)
  /\ pc \in {"vertices", "edges"} => moral = Empty(TRUE)
  /\ pc = "copy" => /\ Whole
                    /\ Listed(moral.edges) = {e \in Listed(imm.edges) : e[2] \notin ToVisit}
                    /\ Name \ ToVisit \subseteq Listed(moral.vertices)
  /\ pc = "moralize" => Whole /\ Listed(moral.vertices) = Name
  /\ pc = "gather" => i \in -1 .. N-1
  /\ pc = "reduce" => i \in 0 .. N /\ j \in 1 .. N+1

Slots ==
  /\ DOMAIN esc = Rank
  /\ \A k \in Rank : esc[k] = NoSet \/ (esc[k] \in Full /\ On(esc[k]) # {})

IInv ==
  /\ tables \in Networks /\ Ordering(o)
  /\ Good(imm) /\ Good(moral)
  /\ cur = NULL \/ cur \in Listed(imm.vertices)
  /\ Slots
  /\ Placed

(***************************************************************************)
(* The mapping, part by part, and what a step has to do to each for it to  *)
(* be a step of ElimSets.                                                  *)
(***************************************************************************)
Undirected(h) == {{RankOf(h.edges[k][1]), RankOf(h.edges[k][2])} : k \in DOMAIN h.edges}

AMoral == IF Early THEN {{a[1], a[2]} : a \in Arcs} ELSE Undirected(moral)
AUnwed == IF Early THEN Rank
          ELSE IF pc = "moralize" THEN {RankOf(v) : v \in ToVisit} ELSE {}
ASlots == [k \in Rank |-> Members(esc[k])]
AI     == IF Early \/ pc = "moralize" THEN N - 1 ELSE i
APc    == IF Early THEN "moralize" ELSE pc

LEMMA UndirectedIs ==
  ASSUME NEW h
  PROVE  Undirected(h) = {{RankOf(e[1]), RankOf(e[2])} : e \in Listed(h.edges)}
BY DEF Undirected, Listed

LEMMA VertexIs == Abstract!Vertex = Rank
BY DEF Abstract!Vertex, Rank

LEMMA Stuttering ==
  ASSUME UNCHANGED <<Arcs, AMoral, AUnwed, ASlots, AI, j, APc>>
  PROVE  UNCHANGED Abstract!vars
BY DEF Abstract!vars, AMoral, Undirected, AUnwed, ASlots, AI, APc

LEMMA InitMapped ==
  ASSUME Arcs \subseteq Rank \X Rank, \A a \in Rank : <<a, a>> \notin Arcs,
         AMoral = {{a[1], a[2]} : a \in Arcs}, AUnwed = Rank, ASlots = [k \in Rank |-> {}],
         AI = N - 1, j = 0, APc = "moralize"
  PROVE  Abstract!Init
BY VertexIs DEF Abstract!Init, Abstract!Skeleton, Abstract!NoSet,
                AMoral, Undirected, AUnwed, ASlots, AI, APc

AParents(k) == {p \in Rank : <<p, k>> \in Arcs}
Married(S) == {e \in SUBSET S : \E a, b \in S : a # b /\ e = {a, b}}

LEMMA MarryMapped ==
  ASSUME NEW k \in Rank, APc = "moralize", k \in AUnwed,
         AMoral' = AMoral \cup Married(AParents(k)), AUnwed' = AUnwed \ {k},
         UNCHANGED <<Arcs, ASlots, AI, j, APc>>
  PROVE  Abstract!Next
<1>1. Abstract!Marry(k)
  BY VertexIs DEF Abstract!Marry, Abstract!ConnectAll, Abstract!Parents, Married, AParents,
                  AMoral, Undirected, AUnwed, ASlots, AI, APc
<1> QED BY <1>1, VertexIs DEF Abstract!Next

LEMMA MoralizedMapped ==
  ASSUME APc = "moralize", AUnwed = {}, APc' = "gather",
         UNCHANGED <<Arcs, AMoral, AUnwed, ASlots, AI, j>>
  PROVE  Abstract!Next
<1>1. Abstract!Moralized
  BY DEF Abstract!Moralized, AMoral, Undirected, AUnwed, ASlots, AI, APc
<1> QED BY <1>1 DEF Abstract!Next

ALower(m, k) == {k} \cup {u \in {w \in Rank : w # k /\ {w, k} \in m} : u < k}

LEMMA GatherMapped ==
  ASSUME N \in Nat, APc = "gather", AI > -1,
         ASlots' = [ASlots EXCEPT ![AI] = ALower(AMoral, AI)],
         AMoral' = AMoral, AI' = AI - 1,
         UNCHANGED <<Arcs, AUnwed, j, APc>>
  PROVE  Abstract!Next
<1>1. \A S : Abstract!VertexList(S) = {}
  BY DEF Abstract!VertexList
<1>2. Abstract!ConnectAll({}) = {}
  BY DEF Abstract!ConnectAll
<1>3. Abstract!ElimSetOf(AMoral, AI) = ALower(AMoral, AI)
  BY VertexIs DEF Abstract!ElimSetOf, Abstract!Neighbors, ALower
<1>4. AMoral' = AMoral \cup Abstract!ConnectAll(Abstract!VertexList(ASlots'[AI]))
  BY <1>1, <1>2
<1>5. ASlots' = [ASlots EXCEPT ![AI] = Abstract!ElimSetOf(AMoral, AI)]
  BY <1>3
<1>6. Abstract!Gather
  BY <1>4, <1>5 DEF Abstract!Gather, AMoral, Undirected, AUnwed, ASlots, AI, APc
<1> QED BY <1>6 DEF Abstract!Next

LEMMA GatheredMapped ==
  ASSUME APc = "gather", AI = -1, APc' = "reduce", AI' = 0, j' = 1,
         UNCHANGED <<Arcs, AMoral, AUnwed, ASlots>>
  PROVE  Abstract!Next
<1>1. Abstract!Gathered
  BY DEF Abstract!Gathered, AMoral, Undirected, AUnwed, ASlots, AI, APc
<1> QED BY <1>1 DEF Abstract!Next

LEMMA NextSlotMapped ==
  ASSUME APc = "reduce", AI < N, ASlots[AI] = {} \/ j >= N, AI' = AI + 1, j' = AI + 2,
         UNCHANGED <<Arcs, AMoral, AUnwed, ASlots, APc>>
  PROVE  Abstract!Next
<1>1. Abstract!NextSlot
  BY DEF Abstract!NextSlot, Abstract!NoSet, AMoral, Undirected, AUnwed, ASlots, AI, APc
<1> QED BY <1>1 DEF Abstract!Next

AContained(a, b) == ASlots[b] # {} /\ ASlots[a] \subseteq ASlots[b]

LEMMA ContainedMapped ==
  ASSUME NEW a, NEW b
  PROVE  Abstract!Contained(a, b) <=> AContained(a, b)
BY DEF Abstract!Contained, Abstract!NoSet, AContained, ASlots

LEMMA NotContainedMapped ==
  ASSUME APc = "reduce", AI < N, j < N, ASlots[AI] # {}, ~ AContained(AI, j), j' = j + 1,
         UNCHANGED <<Arcs, AMoral, AUnwed, ASlots, AI, APc>>
  PROVE  Abstract!Next
<1>1. ~ Abstract!Contained(AI, j)
  BY ContainedMapped
<1>2. Abstract!NotContained
  BY <1>1 DEF Abstract!NotContained, Abstract!NoSet, AMoral, Undirected, AUnwed, ASlots, AI, APc
<1> QED BY <1>2 DEF Abstract!Next

LEMMA ReMapMapped ==
  ASSUME APc = "reduce", AI < N, j < N, ASlots[AI] # {}, AContained(AI, j),
         ASlots' = [ASlots EXCEPT ![AI] = ASlots[j], ![j] = {}], j' = AI + 1,
         UNCHANGED <<Arcs, AMoral, AUnwed, AI, APc>>
  PROVE  Abstract!Next
<1>1. Abstract!Contained(AI, j)
  BY ContainedMapped
<1>2. Abstract!ReMap
  BY <1>1 DEF Abstract!ReMap, Abstract!NoSet, AMoral, Undirected, AUnwed, ASlots, AI, APc
<1> QED BY <1>2 DEF Abstract!Next

LEMMA ReducedMapped ==
  ASSUME APc = "reduce", AI = N, APc' = "done",
         AI' = AI, UNCHANGED <<Arcs, AMoral, AUnwed, ASlots, j>>
  PROVE  Abstract!Next
<1>1. Abstract!Reduced
  BY DEF Abstract!Reduced, AMoral, Undirected, AUnwed, ASlots, AI, APc
<1> QED BY <1>1 DEF Abstract!Next

-----------------------------------------------------------------------------
(***************************************************************************)
(* The tables, and what does not change with them and the ordering.        *)
(***************************************************************************)
LEMMA TablesAre ==
  ASSUME tables \in Networks
  PROVE  Len(tables) \in Nat /\ DOMAIN tables = 1 .. Len(tables)
<1> DEFINE T == {t \in [tableFor : Name, parents : Seq(Name)] : t.tableFor \notin ToSet(t.parents)}
<1>1. tables \in Seq(T)
  BY NetworksAssumption
<1> HIDE DEF T
<1> QED BY <1>1

LEMMA TableIs ==
  ASSUME tables \in Networks, NEW x \in 1 .. Len(tables)
  PROVE  /\ tables[x].tableFor \in Name /\ tables[x].parents \in Seq(Name)
         /\ tables[x].tableFor \notin ToSet(tables[x].parents)
<1> DEFINE T == {t \in [tableFor : Name, parents : Seq(Name)] : t.tableFor \notin ToSet(t.parents)}
<1>1. tables \in Seq(T)
  BY NetworksAssumption
<1>2. tables[x] \in T
  <2> HIDE DEF T
  <2> QED BY <1>1
<1> QED BY <1>2

LEMMA ArcsAre ==
  ASSUME tables \in Networks, Ordering(o)
  PROVE  /\ Arcs = {<<RankOf(e[1]), RankOf(e[2])>> : e \in ArcsOf(Len(tables))}
         /\ Arcs \subseteq Rank \X Rank
         /\ \A a \in Rank : <<a, a>> \notin Arcs
<1> DEFINE X == {y \in (DOMAIN tables) \X Name : y[2] \in ToSet(tables[y[1]].parents)}
           arc(x) == <<RankOf(x[2]), RankOf(tables[x[1]].tableFor)>>
           rank(e) == <<RankOf(e[1]), RankOf(e[2])>>
<1>1. DOMAIN tables = 1 .. Len(tables)
  BY TablesAre
<1>2. \A x \in 1 .. Len(tables) : /\ tables[x].tableFor \in Name
                                  /\ tables[x].parents \in Seq(Name)
                                  /\ tables[x].tableFor \notin ToSet(tables[x].parents)
  BY TableIs
<1>3. ASSUME NEW x \in X
      PROVE  \E e \in ArcsOf(Len(tables)) : arc(x) = rank(e)
  <2> DEFINE e == <<x[2], tables[x[1]].tableFor>>
  <2>1. x[1] \in 1 .. Len(tables) /\ x[2] \in Name /\ x[2] \in ToSet(tables[x[1]].parents)
    BY <1>1
  <2>2. e \in Arc /\ e[1] = x[2] /\ e[2] = tables[x[1]].tableFor
    BY <1>2, <2>1 DEF Arc
  <2> HIDE DEF e
  <2>3. e \in ArcsOf(Len(tables))
    BY <2>1, <2>2 DEF ArcsOf
  <2> QED BY <2>2, <2>3
<1>4. ASSUME NEW e \in ArcsOf(Len(tables))
      PROVE  \E x \in X : rank(e) = arc(x)
  <2>1. PICK n \in 1 .. Len(tables) : e[2] = tables[n].tableFor /\ e[1] \in ToSet(tables[n].parents)
    BY DEF ArcsOf
  <2>2. e[1] \in Name
    BY DEF ArcsOf, Arc
  <2> DEFINE x == <<n, e[1]>>
  <2>3. x \in X /\ x[1] = n /\ x[2] = e[1]
    BY <1>1, <2>1, <2>2
  <2> HIDE DEF x, X
  <2> QED BY <2>1, <2>3
<1>5. Arcs = {arc(x) : x \in X}
  BY DEF Arcs
<1>6. Arcs = {rank(e) : e \in ArcsOf(Len(tables))}
  <2> HIDE DEF arc, rank, X
  <2> QED BY <1>3, <1>4, <1>5
<1>7. ASSUME NEW e \in ArcsOf(Len(tables))
      PROVE  RankOf(e[1]) \in Rank /\ RankOf(e[2]) \in Rank /\ RankOf(e[1]) # RankOf(e[2])
  <2>1. e[1] \in Name /\ e[2] \in Name
    BY DEF ArcsOf, Arc
  <2>2. e[1] # e[2]
    BY <1>2 DEF ArcsOf
  <2> QED BY <2>1, <2>2, Ranks DEF RankOf
<1>8. Arcs \subseteq Rank \X Rank
  BY <1>6, <1>7
<1>9. ASSUME NEW a \in Rank, <<a, a>> \in Arcs PROVE FALSE
  <2>1. PICK e \in ArcsOf(Len(tables)) : <<a, a>> = rank(e)
    <3> HIDE DEF rank
    <3> QED BY <1>6, <1>9
  <2> QED BY <1>7, <2>1
<1> QED BY <1>6, <1>8, <1>9

LEMMA Steady ==
  ASSUME UNCHANGED <<tables, o>>
  PROVE  /\ Arcs' = Arcs
         /\ \A v : RankOf(v)' = RankOf(v)
         /\ \A bv : Members(bv)' = Members(bv)
         /\ \A n : ArcsOf(n)' = ArcsOf(n)
         /\ (Ordering(o))' <=> Ordering(o)
BY DEF Arcs, RankOf, Members, ArcsOf, Ordering

\* Before MoralGraph's own loop no step is seen.
LEMMA EarlyStep ==
  ASSUME UNCHANGED <<tables, o, esc, j>>, Early, Early'
  PROVE  UNCHANGED Abstract!vars
<1>1. Arcs' = Arcs
  BY Steady
<1>2. ASlots' = ASlots
  BY Steady DEF ASlots
<1>3. UNCHANGED <<AMoral, AUnwed, AI, APc>>
  BY <1>1 DEF AMoral, AUnwed, AI, APc
<1> QED BY <1>1, <1>2, <1>3, Stuttering

LEMMA SlotsKept ==
  ASSUME Slots, UNCHANGED esc
  PROVE  Slots'
BY DEF Slots, On

LEMMA ToVisitNext == ToVisit' = Left(imm', cur')
BY DEF ToVisit, Left, At

-----------------------------------------------------------------------------
(***************************************************************************)
(* BNet_Create.                                                            *)
(***************************************************************************)
LEMMA AddVariableStep ==
  ASSUME IInv, AddVariable
  PROVE  IInv' /\ UNCHANGED Abstract!vars
<1>1. /\ pc = "vertices" /\ i < N /\ imm' = WithVertex(imm, vbls[i + 1]) /\ i' = i + 1
      /\ UNCHANGED <<tables, o, moral, cur, esc, j, pc>>
  BY DEF AddVariable
<1>2. /\ i \in 0 .. N /\ Listed(imm.vertices) = {vbls[k] : k \in 1 .. i}
      /\ Listed(imm.edges) = {} /\ moral = Empty(TRUE)
      /\ Good(imm) /\ Good(moral) /\ Slots /\ tables \in Networks /\ Ordering(o)
      /\ cur = NULL \/ cur \in Listed(imm.vertices)
  BY <1>1 DEF IInv, Placed
<1>3. N \in Nat /\ i + 1 \in 1 .. N /\ i + 1 \in 0 .. N /\ vbls[i + 1] \in Name
  BY <1>1, <1>2, Counted DEF Ordering
<1>4. /\ Good(imm') /\ Listed(imm'.vertices) = Listed(imm.vertices) \cup {vbls[i + 1]}
      /\ imm'.edges = imm.edges
  BY <1>1, <1>2, <1>3, VertexAdds
<1>5. Listed(imm'.vertices) = {vbls[k] : k \in 1 .. i'}
  <2>1. \A k : k \in 1 .. i + 1 <=> k \in 1 .. i \/ k = i + 1
    BY <1>2
  <2> QED BY <1>1, <1>2, <1>4, <2>1
<1>6. Placed'
  BY <1>1, <1>2, <1>3, <1>4, <1>5 DEF Placed
<1>7. IInv'
  BY <1>1, <1>2, <1>4, <1>6, SlotsKept, Steady DEF IInv
<1>8. UNCHANGED Abstract!vars
  BY <1>1, EarlyStep DEF Early
<1> QED BY <1>7, <1>8

LEMMA VariablesAddedStep ==
  ASSUME IInv, VariablesAdded
  PROVE  IInv' /\ UNCHANGED Abstract!vars
<1>1. /\ pc = "vertices" /\ i = N /\ pc' = "edges" /\ i' = 0
      /\ UNCHANGED <<tables, o, imm, moral, cur, esc, j>>
  BY DEF VariablesAdded
<1>2. /\ i \in 0 .. N /\ Listed(imm.vertices) = {vbls[k] : k \in 1 .. i}
      /\ Listed(imm.edges) = {} /\ moral = Empty(TRUE)
      /\ Good(imm) /\ Good(moral) /\ Slots /\ tables \in Networks /\ Ordering(o)
      /\ cur = NULL \/ cur \in Listed(imm.vertices)
  BY <1>1 DEF IInv, Placed
<1>3. Listed(imm.vertices) = Name
  BY <1>1, <1>2, Counted DEF Ordering, ToSet
<1>4. ArcsOf(0) = {}
  BY DEF ArcsOf
<1>5. Len(tables) \in Nat
  BY <1>2, TablesAre
<1>6. Placed'
  BY <1>1, <1>2, <1>3, <1>4, <1>5, Steady DEF Placed
<1>7. IInv'
  BY <1>1, <1>2, <1>6, SlotsKept, Steady DEF IInv
<1>8. UNCHANGED Abstract!vars
  BY <1>1, EarlyStep DEF Early
<1> QED BY <1>7, <1>8

\* The edges to one vertex from every label of a list.
EdgesFrom(list, v) == [n \in DOMAIN list |-> <<list[n], v>>]
ArcsTo(labels, v)  == {<<u, v>> : u \in labels}

LEMMA EdgesFromList ==
  ASSUME NEW S, NEW list \in Seq(S), NEW v \in S
  PROVE  /\ EdgesFrom(list, v) \in Seq(S \X S)
         /\ Listed(EdgesFrom(list, v)) = ArcsTo(Listed(list), v)
<1>1. DOMAIN list = 1 .. Len(list) /\ Len(list) \in Nat /\ \A n \in DOMAIN list : list[n] \in S
  OBVIOUS
<1>2. DOMAIN EdgesFrom(list, v) = DOMAIN list
  BY DEF EdgesFrom
<1>3. \A n \in DOMAIN list : EdgesFrom(list, v)[n] = <<list[n], v>> /\ <<list[n], v>> \in S \X S
  BY <1>1 DEF EdgesFrom
<1>4. EdgesFrom(list, v) \in Seq(S \X S)
  BY <1>1, <1>3 DEF EdgesFrom
<1> QED BY <1>2, <1>3, <1>4 DEF Listed, ArcsTo

LEMMA SeqOfListed ==
  ASSUME NEW S, NEW s \in Seq(S), NEW T, Listed(s) \subseteq T
  PROVE  s \in Seq(T)
<1>1. Len(s) \in Nat /\ DOMAIN s = 1 .. Len(s) /\ s = [n \in 1 .. Len(s) |-> s[n]]
  OBVIOUS
<1>2. \A n \in 1 .. Len(s) : s[n] \in T
  BY <1>1 DEF Listed
<1> QED BY <1>1, <1>2

LEMMA AddTableStep ==
  ASSUME IInv, AddTable
  PROVE  IInv' /\ UNCHANGED Abstract!vars
<1> DEFINE t == tables[i + 1]
           list == EdgesFrom(t.parents, t.tableFor)
<1>1. /\ pc = "edges" /\ i < Len(tables) /\ imm' = WithEdges(imm, list) /\ i' = i + 1
      /\ UNCHANGED <<tables, o, moral, cur, esc, j, pc>>
  BY DEF AddTable, EdgesFrom
<1>2. /\ i \in 0 .. Len(tables) /\ Listed(imm.vertices) = Name
      /\ Listed(imm.edges) = ArcsOf(i) /\ moral = Empty(TRUE)
      /\ Good(imm) /\ Good(moral) /\ Slots /\ tables \in Networks /\ Ordering(o)
      /\ cur = NULL \/ cur \in Listed(imm.vertices)
  BY <1>1 DEF IInv, Placed
<1>3. Len(tables) \in Nat /\ i + 1 \in 1 .. Len(tables) /\ i + 1 \in 0 .. Len(tables)
  BY <1>1, <1>2, TablesAre
<1>4. t.tableFor \in Name /\ t.parents \in Seq(Name)
  BY <1>2, <1>3, TableIs
<1>5. list \in Seq(Between(imm)) /\ Listed(list) = ArcsTo(Listed(t.parents), t.tableFor)
  <2>1. Between(imm) = Name \X Name
    BY <1>2 DEF Between
  <2> QED BY <1>4, <2>1, EdgesFromList
<1> HIDE DEF list
<1>6. /\ Good(imm') /\ Listed(imm'.edges) = Listed(imm.edges) \cup Listed(list)
      /\ imm'.vertices = imm.vertices
  BY <1>1, <1>2, <1>5, EdgesAdd
<1>7. ArcsOf(i + 1) = ArcsOf(i) \cup Listed(list)
  <2>1. \A x : x \in 1 .. i + 1 <=> x \in 1 .. i \/ x = i + 1
    BY <1>2
  <2>2. Listed(list) = {e \in Arc : e[2] = t.tableFor /\ e[1] \in ToSet(t.parents)}
    <3>1. Listed(t.parents) = ToSet(t.parents) /\ Listed(t.parents) \subseteq Name
      BY <1>4 DEF Listed, ToSet
    <3> HIDE DEF t
    <3> QED BY <1>4, <1>5, <3>1 DEF Arc, ArcsTo
  <2> QED BY <2>1, <2>2 DEF ArcsOf
<1>8. Listed(imm'.edges) = ArcsOf(i)' /\ Listed(imm'.vertices) = Name
  <2>1. ArcsOf(i)' = ArcsOf(i + 1)
    BY <1>1 DEF ArcsOf
  <2> QED BY <1>1, <1>2, <1>6, <1>7, <2>1
<1>9. Placed'
  BY <1>1, <1>2, <1>3, <1>8 DEF Placed
<1>10. IInv'
  BY <1>1, <1>2, <1>6, <1>9, SlotsKept, Steady DEF IInv
<1>11. UNCHANGED Abstract!vars
  BY <1>1, EarlyStep DEF Early
<1> QED BY <1>10, <1>11

LEMMA TablesAddedStep ==
  ASSUME IInv, TablesAdded
  PROVE  IInv' /\ UNCHANGED Abstract!vars
<1>1. /\ pc = "edges" /\ i = Len(tables) /\ pc' = "copy" /\ cur' = FirstVertex(imm)
      /\ UNCHANGED <<tables, o, imm, moral, esc, i, j>>
  BY DEF TablesAdded
<1>2. /\ i \in 0 .. Len(tables) /\ Listed(imm.vertices) = Name
      /\ Listed(imm.edges) = ArcsOf(i) /\ moral = Empty(TRUE)
      /\ Good(imm) /\ Good(moral) /\ Slots /\ tables \in Networks /\ Ordering(o)
  BY <1>1 DEF IInv, Placed
<1>3. cur' = NULL \/ cur' \in Listed(imm.vertices)
  BY <1>1, <1>2, WalkBegins
<1>4. ToVisit' = Name
  BY <1>1, <1>2, WalkBegins, ToVisitNext
<1>5. Listed(moral.edges) = {}
  BY <1>2, EmptyIsGood
<1>6. \A e \in Listed(imm.edges) : e[2] \in Name
  BY <1>2 DEF ArcsOf, Arc
<1>7. Placed'
  BY <1>1, <1>2, <1>4, <1>5, <1>6, Steady DEF Placed, Whole
<1>8. IInv'
  BY <1>1, <1>2, <1>3, <1>7, SlotsKept, Steady DEF IInv
<1>9. UNCHANGED Abstract!vars
  BY <1>1, EarlyStep DEF Early
<1> QED BY <1>8, <1>9

-----------------------------------------------------------------------------
(***************************************************************************)
(* Graph_Copy.                                                             *)
(***************************************************************************)
LEMMA CopyVertexStep ==
  ASSUME IInv, CopyVertex
  PROVE  IInv' /\ UNCHANGED Abstract!vars
<1> DEFINE parents == ParentList(imm, cur)
           both == <<cur>> \o parents
           h == WithVertices(moral, both)
           list == EdgesFrom(parents, cur)
<1>1. /\ pc = "copy" /\ cur # NULL /\ moral' = WithEdges(h, list)
      /\ cur' = NextVertex(imm, cur)
      /\ UNCHANGED <<tables, o, imm, esc, i, j, pc>>
  BY DEF CopyVertex, EdgesFrom
<1>2. /\ Whole /\ Listed(moral.edges) = {e \in Listed(imm.edges) : e[2] \notin ToVisit}
      /\ Name \ ToVisit \subseteq Listed(moral.vertices)
      /\ Good(imm) /\ Good(moral) /\ Slots /\ tables \in Networks /\ Ordering(o)
      /\ cur \in Listed(imm.vertices)
  BY <1>1 DEF IInv, Placed
<1>3. cur \in Name /\ Listed(imm.vertices) = Name
  BY <1>2 DEF Whole
<1>4. /\ parents \in Seq(Name)
      /\ Listed(parents) = {u \in Name : <<u, cur>> \in Listed(imm.edges)}
  BY <1>2, <1>3, ParentsListed
<1> HIDE DEF parents
<1>5. both \in Seq(Name) /\ Listed(both) = {cur} \cup Listed(parents)
  <2>1. <<cur>> \in Seq(Name) /\ Listed(<<cur>>) = {cur}
    BY <1>3 DEF Listed
  <2> DEFINE one == <<cur>>
  <2>2. one \in Seq(Name) /\ Listed(one) = {cur} /\ both = one \o parents
    BY <2>1
  <2> HIDE DEF one, both
  <2>3. one \o parents \in Seq(Name) /\ Listed(one \o parents) = Listed(one) \cup Listed(parents)
    BY <1>4, <2>2, ListedBoth
  <2> QED BY <2>2, <2>3
<1> HIDE DEF both
<1>6. /\ Good(h) /\ Listed(h.vertices) = Listed(moral.vertices) \cup Listed(both)
      /\ h.edges = moral.edges
  BY <1>2, <1>5, VerticesAdd
<1> HIDE DEF h
<1>7. list \in Seq(Between(h)) /\ Listed(list) = {<<u, cur>> : u \in Listed(parents)}
  <2>1. cur \in Listed(h.vertices) /\ Listed(parents) \subseteq Listed(h.vertices)
    BY <1>5, <1>6
  <2>2. parents \in Seq(Listed(h.vertices))
    BY <1>4, <2>1, SeqOfListed
  <2> DEFINE V == Listed(h.vertices)
  <2>3. cur \in V /\ parents \in Seq(V) /\ Between(h) = V \X V
    BY <2>1, <2>2 DEF Between
  <2> HIDE DEF V
  <2>4. /\ EdgesFrom(parents, cur) \in Seq(V \X V)
        /\ Listed(EdgesFrom(parents, cur)) = ArcsTo(Listed(parents), cur)
    BY <2>3, EdgesFromList
  <2> QED BY <2>3, <2>4 DEF ArcsTo
<1> HIDE DEF list
<1>8. /\ Good(moral') /\ Listed(moral'.edges) = Listed(moral.edges) \cup Listed(list)
      /\ moral'.vertices = h.vertices
  BY <1>1, <1>6, <1>7, EdgesAdd
<1>9. /\ cur' = NULL \/ cur' \in Listed(imm.vertices)
      /\ ToVisit' = ToVisit \ {cur}
  <2>1. /\ NextVertex(imm, cur) = NULL \/ NextVertex(imm, cur) \in Listed(imm.vertices)
        /\ Left(imm, NextVertex(imm, cur)) = Left(imm, cur) \ {cur}
    BY <1>2, WalkGoesOn
  <2> QED BY <1>1, <2>1, ToVisitNext, ToVisitIsLeft
<1>10. cur \in ToVisit
  BY <1>2, WalkGoesOn, ToVisitIsLeft
<1>11. Listed(moral'.edges) = {e \in Listed(imm'.edges) : e[2] \notin ToVisit'}
  <2>1. Listed(imm.edges) \subseteq Arc
    BY <1>2, GraphIs
  <2>2. Listed(list) = {e \in Listed(imm.edges) : e[2] = cur}
    <3>1. \A u \in Listed(parents) : <<u, cur>> \in Listed(imm.edges)
      BY <1>4
    <3>2. ASSUME NEW e \in Listed(imm.edges), e[2] = cur PROVE e \in Listed(list)
      <4>1. e[1] \in Name /\ e = <<e[1], cur>>
        BY <2>1, <3>2 DEF Arc
      <4>2. e[1] \in Listed(parents)
        BY <1>4, <4>1
      <4> QED BY <1>7, <4>1, <4>2
    <3> QED BY <1>7, <3>1, <3>2
  <2> QED BY <1>1, <1>2, <1>8, <1>9, <1>10, <2>2
<1>12. Name \ ToVisit' \subseteq Listed(moral'.vertices)
  BY <1>2, <1>5, <1>6, <1>8, <1>9
<1>13. Placed'
  BY <1>1, <1>2, <1>11, <1>12, Steady DEF Placed, Whole
<1>14. IInv'
  BY <1>1, <1>2, <1>8, <1>9, <1>13, SlotsKept, Steady DEF IInv
<1>15. UNCHANGED Abstract!vars
  BY <1>1, EarlyStep DEF Early
<1> QED BY <1>14, <1>15

\* Both walks over a graph say the same of it whether it is directed or not.
LEMMA MadeUndirected ==
  ASSUME NEW h, Good(h)
  PROVE  Good([h EXCEPT !.directed = FALSE])
<1> DEFINE k == [h EXCEPT !.directed = FALSE]
<1>1. h \in GP!Graphs /\ GP!WellFiled(h) /\ GP!EndsIn(h)
  BY DEF Good, GP!Good
<1>2. /\ k \in GP!Graphs /\ k.vertices = h.vertices /\ k.edges = h.edges
      /\ k.in = h.in /\ k.out = h.out
  BY <1>1 DEF GP!Graphs
<1>3. GP!WellFiled(k) /\ GP!EndsIn(k)
  BY <1>1, <1>2 DEF GP!WellFiled, GP!EndsIn
<1> QED BY <1>2, <1>3 DEF Good, GP!Good

LEMMA CopiedStep ==
  ASSUME IInv, Copied
  PROVE  IInv' /\ UNCHANGED Abstract!vars
<1>1. /\ pc = "copy" /\ cur = NULL /\ moral' = [moral EXCEPT !.directed = FALSE]
      /\ cur' = FirstVertex(imm) /\ pc' = "moralize"
      /\ UNCHANGED <<tables, o, imm, esc, i, j>>
  BY DEF Copied
<1>2. /\ Whole /\ Listed(moral.edges) = {e \in Listed(imm.edges) : e[2] \notin ToVisit}
      /\ Name \ ToVisit \subseteq Listed(moral.vertices)
      /\ Good(imm) /\ Good(moral) /\ Slots /\ tables \in Networks /\ Ordering(o)
  BY <1>1 DEF IInv, Placed
<1>3. ToVisit = {}
  BY <1>1 DEF ToVisit
<1>4. Listed(moral.edges) = ArcsOf(Len(tables)) /\ Listed(moral.vertices) = Name
  BY <1>2, <1>3, GraphIs DEF Whole
<1>5. Good(moral') /\ moral'.edges = moral.edges /\ moral'.vertices = moral.vertices
  <2>1. moral \in Graphs
    BY <1>2, GraphIs
  <2> QED BY <1>1, <1>2, <2>1, MadeUndirected DEF Graphs
<1>6. /\ cur' = NULL \/ cur' \in Listed(imm.vertices)
      /\ ToVisit' = Name
  <2>1. /\ FirstVertex(imm) = NULL \/ FirstVertex(imm) \in Listed(imm.vertices)
        /\ Left(imm, FirstVertex(imm)) = Listed(imm.vertices)
    BY <1>2, WalkBegins
  <2> QED BY <1>1, <1>2, <2>1, ToVisitNext DEF Whole
<1>7. Placed'
  BY <1>1, <1>2, <1>4, <1>5, Steady DEF Placed, Whole
<1>8. IInv'
  BY <1>1, <1>2, <1>5, <1>6, <1>7, SlotsKept, Steady DEF IInv
<1>9. UNCHANGED <<Arcs, ASlots, AI, j, APc>>
  BY <1>1, Steady DEF ASlots, AI, APc, Early
<1>10. AMoral' = AMoral
  <2>1. AMoral = {{a[1], a[2]} : a \in Arcs}
    BY <1>1 DEF AMoral, Early
  <2>2. AMoral' = Undirected(moral')
    BY <1>1, Steady DEF AMoral, Early, Undirected
  <2>3. Undirected(moral') = {{RankOf(e[1]), RankOf(e[2])} : e \in ArcsOf(Len(tables))}
    BY <1>4, <1>5, UndirectedIs
  <2>4. Arcs = {<<RankOf(e[1]), RankOf(e[2])>> : e \in ArcsOf(Len(tables))}
    BY <1>2, ArcsAre
  <2>5. ASSUME NEW m \in AMoral PROVE m \in Undirected(moral')
    <3>1. PICK a \in Arcs : m = {a[1], a[2]}
      BY <2>1, <2>5
    <3>2. PICK e \in ArcsOf(Len(tables)) : a = <<RankOf(e[1]), RankOf(e[2])>>
      BY <2>4, <3>1
    <3>3. m = {RankOf(e[1]), RankOf(e[2])}
      BY <3>1, <3>2
    <3> QED BY <2>3, <3>2, <3>3
  <2>6. ASSUME NEW m \in Undirected(moral') PROVE m \in AMoral
    <3>1. PICK e \in ArcsOf(Len(tables)) : m = {RankOf(e[1]), RankOf(e[2])}
      BY <2>3, <2>6
    <3> DEFINE a == <<RankOf(e[1]), RankOf(e[2])>>
    <3>2. a \in Arcs /\ a[1] = RankOf(e[1]) /\ a[2] = RankOf(e[2])
      BY <2>4, <3>1
    <3> HIDE DEF a
    <3>3. m = {a[1], a[2]}
      BY <3>1, <3>2
    <3> QED BY <2>1, <3>2, <3>3
  <2> QED BY <2>2, <2>5, <2>6
<1>11. AUnwed' = AUnwed
  <2>1. AUnwed = Rank
    BY <1>1 DEF AUnwed, Early
  <2>2. AUnwed' = {RankOf(v) : v \in Name}
    BY <1>1, <1>6, Steady DEF AUnwed, Early
  <2>3. /\ \A v \in Name : RankOf(v) \in Rank
        /\ \A k \in Rank : o[k + 1] \in Name /\ RankOf(o[k + 1]) = k
    BY <1>2, Ranks DEF RankOf
  <2> QED BY <2>1, <2>2, <2>3
<1>12. UNCHANGED Abstract!vars
  BY <1>9, <1>10, <1>11, Stuttering
<1> QED BY <1>8, <1>12

-----------------------------------------------------------------------------
(***************************************************************************)
(* MoralGraph.                                                             *)
(***************************************************************************)
\* The ranks of the parents the walk lists.
LEMMA ParentsRanked ==
  ASSUME tables \in Networks, Ordering(o), Whole, Good(imm), NEW v \in Name
  PROVE  AParents(RankOf(v)) = {RankOf(u) : u \in Listed(ParentList(imm, v))}
<1> DEFINE P == ParentList(imm, v)
<1>1. Listed(P) = {u \in Name : <<u, v>> \in ArcsOf(Len(tables))}
  BY ParentsListed DEF Whole
<1>2. Arcs = {<<RankOf(e[1]), RankOf(e[2])>> : e \in ArcsOf(Len(tables))}
  BY ArcsAre
<1>3. /\ \A u \in Name : RankOf(u) \in Rank
      /\ \A u, w \in Name : RankOf(u) = RankOf(w) => u = w
  BY Ranks DEF RankOf
<1>4. \A e \in ArcsOf(Len(tables)) : e[1] \in Name /\ e[2] \in Name /\ e = <<e[1], e[2]>>
  BY DEF ArcsOf, Arc
<1> HIDE DEF P
<1>5. ASSUME NEW p \in AParents(RankOf(v)) PROVE p \in {RankOf(u) : u \in Listed(P)}
  <2>1. PICK e \in ArcsOf(Len(tables)) : <<p, RankOf(v)>> = <<RankOf(e[1]), RankOf(e[2])>>
    BY <1>2, <1>5 DEF AParents
  <2>2. p = RankOf(e[1]) /\ e = <<e[1], v>> /\ e[1] \in Name
    BY <1>3, <1>4, <2>1
  <2> QED BY <1>1, <2>2
<1>6. ASSUME NEW u \in Listed(P) PROVE RankOf(u) \in AParents(RankOf(v))
  <2>1. u \in Name /\ <<u, v>> \in ArcsOf(Len(tables))
    BY <1>1, <1>6
  <2> DEFINE e == <<u, v>>
  <2>2. e \in ArcsOf(Len(tables)) /\ e[1] = u /\ e[2] = v
    BY <2>1
  <2> HIDE DEF e
  <2>3. <<RankOf(u), RankOf(v)>> \in Arcs
    BY <1>2, <2>2
  <2> QED BY <1>3, <2>1, <2>3 DEF AParents
<1> QED BY <1>5, <1>6 DEF P

\* The marriages the loop makes, by rank.
LEMMA MarriedRanks ==
  ASSUME Ordering(o), NEW list \in Seq(Name), NoRepeat(list)
  PROVE  {{RankOf(e[1]), RankOf(e[2])} : e \in Listed(Pairs(list))}
           = Married({RankOf(u) : u \in Listed(list)})
<1> DEFINE L == Listed(Pairs(list))
           R == {RankOf(u) : u \in Listed(list)}
<1>1. Listed(list) \subseteq Name
  BY DEF Listed
<1>2. \A u, w \in Name : RankOf(u) = RankOf(w) => u = w
  BY Ranks DEF RankOf
<1>3. /\ \A x \in L : x[1] \in Listed(list) /\ x[2] \in Listed(list) /\ x[1] # x[2]
      /\ \A u, w \in Listed(list) : u # w => <<u, w>> \in L \/ <<w, u>> \in L
  BY MarriagesAre
<1> HIDE DEF L
<1>4. ASSUME NEW x \in L PROVE {RankOf(x[1]), RankOf(x[2])} \in Married(R)
  <2>1. RankOf(x[1]) \in R /\ RankOf(x[2]) \in R /\ RankOf(x[1]) # RankOf(x[2])
    BY <1>1, <1>2, <1>3, <1>4
  <2> HIDE DEF R
  <2> QED BY <2>1 DEF Married
<1>5. ASSUME NEW m \in Married(R) PROVE \E x \in L : m = {RankOf(x[1]), RankOf(x[2])}
  <2>1. PICK a \in R, b \in R : a # b /\ m = {a, b}
    <3> HIDE DEF R
    <3> QED BY <1>5 DEF Married
  <2>2. PICK u \in Listed(list), w \in Listed(list) : a = RankOf(u) /\ b = RankOf(w)
    OBVIOUS
  <2>3. u # w
    BY <2>1, <2>2
  <2>4. CASE <<u, w>> \in L
    BY <2>1, <2>2, <2>4
  <2>5. CASE <<w, u>> \in L
    BY <2>1, <2>2, <2>5
  <2> QED BY <1>3, <2>3, <2>4, <2>5
<1> QED BY <1>4, <1>5 DEF L

LEMMA MarryParentsStep ==
  ASSUME IInv, MarryParents
  PROVE  IInv' /\ Abstract!Next
<1> DEFINE parents == ParentList(imm, cur)
           list == Pairs(parents)
           k == RankOf(cur)
<1>1. /\ pc = "moralize" /\ cur # NULL /\ moral' = WithEdges(moral, list)
      /\ cur' = NextVertex(imm, cur)
      /\ UNCHANGED <<tables, o, imm, esc, i, j, pc>>
  BY DEF MarryParents
<1>2. /\ Whole /\ Listed(moral.vertices) = Name
      /\ Good(imm) /\ Good(moral) /\ Slots /\ tables \in Networks /\ Ordering(o)
      /\ cur \in Listed(imm.vertices)
  BY <1>1 DEF IInv, Placed
<1>3. cur \in Name
  BY <1>2 DEF Whole
<1>4. parents \in Seq(Name) /\ NoRepeat(parents)
  BY <1>2, <1>3, ParentsListed
<1>5. AParents(k) = {RankOf(u) : u \in Listed(parents)}
  BY <1>2, <1>3, ParentsRanked
<1> HIDE DEF parents
<1>6. list \in Seq(Between(moral))
  BY <1>2, <1>4, PairsAre DEF Between
<1>7. {{RankOf(e[1]), RankOf(e[2])} : e \in Listed(list)} = Married(AParents(k))
  <2>1. {{RankOf(e[1]), RankOf(e[2])} : e \in Listed(list)}
          = Married({RankOf(u) : u \in Listed(parents)})
    BY <1>2, <1>4, MarriedRanks
  <2> QED BY <1>5, <2>1
<1> HIDE DEF list
<1>8. /\ Good(moral') /\ Listed(moral'.edges) = Listed(moral.edges) \cup Listed(list)
      /\ moral'.vertices = moral.vertices
  BY <1>1, <1>2, <1>6, EdgesAdd
<1>9. /\ cur' = NULL \/ cur' \in Listed(imm.vertices)
      /\ ToVisit' = ToVisit \ {cur} /\ cur \in ToVisit /\ ToVisit \subseteq Name
  <2>1. /\ NextVertex(imm, cur) = NULL \/ NextVertex(imm, cur) \in Listed(imm.vertices)
        /\ cur \in Left(imm, cur) /\ Left(imm, cur) \subseteq Listed(imm.vertices)
        /\ Left(imm, NextVertex(imm, cur)) = Left(imm, cur) \ {cur}
    BY <1>2, WalkGoesOn
  <2> QED BY <1>1, <1>2, <2>1, ToVisitNext, ToVisitIsLeft DEF Whole
<1>10. Placed'
  BY <1>1, <1>2, <1>8, Steady DEF Placed, Whole
<1>11. IInv'
  BY <1>1, <1>2, <1>8, <1>9, <1>10, SlotsKept, Steady DEF IInv
<1>12. UNCHANGED <<Arcs, ASlots, AI, j, APc>>
  BY <1>1, Steady DEF ASlots, AI, APc, Early
<1>13. AMoral' = AMoral \cup Married(AParents(k))
  <2>1. AMoral = Undirected(moral)
    BY <1>1 DEF AMoral, Early
  <2>2. AMoral' = Undirected(moral')
    BY <1>1, Steady DEF AMoral, Early, Undirected
  <2>3. /\ Undirected(moral) = {{RankOf(e[1]), RankOf(e[2])} : e \in Listed(moral.edges)}
        /\ Undirected(moral') = {{RankOf(e[1]), RankOf(e[2])} : e \in Listed(moral'.edges)}
    BY UndirectedIs
  <2> QED BY <1>7, <1>8, <2>1, <2>2, <2>3
<1>14. AUnwed' = AUnwed \ {k} /\ k \in AUnwed
  <2>1. AUnwed = {RankOf(v) : v \in ToVisit}
    BY <1>1 DEF AUnwed, Early
  <2>2. AUnwed' = {RankOf(v) : v \in ToVisit \ {cur}}
    BY <1>1, <1>9, Steady DEF AUnwed, Early
  <2>3. \A u, w \in Name : RankOf(u) = RankOf(w) => u = w
    BY <1>2, Ranks DEF RankOf
  <2> QED BY <1>3, <1>9, <2>1, <2>2, <2>3
<1>15. k \in Rank /\ APc = "moralize"
  <2>1. \A v \in Name : RankOf(v) \in Rank
    BY <1>2, Ranks DEF RankOf
  <2> QED BY <1>1, <1>3, <2>1 DEF APc, Early
<1> HIDE DEF k
<1>16. Abstract!Next
  BY <1>12, <1>13, <1>14, <1>15, MarryMapped
<1> QED BY <1>11, <1>16

LEMMA MoralizedStep ==
  ASSUME IInv, Moralized
  PROVE  IInv' /\ Abstract!Next
<1>1. /\ pc = "moralize" /\ cur = NULL /\ pc' = "gather" /\ i' = N - 1
      /\ UNCHANGED <<tables, o, imm, moral, cur, esc, j>>
  BY DEF Moralized
<1>2. /\ Good(imm) /\ Good(moral) /\ Slots /\ tables \in Networks /\ Ordering(o)
      /\ N \in Nat
  BY Counted DEF IInv
<1>3. Placed'
  BY <1>1, <1>2 DEF Placed
<1>4. IInv'
  BY <1>1, <1>2, <1>3, SlotsKept, Steady DEF IInv
<1>5. ToVisit = {}
  BY <1>1 DEF ToVisit
<1>6. UNCHANGED <<Arcs, AMoral, ASlots, j>>
  BY <1>1, Steady DEF AMoral, Undirected, ASlots, Early
<1>7. AUnwed = {} /\ AUnwed' = {} /\ AI' = AI /\ APc = "moralize" /\ APc' = "gather"
  BY <1>1, <1>5 DEF AUnwed, AI, APc, Early
<1>8. Abstract!Next
  BY <1>6, <1>7, MoralizedMapped
<1> QED BY <1>4, <1>8

-----------------------------------------------------------------------------
(***************************************************************************)
(* GatherElimSets.                                                         *)
(***************************************************************************)
\* The members of the set of v are those ElimSets gives it.
LEMMA LowerMembers ==
  ASSUME Ordering(o), NEW h, Good(h), NEW k \in Rank
  PROVE  /\ ElimSetOf(h, o[k + 1], k) \in Full
         /\ Members(ElimSetOf(h, o[k + 1], k)) = ALower(Undirected(h), k)
<1> DEFINE v == o[k + 1]
           L == Listed(NeighborList(h, v))
           E == Listed(h.edges)
<1>1. v \in Name /\ RankOf(v) = k
  BY Ranks DEF RankOf
<1>2. /\ \A u \in Name : RankOf(u) \in Rank
      /\ \A u, w \in Name : RankOf(u) = RankOf(w) => u = w
  BY Ranks DEF RankOf
<1>3. \A r \in Rank : r \in Int
  BY Counted
<1>4. L = {u \in Name : <<u, v>> \in E \/ <<v, u>> \in E}
  BY <1>1, NeighborsListed
<1>5. \A e \in E : e[1] \in Name /\ e[2] \in Name /\ e = <<e[1], e[2]>>
  BY GraphIs DEF Arc
<1>6. Undirected(h) = {{RankOf(e[1]), RankOf(e[2])} : e \in E}
  BY UndirectedIs
<1> HIDE DEF v
<1>7. /\ ElimSetOf(h, v, k) \in Full
      /\ Members(ElimSetOf(h, v, k)) = {RankOf(u) : u \in {v} \cup {w \in L : RankOf(w) < k}}
  BY <1>1, ElimSetIs
<1> DEFINE M == {RankOf(u) : u \in {v} \cup {w \in L : RankOf(w) < k}}
<1> HIDE DEF L, E
<1>8. ASSUME NEW r \in ALower(Undirected(h), k) PROVE r \in M
  <2>1. CASE r = k
    BY <1>1, <2>1
  <2>2. CASE r # k
    <3>1. r \in Rank /\ r < k /\ {r, k} \in Undirected(h)
      BY <1>8, <2>2 DEF ALower
    <3>2. PICK e \in E : {r, k} = {RankOf(e[1]), RankOf(e[2])}
      BY <1>6, <3>1
    <3>3. CASE r = RankOf(e[1]) /\ k = RankOf(e[2])
      <4>1. e[2] = v
        BY <1>1, <1>2, <1>5, <3>3
      <4>2. e[1] \in L
        BY <1>4, <1>5, <4>1
      <4> QED BY <3>1, <3>3, <4>2
    <3>4. CASE r = RankOf(e[2]) /\ k = RankOf(e[1])
      <4>1. e[1] = v
        BY <1>1, <1>2, <1>5, <3>4
      <4>2. e[2] \in L
        BY <1>4, <1>5, <4>1
      <4> QED BY <3>1, <3>4, <4>2
    <3> QED BY <2>2, <3>2, <3>3, <3>4
  <2> QED BY <2>1, <2>2
<1>9. ASSUME NEW u \in {v} \cup {w \in L : RankOf(w) < k}
      PROVE  RankOf(u) \in ALower(Undirected(h), k)
  <2>1. CASE u = v
    BY <1>1, <2>1 DEF ALower
  <2>2. CASE u # v
    <3>0. u \in L /\ RankOf(u) < k
      BY <1>9, <2>2
    <3>1. u \in Name /\ RankOf(u) \in Rank /\ RankOf(u) # k
      <4>1. u \in Name /\ RankOf(u) \in Rank
        BY <1>2, <1>4, <3>0
      <4>2. RankOf(u) \in Int /\ k \in Int
        BY <1>3, <4>1
      <4> QED BY <3>0, <4>1, <4>2
    <3>2. <<u, v>> \in E \/ <<v, u>> \in E
      BY <1>4, <3>0
    <3>3. PICK e \in E : {RankOf(u), k} = {RankOf(e[1]), RankOf(e[2])}
      <4>1. CASE <<u, v>> \in E
        BY <1>1, <4>1
      <4>2. CASE <<v, u>> \in E
        BY <1>1, <4>2
      <4> QED BY <3>2, <4>1, <4>2
    <3>4. {RankOf(u), k} \in Undirected(h)
      BY <1>6, <3>3
    <3> QED BY <3>0, <3>1, <3>4 DEF ALower
  <2> QED BY <2>1, <2>2
<1>10. M = ALower(Undirected(h), k)
  BY <1>8, <1>9
<1> QED BY <1>7, <1>10 DEF v

LEMMA GatherStep ==
  ASSUME IInv, Gather
  PROVE  IInv' /\ Abstract!Next
<1> DEFINE set == ElimSetOf(moral, o[i + 1], i)
<1>1. /\ pc = "gather" /\ i > -1 /\ esc' = [esc EXCEPT ![i] = set]
      /\ moral' = ConnectAll(moral, VertexList(esc'[i])) /\ i' = i - 1
      /\ UNCHANGED <<tables, o, imm, cur, j, pc>>
  BY DEF Gather
<1>2. /\ Good(imm) /\ Good(moral) /\ Slots /\ tables \in Networks /\ Ordering(o)
      /\ N \in Nat /\ i \in -1 .. N - 1
      /\ cur = NULL \/ cur \in Listed(imm.vertices)
  BY <1>1, Counted DEF IInv, Placed
<1>3. i \in Rank /\ N # 0
  BY <1>1, <1>2 DEF Rank
<1>4. set \in Full /\ Members(set) = ALower(Undirected(moral), i)
  BY <1>2, <1>3, LowerMembers
<1> HIDE DEF set
<1>5. On(set) # {}
  <2>1. i \in Members(set)
    BY <1>4 DEF ALower
  <2> QED BY <1>2, <1>3, <1>4, <2>1, MembersAre
<1>6. DOMAIN esc = Rank /\ \A k \in Rank : esc[k] = NoSet \/ (esc[k] \in Full /\ On(esc[k]) # {})
  BY <1>2 DEF Slots
<1>7. moral' = moral
  <2>1. esc'[i] = set
    BY <1>1, <1>3, <1>6
  <2>2. set.size \in Nat
    BY <1>2, <1>4 DEF Full
  <2> QED BY <1>1, <2>1, <2>2, NothingConnected
<1>8. Slots'
  <2>1. DOMAIN esc' = Rank /\ \A k \in Rank : esc'[k] = IF k = i THEN set ELSE esc[k]
    BY <1>1, <1>3, <1>6
  <2>2. \A k \in Rank : esc'[k] = NoSet \/ (esc'[k] \in Full /\ On(esc'[k]) # {})
    BY <1>4, <1>5, <1>6, <2>1
  <2> QED BY <2>1, <2>2 DEF Slots, On
<1>9. Placed'
  BY <1>1, <1>2 DEF Placed
<1>10. IInv'
  BY <1>1, <1>2, <1>7, <1>8, <1>9, Steady DEF IInv
<1>11. AMoral = Undirected(moral) /\ AMoral' = AMoral /\ UNCHANGED <<Arcs, AUnwed, j, APc>>
  BY <1>1, <1>7, Steady DEF AMoral, Undirected, AUnwed, APc, Early
<1>12. AI = i /\ AI' = AI - 1 /\ APc = "gather"
  BY <1>1 DEF AI, APc, Early
<1>13. ASlots' = [ASlots EXCEPT ![i] = ALower(Undirected(moral), i)]
  <2>1. ASlots' = [k \in Rank |-> Members(esc'[k])]
    BY <1>1, Steady DEF ASlots
  <2>2. \A k \in Rank : esc'[k] = IF k = i THEN set ELSE esc[k]
    BY <1>1, <1>3, <1>6
  <2> QED BY <1>4, <2>1, <2>2 DEF ASlots
<1>14. Abstract!Next
  <2>1. AI > -1 /\ ASlots' = [ASlots EXCEPT ![AI] = ALower(AMoral, AI)]
    BY <1>1, <1>11, <1>12, <1>13
  <2> QED BY <1>2, <1>11, <1>12, <2>1, GatherMapped
<1> QED BY <1>10, <1>14

LEMMA GatheredStep ==
  ASSUME IInv, Gathered
  PROVE  IInv' /\ Abstract!Next
<1>1. /\ pc = "gather" /\ i = -1 /\ pc' = "reduce" /\ i' = 0 /\ j' = 1
      /\ UNCHANGED <<tables, o, imm, moral, cur, esc>>
  BY DEF Gathered
<1>2. /\ Good(imm) /\ Good(moral) /\ Slots /\ tables \in Networks /\ Ordering(o)
      /\ N \in Nat
      /\ cur = NULL \/ cur \in Listed(imm.vertices)
  BY Counted DEF IInv
<1>3. Placed'
  BY <1>1, <1>2 DEF Placed
<1>4. IInv'
  BY <1>1, <1>2, <1>3, SlotsKept, Steady DEF IInv
<1>5. UNCHANGED <<Arcs, AMoral, AUnwed, ASlots>>
  BY <1>1, Steady DEF AMoral, Undirected, AUnwed, ASlots, Early
<1>6. APc = "gather" /\ AI = -1 /\ APc' = "reduce" /\ AI' = 0
  BY <1>1 DEF APc, AI, Early
<1>7. Abstract!Next
  BY <1>1, <1>5, <1>6, GatheredMapped
<1> QED BY <1>4, <1>7

-----------------------------------------------------------------------------
(***************************************************************************)
(* ElimSetCollection_RemoveNonCliques.                                     *)
(***************************************************************************)
\* A slot is empty in ElimSets when it is NULL in the collection, and a set
\* contains another when ElimSet_Contains says so.
LEMMA SlotsCompare ==
  ASSUME Slots, Ordering(o), NEW a \in Rank
  PROVE  /\ ASlots[a] = Members(esc[a])
         /\ ASlots[a] = {} <=> esc[a] = NoSet
         /\ \A b \in Rank : esc[a] # NoSet =>
              (AContained(a, b) <=> esc[b] # NoSet /\ ElimSetContains(esc[b], esc[a]))
<1>1. N # 0
  BY Counted DEF Rank
<1>2. \A k \in Rank : esc[k] = NoSet \/ (esc[k] \in Full /\ On(esc[k]) # {})
  BY DEF Slots
<1>3. \A k \in Rank : ASlots[k] = Members(esc[k])
  BY DEF ASlots
<1>4. ASSUME NEW k \in Rank
      PROVE  ASlots[k] = {} <=> esc[k] = NoSet
  <2>1. CASE esc[k] = NoSet
    BY <1>3, <2>1 DEF Members
  <2>2. CASE esc[k] # NoSet
    <3>1. esc[k] \in Full /\ On(esc[k]) # {}
      BY <1>2, <2>2
    <3>2. Members(esc[k]) = {RankOf(vbls[n + 1]) : n \in On(esc[k])}
      BY <1>1, <3>1, MembersAre
    <3> QED BY <1>3, <2>2, <3>1, <3>2
  <2> QED BY <2>1, <2>2
<1>5. ASSUME NEW b \in Rank, esc[a] # NoSet
      PROVE  AContained(a, b) <=> esc[b] # NoSet /\ ElimSetContains(esc[b], esc[a])
  <2>1. CASE esc[b] = NoSet
    BY <1>4, <2>1 DEF AContained
  <2>2. CASE esc[b] # NoSet
    <3>1. esc[a] \in Full /\ esc[b] \in Full
      BY <1>2, <1>5, <2>2
    <3>2. Members(esc[a]) \subseteq Members(esc[b]) <=> On(esc[a]) \subseteq On(esc[b])
      BY <1>1, <3>1, MembersCompare
    <3>3. ElimSetContains(esc[b], esc[a]) <=> On(esc[a]) \subseteq On(esc[b])
      BY <3>1, ContainsIs
    <3>4. ASlots[b] # {}
      BY <1>4, <2>2
    <3> QED BY <1>3, <2>2, <3>2, <3>3, <3>4 DEF AContained
  <2> QED BY <2>1, <2>2
<1> QED BY <1>3, <1>4, <1>5

\* What a step that leaves the graphs alone does not change.
LEMMA Settled ==
  ASSUME UNCHANGED <<tables, o, imm, moral, cur, pc>>, pc = "reduce"
  PROVE  /\ UNCHANGED <<Arcs, AMoral, AUnwed, APc>>
         /\ AI = i /\ AI' = i' /\ APc = "reduce"
BY Steady DEF AMoral, Undirected, AUnwed, APc, AI, Early

LEMMA NextSlotStep ==
  ASSUME IInv, NextSlot
  PROVE  IInv' /\ Abstract!Next
<1>1. /\ pc = "reduce" /\ i < N /\ i' = i + 1 /\ j' = i + 2
      /\ esc[i] = NoSet \/ j >= N
      /\ UNCHANGED <<tables, o, imm, moral, cur, esc, pc>>
  BY DEF NextSlot
<1>2. /\ Good(imm) /\ Good(moral) /\ Slots /\ tables \in Networks /\ Ordering(o)
      /\ N \in Nat /\ i \in 0 .. N
      /\ cur = NULL \/ cur \in Listed(imm.vertices)
  BY <1>1, Counted DEF IInv, Placed
<1>3. i \in Rank
  BY <1>1, <1>2 DEF Rank
<1>4. Placed'
  BY <1>1, <1>2 DEF Placed
<1>5. IInv'
  BY <1>1, <1>2, <1>4, SlotsKept, Steady DEF IInv
<1>6. /\ UNCHANGED <<Arcs, AMoral, AUnwed, APc>> /\ AI = i /\ AI' = i' /\ APc = "reduce"
  BY <1>1, Settled
<1>7. ASlots' = ASlots
  BY <1>1, Steady DEF ASlots
<1>8. ASlots[i] = {} \/ j >= N
  BY <1>1, <1>2, <1>3, SlotsCompare
<1>9. Abstract!Next
  BY <1>1, <1>6, <1>7, <1>8, NextSlotMapped
<1> QED BY <1>5, <1>9

LEMMA NotContainedStep ==
  ASSUME IInv, NotContained
  PROVE  IInv' /\ Abstract!Next
<1>1. /\ pc = "reduce" /\ i < N /\ j < N /\ esc[i] # NoSet
      /\ esc[j] # NoSet => ~ ElimSetContains(esc[j], esc[i])
      /\ j' = j + 1
      /\ UNCHANGED <<tables, o, imm, moral, cur, esc, i, pc>>
  BY DEF NotContained
<1>2. /\ Good(imm) /\ Good(moral) /\ Slots /\ tables \in Networks /\ Ordering(o)
      /\ N \in Nat /\ i \in 0 .. N /\ j \in 1 .. N + 1
      /\ cur = NULL \/ cur \in Listed(imm.vertices)
  BY <1>1, Counted DEF IInv, Placed
<1>3. i \in Rank /\ j \in Rank
  BY <1>1, <1>2 DEF Rank
<1>4. Placed'
  BY <1>1, <1>2 DEF Placed
<1>5. IInv'
  BY <1>1, <1>2, <1>4, SlotsKept, Steady DEF IInv
<1>6. /\ UNCHANGED <<Arcs, AMoral, AUnwed, APc>> /\ AI = i /\ AI' = i' /\ APc = "reduce"
  BY <1>1, Settled
<1>7. ASlots' = ASlots
  BY <1>1, Steady DEF ASlots
<1>8. ASlots[i] # {} /\ ~ AContained(i, j)
  BY <1>1, <1>2, <1>3, SlotsCompare
<1>9. Abstract!Next
  BY <1>1, <1>6, <1>7, <1>8, NotContainedMapped
<1> QED BY <1>5, <1>9

LEMMA ReMapStep ==
  ASSUME IInv, ReMap
  PROVE  IInv' /\ Abstract!Next
<1>1. /\ pc = "reduce" /\ i < N /\ j < N /\ esc[i] # NoSet
      /\ esc[j] # NoSet /\ ElimSetContains(esc[j], esc[i])
      /\ esc' = [esc EXCEPT ![i] = esc[j], ![j] = NoSet] /\ j' = i + 1
      /\ UNCHANGED <<tables, o, imm, moral, cur, i, pc>>
  BY DEF ReMap
<1>2. /\ Good(imm) /\ Good(moral) /\ Slots /\ tables \in Networks /\ Ordering(o)
      /\ N \in Nat /\ i \in 0 .. N /\ j \in 1 .. N + 1
      /\ cur = NULL \/ cur \in Listed(imm.vertices)
  BY <1>1, Counted DEF IInv, Placed
<1>3. i \in Rank /\ j \in Rank
  BY <1>1, <1>2 DEF Rank
<1>4. /\ DOMAIN esc = Rank
      /\ \A k \in Rank : esc[k] = NoSet \/ (esc[k] \in Full /\ On(esc[k]) # {})
  BY <1>2 DEF Slots
<1>5. /\ DOMAIN esc' = Rank
      /\ \A k \in Rank : esc'[k] = IF k = j THEN NoSet ELSE IF k = i THEN esc[j] ELSE esc[k]
  BY <1>1, <1>3, <1>4
<1>6. Slots'
  <2>1. \A k \in Rank : esc'[k] = NoSet \/ (esc'[k] \in Full /\ On(esc'[k]) # {})
    BY <1>3, <1>4, <1>5
  <2> QED BY <1>5, <2>1 DEF Slots, On
<1>7. Placed'
  BY <1>1, <1>2 DEF Placed
<1>8. IInv'
  BY <1>1, <1>2, <1>6, <1>7, Steady DEF IInv
<1>9. /\ UNCHANGED <<Arcs, AMoral, AUnwed, APc>> /\ AI = i /\ AI' = i' /\ APc = "reduce"
  BY <1>1, Settled
<1>10. ASlots' = [ASlots EXCEPT ![i] = ASlots[j], ![j] = {}]
  <2>1. ASlots' = [k \in Rank |-> Members(esc'[k])]
    BY <1>1, Steady DEF ASlots
  <2>2. Members(NoSet) = {}
    BY DEF Members
  <2>3. \A k \in Rank : Members(esc'[k])
          = IF k = j THEN {} ELSE IF k = i THEN Members(esc[j]) ELSE Members(esc[k])
    BY <1>5, <2>2
  <2>4. ASlots = [k \in Rank |-> Members(esc[k])]
    BY DEF ASlots
  <2> QED BY <1>3, <2>1, <2>3, <2>4
<1>11. ASlots[i] # {} /\ AContained(i, j)
  BY <1>1, <1>2, <1>3, SlotsCompare
<1>12. Abstract!Next
  BY <1>1, <1>9, <1>10, <1>11, ReMapMapped
<1> QED BY <1>8, <1>12

LEMMA ReducedStep ==
  ASSUME IInv, Reduced
  PROVE  IInv' /\ Abstract!Next
<1>1. /\ pc = "reduce" /\ i = N /\ pc' = "done"
      /\ UNCHANGED <<tables, o, imm, moral, cur, esc, i, j>>
  BY DEF Reduced
<1>2. /\ Good(imm) /\ Good(moral) /\ Slots /\ tables \in Networks /\ Ordering(o)
      /\ cur = NULL \/ cur \in Listed(imm.vertices)
  BY DEF IInv
<1>3. Placed'
  BY <1>1 DEF Placed
<1>4. IInv'
  BY <1>1, <1>2, <1>3, SlotsKept, Steady DEF IInv
<1>5. UNCHANGED <<Arcs, AMoral, AUnwed, ASlots>>
  BY <1>1, Steady DEF AMoral, Undirected, AUnwed, ASlots, Early
<1>6. APc = "reduce" /\ APc' = "done" /\ AI = N /\ AI' = AI
  BY <1>1 DEF APc, AI, Early
<1>7. Abstract!Next
  BY <1>1, <1>5, <1>6, ReducedMapped
<1> QED BY <1>4, <1>7

-----------------------------------------------------------------------------
(***************************************************************************)
(* The invariant and the refinement.                                       *)
(***************************************************************************)
LEMMA Initially ==
  ASSUME Init
  PROVE  IInv /\ Abstract!Init
<1>1. /\ tables \in Networks /\ o \in [1 .. N -> Name] /\ ToSet(o) = Name
      /\ imm = Empty(TRUE) /\ moral = Empty(TRUE) /\ cur = NULL
      /\ esc = [k \in Rank |-> NoSet] /\ i = 0 /\ j = 0 /\ pc = "vertices"
  BY DEF Init
<1>2. Ordering(o)
  BY <1>1 DEF Ordering
<1>3. /\ Good(imm) /\ Good(moral)
      /\ Listed(imm.vertices) = {} /\ Listed(imm.edges) = {}
  BY <1>1, EmptyIsGood
<1>4. Slots
  BY <1>1 DEF Slots
<1>5. Placed
  <2>1. Listed(imm.vertices) = {vbls[k] : k \in 1 .. i} /\ i \in 0 .. N
    <3>1. N \in Nat
      BY Counted
    <3>2. i = 0 /\ i \in 0 .. N
      BY <1>1, <3>1
    <3>3. {vbls[k] : k \in 1 .. i} = {}
      BY <3>2
    <3> QED BY <1>3, <3>2, <3>3
  <2> QED BY <1>1, <1>3, <2>1 DEF Placed
<1>6. IInv
  BY <1>1, <1>2, <1>3, <1>4, <1>5 DEF IInv
<1>7. /\ AMoral = {{a[1], a[2]} : a \in Arcs} /\ AUnwed = Rank
      /\ AI = N - 1 /\ APc = "moralize" /\ j = 0
  BY <1>1 DEF AMoral, AUnwed, AI, APc, Early
<1>8. ASlots = [k \in Rank |-> {}]
  BY <1>1 DEF ASlots, Members
<1>9. Arcs \subseteq Rank \X Rank /\ \A a \in Rank : <<a, a>> \notin Arcs
  BY <1>1, <1>2, ArcsAre
<1>10. Abstract!Init
  BY <1>7, <1>8, <1>9, InitMapped
<1> QED BY <1>6, <1>10

LEMMA Step ==
  ASSUME IInv, [Next]_vars
  PROVE  IInv' /\ [Abstract!Next]_(Abstract!vars)
<1>1. CASE AddVariable
  BY <1>1, AddVariableStep
<1>2. CASE VariablesAdded
  BY <1>2, VariablesAddedStep
<1>3. CASE AddTable
  BY <1>3, AddTableStep
<1>4. CASE TablesAdded
  BY <1>4, TablesAddedStep
<1>5. CASE CopyVertex
  BY <1>5, CopyVertexStep
<1>6. CASE Copied
  BY <1>6, CopiedStep
<1>7. CASE MarryParents
  BY <1>7, MarryParentsStep
<1>8. CASE Moralized
  BY <1>8, MoralizedStep
<1>9. CASE Gather
  BY <1>9, GatherStep
<1>10. CASE Gathered
  BY <1>10, GatheredStep
<1>11. CASE NextSlot
  BY <1>11, NextSlotStep
<1>12. CASE NotContained
  BY <1>12, NotContainedStep
<1>13. CASE ReMap
  BY <1>13, ReMapStep
<1>14. CASE Reduced
  BY <1>14, ReducedStep
<1>15. CASE UNCHANGED vars
  <2>1. UNCHANGED <<tables, o, imm, moral, cur, esc, i, j, pc>>
    BY <1>15 DEF vars
  <2>2. ToVisit' = ToVisit
    BY <2>1 DEF ToVisit
  <2>3. Whole' <=> Whole
    BY <2>1, Steady DEF Whole
  <2>4. Placed' <=> Placed
    BY <2>1, <2>2, <2>3, Steady DEF Placed
  <2>5. IInv'
    BY <2>1, <2>4, SlotsKept, Steady DEF IInv
  <2>6. UNCHANGED <<Arcs, AMoral, ASlots, AI, j, APc>>
    BY <2>1, Steady DEF AMoral, Undirected, ASlots, AI, APc, Early
  <2>7. AUnwed' = AUnwed
    BY <2>1, <2>2, Steady DEF AUnwed, Early
  <2> QED BY <2>5, <2>6, <2>7, Stuttering
<1> QED BY <1>1, <1>2, <1>3, <1>4, <1>5, <1>6, <1>7, <1>8, <1>9, <1>10, <1>11, <1>12, <1>13,
           <1>14, <1>15 DEF Next

\* Both graphs file every edge under both its ends and hold what the loops have
\* come to, the walk stands on a vertex of initialGraph or has ended, and a slot of
\* the collection is NULL or a bit vector with one bit set at least.
THEOREM Invariance == Spec => []IInv
<1>1. Init => IInv
  BY Initially
<1>2. IInv /\ [Next]_vars => IInv'
  BY Step
<1> QED BY <1>1, <1>2, PTL DEF Spec

\* The lists, label lookups and bit vectors with which JB_JunctionTree.c computes
\* elimination sets do what ElimSets says of sets, whatever the labels, their two
\* orderings, the networks and the number of bits in a char.
THEOREM Implementation == Spec => Implements
<1>1. Init => Abstract!Init
  BY Initially
<1>2. IInv /\ [Next]_vars => [Abstract!Next]_(Abstract!vars)
  BY Step
<1> QED BY <1>1, <1>2, Invariance, PTL DEF Spec, Implements

-----------------------------------------------------------------------------
(***************************************************************************)
(* What is proved of ElimSets, on the collection of bit vectors.           *)
(***************************************************************************)
EP == INSTANCE BuildElimTreeProofs WITH
  Dags  <- {d \in SUBSET (Rank \X Rank) : \A a \in Rank : <<a, a>> \notin d},
  dag   <- Arcs,
  moral <- AMoral,
  unwed <- AUnwed,
  slots <- ASlots,
  i     <- AI,
  pc    <- APc,
  next <- 0, rep <- <<>>, cand <- {}, edges <- {}, stage <- ""

LEMMA SameInit == Abstract!Init <=> EP!Init
BY DEF Abstract!Init, EP!Init, Abstract!Skeleton, EP!Skeleton, Abstract!Vertex, EP!Vertex,
       Abstract!NoSet, EP!NoSet, AMoral, AUnwed, ASlots, AI, APc, Undirected

LEMMA SameVars == Abstract!vars = EP!vars /\ (Abstract!vars)' = (EP!vars)'
BY DEF Abstract!vars, EP!vars, AMoral, AUnwed, ASlots, AI, APc, Undirected

LEMMA SameNext == Abstract!Next <=> EP!Next
BY DEF Abstract!Next, EP!Next, Abstract!Marry, EP!Marry, Abstract!Moralized, EP!Moralized,
       Abstract!Gather, EP!Gather, Abstract!Gathered, EP!Gathered, Abstract!NextSlot,
       EP!NextSlot, Abstract!NotContained, EP!NotContained, Abstract!ReMap, EP!ReMap,
       Abstract!Reduced, EP!Reduced, Abstract!Vertex, EP!Vertex, Abstract!NoSet, EP!NoSet,
       Abstract!Skeleton, EP!Skeleton, Abstract!ConnectAll, EP!ConnectAll, Abstract!Parents,
       EP!Parents, Abstract!Neighbors, EP!Neighbors, Abstract!ElimSetOf, EP!ElimSetOf,
       Abstract!VertexList, EP!VertexList, Abstract!Contained, EP!Contained, AMoral, AUnwed,
       ASlots, AI, APc, Undirected

\* A network with a variable meets what is assumed in ElimSets.
LEMMA Acyclic ==
  /\ {d \in SUBSET (Rank \X Rank) : \A a \in Rank : <<a, a>> \notin d}
       \subseteq SUBSET (EP!Vertex \X EP!Vertex)
  /\ \A d \in {d \in SUBSET (Rank \X Rank) : \A a \in Rank : <<a, a>> \notin d},
        a \in EP!Vertex : <<a, a>> \notin d
BY DEF EP!Vertex, Rank

LEMMA AbstractInvariant ==
  ASSUME N # 0
  PROVE  Spec => []EP!IInv
<1>1. N \in Nat \ {0}
  BY Counted
<1>2. EP!Init => EP!IInv
  BY <1>1, Acyclic, EP!InitInv
<1>3. EP!IInv /\ [EP!Next]_(EP!vars) => EP!IInv'
  BY <1>1, Acyclic, EP!StepInv
<1>4. Abstract!Init => EP!Init
  BY SameInit
<1>5. [Abstract!Next]_(Abstract!vars) => [EP!Next]_(EP!vars)
  BY SameNext, SameVars
<1> QED BY <1>2, <1>3, <1>4, <1>5, Implementation, PTL DEF Implements

\* The variables of a table: the scope of its potential.
Scope(t) == {t.tableFor} \cup ToSet(t.parents)

(***************************************************************************)
(* From the moment the sets are gathered some bit vector has a bit on for  *)
(* each variable of a table, also while RemoveNonCliques moves the vectors *)
(* about.                                                                  *)
(***************************************************************************)
TablesHeld ==
  pc \in {"reduce", "done"} =>
    \A x \in DOMAIN tables : \E k \in Rank :
      /\ esc[k] # NoSet
      /\ \A u \in Scope(tables[x]) : GetBit(esc[k], RankByLabel(vbls, u))

\* No set that is left is contained, as ElimSet_Contains says, in a later one.
NoneContained ==
  pc = "done" =>
    \A a, b \in Rank :
      a < b /\ esc[a] # NoSet /\ esc[b] # NoSet => ~ ElimSetContains(esc[b], esc[a])

LEMMA HeldByBits ==
  ASSUME IInv, EP!IInv
  PROVE  TablesHeld
<1>1. /\ Slots /\ tables \in Networks /\ Ordering(o) /\ Ordering(vbls)
      /\ DOMAIN tables = 1 .. Len(tables)
  BY Counted, TablesAre DEF IInv
<1>2. /\ \A u \in Name : RankOf(u) \in Rank
      /\ \A u, w \in Name : RankOf(u) = RankOf(w) => u = w
  BY <1>1, Ranks DEF RankOf
<1>3. EP!FamilyCovered /\ EP!Vertex = Rank
  BY DEF EP!IInv, EP!Vertex, Rank
<1> SUFFICES ASSUME pc \in {"reduce", "done"}, NEW x \in 1 .. Len(tables)
             PROVE  \E k \in Rank :
                      /\ esc[k] # NoSet
                      /\ \A u \in Scope(tables[x]) : GetBit(esc[k], RankByLabel(vbls, u))
  BY <1>1 DEF TablesHeld
<1> DEFINE t == tables[x]
           v == RankOf(t.tableFor)
<1>4. t.tableFor \in Name /\ t.parents \in Seq(Name)
  BY <1>1, TableIs
<1>5. Scope(t) \subseteq Name
  BY <1>4 DEF Scope, ToSet
<1>6. PICK k \in Rank : EP!Family(v) \subseteq ASlots[k]
  <2>1. APc \in {"reduce", "done"} /\ v \in Rank
    BY <1>2, <1>4 DEF APc, Early
  <2> QED BY <1>3, <2>1 DEF EP!FamilyCovered
<1>7. \A u \in Scope(t) : RankOf(u) \in ASlots[k]
  <2>1. v \in ASlots[k]
    BY <1>6 DEF EP!Family
  <2>2. ASSUME NEW u \in ToSet(t.parents)
        PROVE  RankOf(u) \in ASlots[k]
    <3>1. u \in Name
      BY <1>5, <2>2 DEF Scope
    <3> DEFINE e == <<u, t.tableFor>>
    <3>2. e \in Arc /\ e[1] = u /\ e[2] = t.tableFor
      BY <1>4, <3>1 DEF Arc
    <3>3. e \in ArcsOf(Len(tables))
      BY <2>2, <3>2 DEF ArcsOf
    <3> HIDE DEF e
    <3>4. <<RankOf(u), v>> \in Arcs
      <4>1. Arcs = {<<RankOf(f[1]), RankOf(f[2])>> : f \in ArcsOf(Len(tables))}
        BY <1>1, ArcsAre
      <4> QED BY <3>2, <3>3, <4>1
    <3>5. RankOf(u) \in EP!Family(v)
      BY <1>2, <1>3, <3>1, <3>4 DEF EP!Family, EP!Parents
    <3> QED BY <1>6, <3>5
  <2> QED BY <2>1, <2>2 DEF Scope
<1>8. /\ ASlots[k] = Members(esc[k]) /\ esc[k] # NoSet /\ esc[k] \in Full /\ N # 0
  <2>1. t.tableFor \in Scope(t)
    BY DEF Scope
  <2>2. ASlots[k] # {}
    BY <1>7, <2>1
  <2>3. ASlots[k] = Members(esc[k]) /\ esc[k] # NoSet
    BY <1>1, <2>2, SlotsCompare
  <2> QED BY <1>1, <2>2, <2>3, Counted DEF Slots, Rank
<1> HIDE DEF t
<1>9. ASSUME NEW u \in Scope(t)
      PROVE  GetBit(esc[k], RankByLabel(vbls, u))
  <2>1. u \in Name /\ RankOf(u) \in Members(esc[k])
    BY <1>5, <1>7, <1>8, <1>9
  <2>2. PICK n \in On(esc[k]) : RankOf(u) = RankOf(vbls[n + 1])
    <3>1. Members(esc[k]) = {RankOf(vbls[n + 1]) : n \in On(esc[k])}
      BY <1>1, <1>8, MembersAre
    <3> QED BY <2>1, <3>1
  <2>3. n \in Rank /\ GetBit(esc[k], n)
    BY <2>2 DEF On
  <2>4. vbls[n + 1] \in Name /\ RankByLabel(vbls, vbls[n + 1]) = n
    BY <1>1, <2>3, Ranks
  <2>5. u = vbls[n + 1]
    BY <1>2, <2>1, <2>2, <2>4
  <2> QED BY <2>3, <2>4, <2>5
<1> QED BY <1>8, <1>9 DEF t

LEMMA ApartInBits ==
  ASSUME IInv, EP!IInv
  PROVE  NoneContained
<1>1. Slots /\ Ordering(o) /\ N \in Nat
  BY Counted DEF IInv
<1> SUFFICES ASSUME pc = "done", NEW a \in Rank, NEW b \in Rank,
                    a < b, esc[a] # NoSet, esc[b] # NoSet
             PROVE  ~ ElimSetContains(esc[b], esc[a])
  BY DEF NoneContained
<1>2. APc = "done" /\ AI = i
  BY DEF APc, AI, Early
<1>3. EP!Vertex = Rank /\ EP!ScanInv /\ EP!IndexInv
  BY DEF EP!IInv, EP!Vertex, Rank
<1>4. AI = N
  BY <1>2, <1>3 DEF EP!IndexInv
<1>5. ASlots[a] # {} /\ a < AI
  BY <1>1, <1>4, SlotsCompare DEF Rank
<1>6. ~ EP!Contained(a, b)
  BY <1>2, <1>3, <1>5 DEF EP!ScanInv, EP!NoSet
<1>7. ~ AContained(a, b)
  BY <1>6 DEF EP!Contained, EP!NoSet, AContained
<1> QED BY <1>1, <1>7, SlotsCompare

\* Whatever the orderings and the padding, the bit vectors lose no CPT:
\* BNet_InitializePotentials, which looks for a clique with all of its variables,
\* comes to one.
THEOREM TablesKept == Spec => []TablesHeld
<1>1. CASE N = 0
  <2>1. IInv => TablesHeld
    <3>1. Name = {}
      BY <1>1, Counted, Ranks DEF Rank
    <3>2. tables \in Networks => DOMAIN tables = {}
      BY <3>1, TablesAre, TableIs
    <3> QED BY <3>2 DEF IInv, TablesHeld
  <2> QED BY <2>1, Invariance, PTL
<1>2. CASE N # 0
  <2>1. Spec => []EP!IInv
    BY <1>2, AbstractInvariant
  <2>2. IInv /\ EP!IInv => TablesHeld
    BY HeldByBits
  <2> QED BY <2>1, <2>2, Invariance, PTL
<1> QED BY <1>1, <1>2

\* The bit vectors RemoveNonCliques leaves are apart by the code's own comparison.
THEOREM NoneLeftContained == Spec => []NoneContained
<1>1. CASE N = 0
  <2>1. NoneContained
    BY <1>1 DEF NoneContained, Rank
  <2> QED BY <2>1, PTL
<1>2. CASE N # 0
  <2>1. Spec => []EP!IInv
    BY <1>2, AbstractInvariant
  <2>2. IInv /\ EP!IInv => NoneContained
    BY ApartInBits
  <2> QED BY <2>1, <2>2, Invariance, PTL
<1> QED BY <1>1, <1>2
=============================================================================
