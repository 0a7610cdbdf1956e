----------------------------- MODULE GraphProofs ----------------------------
(***************************************************************************)
(* Proofs about Graph, for any labels of which none begins another, any    *)
(* number of iterators and of edges.                                       *)
(***************************************************************************)
EXTENDS Graph, TLAPS

\* Two labels run together, as in the key of an edge, come apart in one way only.
LEMMA RunTogether ==
  \A u, v, x, y \in Name : SrcSink(<<u, v>>) = SrcSink(<<x, y>>) => u = x /\ v = y
<1> SUFFICES ASSUME NEW u \in Name, NEW v \in Name, NEW x \in Name, NEW y \in Name,
                    SrcSink(<<u, v>>) = SrcSink(<<x, y>>)
             PROVE  u = x /\ v = y
  OBVIOUS
<1>0. u \o v = x \o y
  BY DEF SrcSink
<1>1. /\ u \in Seq(STRING) /\ v \in Seq(STRING)
      /\ x \in Seq(STRING) /\ y \in Seq(STRING)
  BY NameAssumption
<1>2. /\ Len(u) \in Nat /\ Len(v) \in Nat /\ Len(x) \in Nat /\ Len(y) \in Nat
      /\ Len(u) + Len(v) = Len(x) + Len(y)
  BY <1>0, <1>1
<1>3. \A k \in 1 .. Len(u) : (u \o v)[k] = u[k]
  BY <1>1, <1>2
<1>4. \A k \in 1 .. Len(x) : (x \o y)[k] = x[k]
  BY <1>1, <1>2
<1>5. u = x
  <2>1. CASE Len(u) <= Len(x)
    BY <1>0, <1>2, <1>3, <1>4, <2>1, NameAssumption DEF PrefixFree, Begins
  <2>2. CASE Len(x) <= Len(u)
    BY <1>0, <1>2, <1>3, <1>4, <2>2, NameAssumption DEF PrefixFree, Begins
  <2> QED BY <1>2, <2>1, <2>2
<1>6. v = y
  <2>1. Len(v) = Len(y)
    BY <1>2, <1>5
  <2>2. \A k \in 1 .. Len(v) : (u \o v)[Len(u) + k] = v[k] /\ (x \o y)[Len(u) + k] = y[k]
    BY <1>1, <1>2, <1>5, <2>1
  <2>3. \A k \in 1 .. Len(v) : v[k] = y[k]
    BY <1>0, <2>2
  <2> QED BY <1>1, <2>1, <2>3
<1> QED BY <1>5, <1>6

\* No two edges have the same key.
LEMMA KeysDiffer ==
  ASSUME NEW e \in Arc, NEW f \in Arc, SrcSink(e) = SrcSink(f)
  PROVE  e = f
<1>1. PICK u \in Name, v \in Name : e = <<u, v>>
  BY DEF Arc
<1>2. PICK x \in Name, y \in Name : f = <<x, y>>
  BY DEF Arc
<1>3. u = x /\ v = y
  BY <1>1, <1>2, RunTogether
<1> QED BY <1>1, <1>2, <1>3

LEMMA ArcsAreNotNull == \A e \in Arc : e # NULL
BY DEF Arc, NULL

\* A map without repetition holds an edge at one place at most, the one under its key.
LEMMA PlaceOf ==
  ASSUME NEW s \in Seq(Arc), NEW e \in Arc, NoRepeat(s)
  PROVE  /\ Places(s, e) = {k \in DOMAIN s : s[k] = e}
         /\ \A k \in DOMAIN s : s[k] = e => Place(s, e) = k
         /\ Places(s, e) = {} <=> e \notin Listed(s)
<1>1. \A k \in DOMAIN s : s[k] \in Arc
  OBVIOUS
<1>2. Places(s, e) = {k \in DOMAIN s : s[k] = e}
  BY <1>1, KeysDiffer DEF Places
<1>3. ASSUME NEW k \in DOMAIN s, s[k] = e
      PROVE  Place(s, e) = k
  <2>1. Places(s, e) = {k}
    BY <1>2, <1>3 DEF NoRepeat
  <2>2. k \in Int
    OBVIOUS
  <2> QED BY <2>1, <2>2 DEF Place
<1> QED BY <1>2, <1>3 DEF Listed

LEMMA MapGetIs ==
  ASSUME NEW s \in Seq(Arc), NEW e \in Arc, NoRepeat(s)
  PROVE  MapGet(s, e) = IF e \in Listed(s) THEN e ELSE NULL
<1>1. CASE e \in Listed(s)
  <2>1. PICK k \in DOMAIN s : s[k] = e
    BY <1>1 DEF Listed
  <2>2. Places(s, e) # {} /\ Place(s, e) = k
    BY <1>1, <2>1, PlaceOf
  <2> QED BY <1>1, <2>1, <2>2 DEF MapGet
<1>2. CASE e \notin Listed(s)
  BY <1>2, PlaceOf DEF MapGet
<1> QED BY <1>1, <1>2

\* Adding at the front.
LEMMA Prepend ==
  ASSUME NEW S, NEW s \in Seq(S), NEW e \in S
  PROVE  /\ <<e>> \o s \in Seq(S)
         /\ Len(<<e>> \o s) = Len(s) + 1
         /\ (<<e>> \o s)[1] = e
         /\ \A k \in 1 .. Len(s) : (<<e>> \o s)[k + 1] = s[k]
         /\ Listed(<<e>> \o s) = Listed(s) \cup {e}
         /\ e \notin Listed(s) /\ NoRepeat(s) => NoRepeat(<<e>> \o s)
<1> DEFINE t == <<e>> \o s
<1>1. /\ t \in Seq(S) /\ Len(t) = Len(s) + 1 /\ Len(s) \in Nat
      /\ DOMAIN t = 1 .. Len(s) + 1 /\ DOMAIN s = 1 .. Len(s)
  OBVIOUS
<1>2. t[1] = e
  OBVIOUS
<1>3. \A k \in 1 .. Len(s) : t[k + 1] = s[k]
  OBVIOUS
<1>4. \A k \in 2 .. Len(s) + 1 : t[k] = s[k - 1] /\ k - 1 \in 1 .. Len(s)
  <2> TAKE k \in 2 .. Len(s) + 1
  <2>1. k - 1 \in 1 .. Len(s) /\ (k - 1) + 1 = k
    BY <1>1
  <2> QED BY <1>3, <2>1
<1> HIDE DEF t
<1>5. \A k \in DOMAIN t : k = 1 \/ k \in 2 .. Len(s) + 1
  BY <1>1
<1>6. Listed(t) = Listed(s) \cup {e}
  <2>1. \A k \in DOMAIN t : t[k] \in Listed(s) \cup {e}
    BY <1>1, <1>2, <1>4, <1>5 DEF Listed
  <2>2. \A k \in DOMAIN s : k + 1 \in DOMAIN t
    BY <1>1
  <2>3. \A k \in DOMAIN s : s[k] \in Listed(t)
    BY <1>1, <1>3, <2>2 DEF Listed
  <2>4. e \in Listed(t)
    BY <1>1, <1>2 DEF Listed
  <2> QED BY <2>1, <2>3, <2>4 DEF Listed
<1>7. ASSUME e \notin Listed(s), NoRepeat(s), NEW a \in DOMAIN t, NEW b \in DOMAIN t, t[a] = t[b]
      PROVE  a = b
  <2>1. \A k \in 2 .. Len(s) + 1 : t[k] # e
    BY <1>1, <1>4, <1>7 DEF Listed
  <2>2. CASE a = 1 \/ b = 1
    BY <1>2, <1>5, <1>7, <2>1, <2>2
  <2>3. CASE a \in 2 .. Len(s) + 1 /\ b \in 2 .. Len(s) + 1
    <3>1. a - 1 = b - 1
      BY <1>1, <1>4, <1>7, <2>3 DEF NoRepeat
    <3> QED BY <2>3, <3>1
  <2> QED BY <1>5, <1>7, <2>2, <2>3
<1> QED BY <1>1, <1>2, <1>3, <1>6, <1>7 DEF t, NoRepeat

-----------------------------------------------------------------------------
(***************************************************************************)
(* What a list keeps when it grows: everything an iterator or a walk that  *)
(* is under way will still come to.                                        *)
(***************************************************************************)
Grown(s, t) ==
  /\ Len(s) <= Len(t)
  /\ Listed(s) \subseteq Listed(t)
  /\ \A n \in 1 .. Len(s) : FromEnd(t, n) = FromEnd(s, n)
  /\ \A n \in 1 .. Len(s) + 1 : After(t, n) = After(s, n)
  /\ \A e \in Listed(s) : Behind(t, e) = Behind(s, e)

LEMMA GrownSelf == ASSUME NEW S, NEW s \in Seq(S) PROVE Grown(s, s)
BY DEF Grown

LEMMA GrownPrepend ==
  ASSUME NEW S, NEW s \in Seq(S), NEW e \in S, e \notin Listed(s)
  PROVE  Grown(s, <<e>> \o s)
<1> DEFINE t == <<e>> \o s
<1>1. /\ t \in Seq(S) /\ s \in Seq(S) /\ Len(t) = Len(s) + 1 /\ Len(s) \in Nat /\ t[1] = e
      /\ \A k \in 1 .. Len(s) : t[k + 1] = s[k]
      /\ Listed(t) = Listed(s) \cup {e}
  BY Prepend
<1>2. DOMAIN t = 1 .. Len(s) + 1 /\ DOMAIN s = 1 .. Len(s)
  BY <1>1
<1> HIDE DEF t
<1>3. \A k \in 2 .. Len(s) + 1 : k - 1 \in 1 .. Len(s) /\ t[k] = s[k - 1]
  <2> TAKE k \in 2 .. Len(s) + 1
  <2>1. k - 1 \in 1 .. Len(s) /\ (k - 1) + 1 = k
    BY <1>1
  <2> QED BY <1>1, <2>1
<1>4. ASSUME NEW n \in 1 .. Len(s) PROVE FromEnd(t, n) = FromEnd(s, n)
  <2>1. /\ Len(t) + 1 - n \in 2 .. Len(s) + 1
        /\ (Len(t) + 1 - n) - 1 = Len(s) + 1 - n
    BY <1>1
  <2> QED BY <1>3, <2>1 DEF FromEnd
<1>5. ASSUME NEW n \in 1 .. Len(s) + 1 PROVE After(t, n) = After(s, n)
  <2>1. \A k \in Len(t) + 2 - n .. Len(t) :
          k \in 2 .. Len(s) + 1 /\ k - 1 \in Len(s) + 2 - n .. Len(s)
    BY <1>1
  <2>2. \A k \in Len(s) + 2 - n .. Len(s) :
          k \in 1 .. Len(s) /\ k + 1 \in Len(t) + 2 - n .. Len(t)
    BY <1>1
  <2>3. \A k \in Len(t) + 2 - n .. Len(t) : t[k] \in After(s, n)
    BY <1>3, <2>1 DEF After
  <2>4. \A k \in Len(s) + 2 - n .. Len(s) : s[k] \in After(t, n)
    BY <1>1, <2>2 DEF After
  <2> QED BY <2>3, <2>4 DEF After
<1>6. ASSUME NEW f \in Listed(s) PROVE Behind(t, f) = Behind(s, f)
  <2>1. f # e
    BY <1>6
  <2>2. ASSUME NEW k \in DOMAIN t, NEW l \in DOMAIN t, l < k, t[l] = f
        PROVE  t[k] \in Behind(s, f)
    <3>1. l \in 2 .. Len(s) + 1 /\ k \in 2 .. Len(s) + 1
      BY <1>1, <1>2, <2>1, <2>2
    <3>2. k - 1 \in DOMAIN s /\ l - 1 \in DOMAIN s /\ l - 1 < k - 1 /\ s[l - 1] = f
      BY <1>2, <1>3, <2>2, <3>1
    <3> QED BY <1>3, <3>1, <3>2 DEF Behind
  <2>3. ASSUME NEW k \in DOMAIN s, NEW l \in DOMAIN s, l < k, s[l] = f
        PROVE  s[k] \in Behind(t, f)
    <3>1. /\ k + 1 \in DOMAIN t /\ l + 1 \in DOMAIN t /\ l + 1 < k + 1
          /\ t[l + 1] = f /\ t[k + 1] = s[k]
      BY <1>1, <1>2, <2>3
    <3> QED BY <3>1 DEF Behind
  <2> QED BY <2>2, <2>3 DEF Behind
<1>7. Len(s) <= Len(t) /\ Listed(s) \subseteq Listed(t)
  BY <1>1
<1> QED BY <1>4, <1>5, <1>6, <1>7 DEF Grown, t

-----------------------------------------------------------------------------
(***************************************************************************)
(* The invariant on graphs, and what adding to one does.                   *)
(***************************************************************************)
EndsIn(h) == \A e \in Listed(h.edges) : e[1] \in Listed(h.vertices) /\ e[2] \in Listed(h.vertices)

Good(h) == h \in Graphs /\ WellFiled(h) /\ EndsIn(h)

GrownGraph(h, k) ==
  /\ Grown(h.vertices, k.vertices)
  /\ Grown(h.edges, k.edges)
  /\ \A v \in Name : Grown(h.out[v], k.out[v]) /\ Grown(h.in[v], k.in[v])

LEMMA EmptyGood ==
  ASSUME NEW b \in BOOLEAN
  PROVE  Good(Empty(b)) /\ Listed(Empty(b).vertices) = {} /\ Listed(Empty(b).edges) = {}
<1>1. <<>> \in Seq(Name) /\ <<>> \in Seq(Arc) /\ Listed(<<>>) = {} /\ NoRepeat(<<>>)
  BY DEF Listed, NoRepeat
<1>2. Empty(b) \in Graphs
  BY <1>1 DEF Empty, Graphs
<1> QED BY <1>1, <1>2 DEF Good, WellFiled, EndsIn, Empty

LEMMA GrownGraphSelf == ASSUME NEW h \in Graphs PROVE GrownGraph(h, h)
BY GrownSelf DEF GrownGraph, Graphs

LEMMA VertexAdded ==
  ASSUME NEW h, Good(h), NEW v \in Name
  PROVE  /\ Good(WithVertex(h, v))
         /\ GrownGraph(h, WithVertex(h, v))
         /\ Listed(WithVertex(h, v).vertices) = Listed(h.vertices) \cup {v}
         /\ WithVertex(h, v).edges = h.edges
         /\ WithVertex(h, v).directed = h.directed
<1>1. h \in Graphs /\ h.vertices \in Seq(Name)
  BY DEF Good, Graphs
<1>2. HasVertex(h, v) <=> v \in Listed(h.vertices)
  BY DEF HasVertex, Listed
<1>3. CASE HasVertex(h, v)
  BY <1>1, <1>2, <1>3, GrownGraphSelf DEF WithVertex
<1>4. CASE ~ HasVertex(h, v)
  <2> DEFINE k == [h EXCEPT !.vertices = <<v>> \o h.vertices]
  <2>1. WithVertex(h, v) = k
    BY <1>4 DEF WithVertex
  <2>2. /\ k.vertices = <<v>> \o h.vertices /\ k.edges = h.edges /\ k.directed = h.directed
        /\ k.out = h.out /\ k.in = h.in
    BY <1>1 DEF Graphs
  <2>3. /\ k.vertices \in Seq(Name) /\ Listed(k.vertices) = Listed(h.vertices) \cup {v}
        /\ NoRepeat(k.vertices)
    BY <1>1, <1>2, <1>4, <2>2, Prepend DEF Good, WellFiled
  <2>4. Grown(h.vertices, k.vertices)
    BY <1>1, <1>2, <1>4, <2>2, GrownPrepend
  <2>5. k \in Graphs
    BY <1>1, <2>3 DEF Graphs
  <2> HIDE DEF k
  <2>6. WellFiled(k) /\ EndsIn(k)
    BY <2>2, <2>3 DEF Good, WellFiled, EndsIn
  <2>7. GrownGraph(h, k)
    BY <1>1, <2>2, <2>4, GrownGraphSelf DEF GrownGraph
  <2> QED BY <2>1, <2>2, <2>3, <2>5, <2>6, <2>7 DEF Good
<1> QED BY <1>3, <1>4

LEMMA GetEdgeIs ==
  ASSUME NEW h, Good(h), NEW u \in Name, NEW v \in Name
  PROVE  GetEdge(h, u, v) = IF <<u, v>> \in Listed(h.edges) THEN <<u, v>> ELSE NULL
<1>1. h.edges \in Seq(Arc) /\ NoRepeat(h.edges) /\ <<u, v>> \in Arc
  BY DEF Good, Graphs, WellFiled, Arc
<1> QED BY <1>1, MapGetIs DEF GetEdge

\* Adding to a map an edge it does not hold.
LEMMA MapAdded ==
  ASSUME NEW s \in Seq(Arc), NEW e \in Arc, NoRepeat(s), e \notin Listed(s)
  PROVE  /\ MapAdd(s, e) \in Seq(Arc)
         /\ NoRepeat(MapAdd(s, e))
         /\ Listed(MapAdd(s, e)) = Listed(s) \cup {e}
         /\ Grown(s, MapAdd(s, e))
<1>1. MapAdd(s, e) = <<e>> \o s
  BY PlaceOf DEF MapAdd
<1>2. Grown(s, <<e>> \o s)
  BY GrownPrepend
<1>3. /\ <<e>> \o s \in Seq(Arc) /\ NoRepeat(<<e>> \o s)
      /\ Listed(<<e>> \o s) = Listed(s) \cup {e}
  BY Prepend
<1> QED BY <1>1, <1>2, <1>3

LEMMA EdgeAdded ==
  ASSUME NEW h, Good(h), NEW u \in Listed(h.vertices), NEW v \in Listed(h.vertices)
  PROVE  /\ Good(WithEdge(h, u, v))
         /\ GrownGraph(h, WithEdge(h, u, v))
         /\ Listed(WithEdge(h, u, v).edges) = Listed(h.edges) \cup {<<u, v>>}
         /\ WithEdge(h, u, v).vertices = h.vertices
         /\ WithEdge(h, u, v).directed = h.directed
<1> DEFINE e == <<u, v>>
<1>1. /\ h \in Graphs /\ h.vertices \in Seq(Name) /\ h.edges \in Seq(Arc)
      /\ h.out \in [Name -> Seq(Arc)] /\ h.in \in [Name -> Seq(Arc)]
  BY DEF Good, Graphs
<1>2. u \in Name /\ v \in Name
  BY <1>1 DEF Listed
<1>3. e \in Arc /\ e[1] = u /\ e[2] = v
  BY <1>2 DEF Arc
<1>4. GetEdge(h, u, v) = IF e \in Listed(h.edges) THEN e ELSE NULL
  BY <1>2, GetEdgeIs
<1> HIDE DEF e
<1>5. CASE e \in Listed(h.edges)
  <2>1. WithEdge(h, u, v) = h
    BY <1>3, <1>4, <1>5, ArcsAreNotNull DEF WithEdge
  <2>2. Listed(h.edges) = Listed(h.edges) \cup {e}
    BY <1>5
  <2> QED BY <1>1, <2>1, <2>2, GrownGraphSelf DEF e
<1>6. CASE e \notin Listed(h.edges)
  <2> DEFINE k == [h EXCEPT !.edges  = MapAdd(h.edges, e),
                            !.out[u] = MapAdd(h.out[u], e),
                            !.in[v]  = MapAdd(h.in[v], e)]
  <2>1. WithEdge(h, u, v) = k
    BY <1>4, <1>6 DEF WithEdge, e
  <2>2. /\ k.vertices = h.vertices /\ k.directed = h.directed /\ k.edges = MapAdd(h.edges, e)
        /\ k.out = [h.out EXCEPT ![u] = MapAdd(h.out[u], e)]
        /\ k.in = [h.in EXCEPT ![v] = MapAdd(h.in[v], e)]
    BY <1>1 DEF Graphs
  <2>3. NoRepeat(h.edges) /\ \A w \in Name : NoRepeat(h.out[w]) /\ NoRepeat(h.in[w])
    BY DEF Good, WellFiled
  <2>4. /\ MapAdd(h.edges, e) \in Seq(Arc) /\ NoRepeat(MapAdd(h.edges, e))
        /\ Listed(MapAdd(h.edges, e)) = Listed(h.edges) \cup {e}
        /\ Grown(h.edges, MapAdd(h.edges, e))
    BY <1>1, <1>3, <1>6, <2>3, MapAdded
  <2>5. e \notin Listed(h.out[u])
    BY <1>2, <1>6 DEF Good, WellFiled
  <2>6. /\ MapAdd(h.out[u], e) \in Seq(Arc) /\ NoRepeat(MapAdd(h.out[u], e))
        /\ Listed(MapAdd(h.out[u], e)) = Listed(h.out[u]) \cup {e}
        /\ Grown(h.out[u], MapAdd(h.out[u], e))
    BY <1>1, <1>2, <1>3, <2>3, <2>5, MapAdded
  <2>7. e \notin Listed(h.in[v])
    BY <1>2, <1>6 DEF Good, WellFiled
  <2>8. /\ MapAdd(h.in[v], e) \in Seq(Arc) /\ NoRepeat(MapAdd(h.in[v], e))
        /\ Listed(MapAdd(h.in[v], e)) = Listed(h.in[v]) \cup {e}
        /\ Grown(h.in[v], MapAdd(h.in[v], e))
    BY <1>1, <1>2, <1>3, <2>3, <2>7, MapAdded
  <2>9. k \in Graphs
    BY <1>1, <1>2, <2>4, <2>6, <2>8 DEF Graphs
  <2> HIDE DEF k
  <2>10. ASSUME NEW w \in Name
         PROVE  /\ NoRepeat(k.out[w]) /\ Listed(k.out[w]) = {f \in Listed(k.edges) : f[1] = w}
                /\ Grown(h.out[w], k.out[w])
    <3>1. CASE w = u
      <4>1. k.out[w] = MapAdd(h.out[u], e)
        BY <1>1, <1>2, <2>2, <3>1
      <4>2. Listed(h.out[w]) = {f \in Listed(h.edges) : f[1] = w}
        BY DEF Good, WellFiled
      <4> QED BY <1>3, <2>2, <2>4, <2>6, <3>1, <4>1, <4>2
    <3>2. CASE w # u
      <4>1. k.out[w] = h.out[w] /\ h.out[w] \in Seq(Arc)
        BY <1>1, <2>2, <3>2
      <4>2. Listed(h.out[w]) = {f \in Listed(h.edges) : f[1] = w}
        BY DEF Good, WellFiled
      <4>3. Grown(h.out[w], h.out[w])
        BY <4>1, GrownSelf
      <4> QED BY <1>3, <2>2, <2>3, <2>4, <3>2, <4>1, <4>2, <4>3
    <3> QED BY <3>1, <3>2
  <2>11. ASSUME NEW w \in Name
         PROVE  /\ NoRepeat(k.in[w]) /\ Listed(k.in[w]) = {f \in Listed(k.edges) : f[2] = w}
                /\ Grown(h.in[w], k.in[w])
    <3>1. CASE w = v
      <4>1. k.in[w] = MapAdd(h.in[v], e)
        BY <1>1, <1>2, <2>2, <3>1
      <4>2. Listed(h.in[w]) = {f \in Listed(h.edges) : f[2] = w}
        BY DEF Good, WellFiled
      <4> QED BY <1>3, <2>2, <2>4, <2>8, <3>1, <4>1, <4>2
    <3>2. CASE w # v
      <4>1. k.in[w] = h.in[w] /\ h.in[w] \in Seq(Arc)
        BY <1>1, <2>2, <3>2
      <4>2. Listed(h.in[w]) = {f \in Listed(h.edges) : f[2] = w}
        BY DEF Good, WellFiled
      <4>3. Grown(h.in[w], h.in[w])
        BY <4>1, GrownSelf
      <4> QED BY <1>3, <2>2, <2>3, <2>4, <3>2, <4>1, <4>2, <4>3
    <3> QED BY <3>1, <3>2
  <2>12. WellFiled(k)
    BY <2>2, <2>4, <2>10, <2>11 DEF Good, WellFiled
  <2>13. EndsIn(k)
    BY <1>3, <2>2, <2>4 DEF Good, EndsIn
  <2>14. Grown(h.vertices, k.vertices)
    BY <1>1, <2>2, GrownSelf
  <2>15. GrownGraph(h, k)
    BY <2>2, <2>4, <2>10, <2>11, <2>14 DEF GrownGraph
  <2> QED BY <2>1, <2>2, <2>4, <2>9, <2>12, <2>13, <2>15 DEF Good, e
<1> QED BY <1>5, <1>6

-----------------------------------------------------------------------------
(***************************************************************************)
(* Iterators.  A walk goes on from an element of the list it runs along.   *)
(***************************************************************************)
OnList(h, x) ==
  /\ x.kind = "Edge" /\ x.last # NULL => x.last \in Listed(h.edges)
  /\ x.kind = "Parent" /\ x.last # NULL => <<x.last, x.of>> \in Listed(h.in[x.of])
  /\ x.kind = "Child" /\ x.last # NULL => <<x.of, x.last>> \in Listed(h.out[x.of])

GoodItr(h, x) == ItrOK(h, x) /\ OnList(h, x)

LEMMA ItrKinds ==
  ASSUME NEW h, NEW x, ItrOK(h, x)
  PROVE  /\ x.kind \in {"unused", "VertexItr", "EdgeItr", "NeighborItr",
                         "Vertex", "Edge", "Parent", "Child"}
         /\ x.kind = "unused" => x = Unused
         /\ x.kind = "VertexItr" => x \in [kind : {"VertexItr"}, current : 0 .. Len(h.vertices)]
         /\ x.kind = "EdgeItr" => x \in [kind : {"EdgeItr"}, current : 0 .. Len(h.edges)]
         /\ x.kind = "NeighborItr" =>
              /\ x \in [kind : {"NeighborItr"}, home : Listed(h.vertices),
                         curIn : Nat, curOut : Nat]
              /\ x.curIn <= Len(h.in[x.home]) /\ x.curOut <= Len(h.out[x.home])
         /\ x.kind = "Vertex" =>
              x \in [kind : {"Vertex"}, of : {NULL}, last : Listed(h.vertices) \cup {NULL}]
         /\ x.kind = "Edge" => x \in [kind : {"Edge"}, of : {NULL}, last : Arc \cup {NULL}]
         /\ x.kind \in {"Parent", "Child"} =>
              x \in [kind : {"Parent", "Child"}, of : Listed(h.vertices),
                     last : Listed(h.vertices) \cup {NULL}]
BY DEF ItrOK, Unused

LEMMA AlongKept ==
  ASSUME NEW S, NEW s \in Seq(S), NEW t, Grown(s, t), NEW n \in 0 .. Len(s)
  PROVE  Along(t, n) = Along(s, n)
<1>1. CASE n = 0
  BY <1>1 DEF Along
<1>2. CASE n > 0
  BY <1>2 DEF Along, Grown
<1> QED BY <1>1, <1>2

LEMMA AroundKept ==
  ASSUME NEW S, NEW a \in Seq(S), NEW b \in Seq(S), NEW c, NEW d, Grown(a, c), Grown(b, d),
         NEW m \in 0 .. Len(a), NEW n \in 0 .. Len(b)
  PROVE  Around(c, d, m, n) = Around(a, b, m, n)
<1>1. n + 1 \in 1 .. Len(b) + 1 /\ (m > 0 => m \in 1 .. Len(a)) /\ (n > 0 => n \in 1 .. Len(b))
  OBVIOUS
<1>2. After(d, n + 1) = After(b, n + 1)
  BY <1>1 DEF Grown
<1>3. m > 0 => FromEnd(c, m) = FromEnd(a, m) /\ After(c, m) = After(a, m)
  BY <1>1 DEF Grown
<1>4. n > 0 => FromEnd(d, n) = FromEnd(b, n) /\ After(d, n) = After(b, n)
  BY <1>1 DEF Grown
<1> QED BY <1>2, <1>3, <1>4 DEF Around

\* Adding to a graph disturbs no iterator and no walk.
LEMMA ItrKept ==
  ASSUME NEW h, NEW k, Good(h), GrownGraph(h, k), NEW x, GoodItr(h, x)
  PROVE  GoodItr(k, x) /\ Visit(k, x) = Visit(h, x)
<1>1. /\ h.vertices \in Seq(Name) /\ h.edges \in Seq(Arc)
      /\ h.out \in [Name -> Seq(Arc)] /\ h.in \in [Name -> Seq(Arc)]
      /\ Listed(h.vertices) \subseteq Name
  BY DEF Good, Graphs, Listed
<1>2. /\ Grown(h.vertices, k.vertices) /\ Grown(h.edges, k.edges)
      /\ \A v \in Name : Grown(h.out[v], k.out[v]) /\ Grown(h.in[v], k.in[v])
  BY DEF GrownGraph
<1>3. /\ Len(h.vertices) <= Len(k.vertices) /\ Listed(h.vertices) \subseteq Listed(k.vertices)
      /\ Len(h.edges) <= Len(k.edges) /\ Listed(h.edges) \subseteq Listed(k.edges)
      /\ \A v \in Name : /\ Len(h.out[v]) <= Len(k.out[v]) /\ Len(h.in[v]) <= Len(k.in[v])
                         /\ Listed(h.out[v]) \subseteq Listed(k.out[v])
                         /\ Listed(h.in[v]) \subseteq Listed(k.in[v])
  BY <1>2 DEF Grown
<1>4. ItrOK(h, x) /\ OnList(h, x)
  BY DEF GoodItr
<1>5. CASE x.kind = "unused"
  BY <1>4, <1>5, ItrKinds DEF GoodItr, ItrOK, OnList, Visit, Seen, Unused
<1>6. CASE x.kind = "VertexItr"
  <2>1. x \in [kind : {"VertexItr"}, current : 0 .. Len(h.vertices)]
    BY <1>4, <1>6, ItrKinds
  <2>2. Along(k.vertices, x.current) = Along(h.vertices, x.current)
    BY <1>1, <1>2, <2>1, AlongKept
  <2>3. x \in [kind : {"VertexItr"}, current : 0 .. Len(k.vertices)]
    BY <1>1, <1>3, <2>1 DEF Grown
  <2> QED BY <1>6, <2>2, <2>3 DEF GoodItr, ItrOK, OnList, Visit, Seen
<1>7. CASE x.kind = "EdgeItr"
  <2>1. x \in [kind : {"EdgeItr"}, current : 0 .. Len(h.edges)]
    BY <1>4, <1>7, ItrKinds
  <2>2. Along(k.edges, x.current) = Along(h.edges, x.current)
    BY <1>1, <1>2, <2>1, AlongKept
  <2>3. x \in [kind : {"EdgeItr"}, current : 0 .. Len(k.edges)]
    BY <1>1, <1>3, <2>1
  <2> QED BY <1>7, <2>2, <2>3 DEF GoodItr, ItrOK, OnList, Visit, Seen
<1>8. CASE x.kind = "NeighborItr"
  <2>1. /\ x \in [kind : {"NeighborItr"}, home : Listed(h.vertices), curIn : Nat, curOut : Nat]
        /\ x.curIn <= Len(h.in[x.home]) /\ x.curOut <= Len(h.out[x.home])
    BY <1>4, <1>8, ItrKinds
  <2>2. x.home \in Name /\ h.in[x.home] \in Seq(Arc) /\ h.out[x.home] \in Seq(Arc)
    BY <1>1, <2>1
  <2>3. x.curIn \in 0 .. Len(h.in[x.home]) /\ x.curOut \in 0 .. Len(h.out[x.home])
    BY <2>1, <2>2
  <2>4. Grown(h.in[x.home], k.in[x.home]) /\ Grown(h.out[x.home], k.out[x.home])
    BY <1>2, <2>2
  <2>5. Around(k.in[x.home], k.out[x.home], x.curIn, x.curOut)
          = Around(h.in[x.home], h.out[x.home], x.curIn, x.curOut)
    BY <2>2, <2>3, <2>4, AroundKept
  <2>6. /\ x \in [kind : {"NeighborItr"}, home : Listed(k.vertices), curIn : Nat, curOut : Nat]
        /\ x.curIn <= Len(k.in[x.home]) /\ x.curOut <= Len(k.out[x.home])
    <3>1. Len(h.in[x.home]) \in Nat /\ Len(h.out[x.home]) \in Nat
      BY <2>2
    <3>2. Len(h.in[x.home]) <= Len(k.in[x.home]) /\ Len(h.out[x.home]) <= Len(k.out[x.home])
      BY <1>3, <2>2
    <3> QED BY <1>3, <2>1, <3>1, <3>2
  <2> QED BY <1>8, <2>5, <2>6 DEF GoodItr, ItrOK, OnList, Visit, Seen
<1>9. CASE x.kind = "Vertex"
  <2>1. x \in [kind : {"Vertex"}, of : {NULL}, last : Listed(h.vertices) \cup {NULL}]
    BY <1>4, <1>9, ItrKinds
  <2>2. Walked(k.vertices, x.last, x.last) = Walked(h.vertices, x.last, x.last)
    BY <1>2, <2>1 DEF Walked, Grown
  <2>3. x \in [kind : {"Vertex"}, of : {NULL}, last : Listed(k.vertices) \cup {NULL}]
    BY <1>3, <2>1
  <2> QED BY <1>9, <2>2, <2>3 DEF GoodItr, ItrOK, OnList, Visit, Seen
<1>10. CASE x.kind = "Edge"
  <2>1. x \in [kind : {"Edge"}, of : {NULL}, last : Arc \cup {NULL}]
    BY <1>4, <1>10, ItrKinds
  <2>2. x.last # NULL => x.last \in Listed(h.edges)
    BY <1>4, <1>10 DEF OnList
  <2>3. Walked(k.edges, x.last, x.last) = Walked(h.edges, x.last, x.last)
    BY <1>2, <2>2 DEF Walked, Grown
  <2> QED BY <1>3, <1>10, <2>1, <2>2, <2>3 DEF GoodItr, ItrOK, OnList, Visit, Seen
<1>11. CASE x.kind \in {"Parent", "Child"}
  <2>1. x \in [kind : {"Parent", "Child"}, of : Listed(h.vertices),
               last : Listed(h.vertices) \cup {NULL}]
    BY <1>4, <1>11, ItrKinds
  <2>2. x.of \in Name
    BY <1>1, <2>1
  <2>3. x \in [kind : {"Parent", "Child"}, of : Listed(k.vertices),
               last : Listed(k.vertices) \cup {NULL}]
    BY <1>3, <2>1
  <2>4. ItrOK(k, x)
    BY <2>3 DEF ItrOK
  <2>5. CASE x.kind = "Parent"
    <3>1. x.last # NULL => <<x.last, x.of>> \in Listed(h.in[x.of])
      BY <1>4, <2>5 DEF OnList
    <3>2. Walked(k.in[x.of], x.last, <<x.last, x.of>>) = Walked(h.in[x.of], x.last, <<x.last, x.of>>)
      BY <1>2, <2>2, <3>1 DEF Walked, Grown
    <3> QED BY <1>3, <2>2, <2>4, <2>5, <3>1, <3>2 DEF GoodItr, OnList, Visit, Seen
  <2>6. CASE x.kind = "Child"
    <3>1. x.last # NULL => <<x.of, x.last>> \in Listed(h.out[x.of])
      BY <1>4, <2>6 DEF OnList
    <3>2. Walked(k.out[x.of], x.last, <<x.of, x.last>>) = Walked(h.out[x.of], x.last, <<x.of, x.last>>)
      BY <1>2, <2>2, <3>1 DEF Walked, Grown
    <3> QED BY <1>3, <2>2, <2>4, <2>6, <3>1, <3>2 DEF GoodItr, OnList, Visit, Seen
  <2> QED BY <1>11, <2>5, <2>6
<1> QED BY <1>4, <1>5, <1>6, <1>7, <1>8, <1>9, <1>10, <1>11, ItrKinds

-----------------------------------------------------------------------------
(***************************************************************************)
(* An iterator that moves to the next element of its list makes a turn of  *)
(* the abstract visit.                                                     *)
(***************************************************************************)
LEMMA AfterSteps ==
  ASSUME NEW S, NEW s \in Seq(S), NoRepeat(s)
  PROVE  /\ After(s, 1) = {}
         /\ After(s, Len(s) + 1) = Listed(s)
         /\ \A n \in 1 .. Len(s) : /\ FromEnd(s, n) \in After(s, n + 1)
                                  /\ After(s, n) = After(s, n + 1) \ {FromEnd(s, n)}
<1>1. DOMAIN s = 1 .. Len(s) /\ Len(s) \in Nat
  OBVIOUS
<1>2. After(s, 1) = {} /\ After(s, Len(s) + 1) = Listed(s)
  BY <1>1 DEF After, Listed
<1>3. ASSUME NEW n \in 1 .. Len(s)
      PROVE  /\ FromEnd(s, n) \in After(s, n + 1)
             /\ After(s, n) = After(s, n + 1) \ {FromEnd(s, n)}
  <2> DEFINE p == Len(s) + 1 - n
  <2>1. /\ p \in DOMAIN s /\ Len(s) + 2 - n = p + 1 /\ Len(s) + 2 - (n + 1) = p
        /\ FromEnd(s, n) = s[p]
    BY <1>1 DEF FromEnd
  <2>2. After(s, n) = {s[k] : k \in p + 1 .. Len(s)}
    BY <2>1 DEF After
  <2>3. After(s, n + 1) = {s[k] : k \in p .. Len(s)}
    BY <2>1 DEF After
  <2> HIDE DEF p
  <2>4. \A k \in p + 1 .. Len(s) : k \in p .. Len(s) /\ s[k] # s[p]
    BY <1>1, <2>1 DEF NoRepeat
  <2>5. \A k \in p .. Len(s) : k = p \/ k \in p + 1 .. Len(s)
    BY <1>1, <2>1
  <2>6. p \in p .. Len(s)
    BY <1>1, <2>1
  <2> QED BY <2>1, <2>2, <2>3, <2>4, <2>5, <2>6
<1> QED BY <1>2, <1>3

LEMMA Turn ==
  ASSUME NEW kind, NEW T, NEW x \in T
  PROVE  [kind |-> kind, at |-> x, todo |-> T \ {x}] \in Abstract!Turns(kind, T)
BY DEF Abstract!Turns

LEMMA LastTurn ==
  ASSUME NEW kind
  PROVE  [kind |-> kind, at |-> NULL, todo |-> {}] \in Abstract!Turns(kind, {})
BY DEF Abstract!Turns, Abstract!Over, NULL

LEMMA AlongTurns ==
  ASSUME NEW S, NEW s \in Seq(S), NoRepeat(s), NEW n \in 0 .. Len(s), NEW kind
  PROVE  [kind |-> kind, at |-> Along(s, n).at, todo |-> Along(s, n).todo]
           \in Abstract!Turns(kind, After(s, n + 1))
<1>1. CASE n = 0
  <2>1. After(s, n + 1) = {}
    BY <1>1, AfterSteps
  <2>2. Along(s, n).at = NULL /\ Along(s, n).todo = {}
    BY <1>1 DEF Along, Over
  <2> QED BY <2>1, <2>2, LastTurn
<1>2. CASE n \in 1 .. Len(s)
  <2>1. FromEnd(s, n) \in After(s, n + 1) /\ After(s, n) = After(s, n + 1) \ {FromEnd(s, n)}
    BY <1>2, AfterSteps
  <2>2. Along(s, n).at = FromEnd(s, n) /\ Along(s, n).todo = After(s, n)
    BY <1>2 DEF Along
  <2> QED BY <2>1, <2>2, Turn
<1> QED BY <1>1, <1>2

\* What a NeighborItr at its m-th last in-edge and its n-th last out-edge sees.
Rest(a, b, m, n) == ({"in"} \X After(a, m + 1)) \cup ({"out"} \X After(b, n + 1))

LEMMA AroundTurns ==
  ASSUME NEW S, NEW a \in Seq(S), NEW b \in Seq(S), NoRepeat(a), NoRepeat(b),
         NEW m \in 0 .. Len(a), NEW n \in 0 .. Len(b)
  PROVE  /\ [kind |-> "neighbors", at |-> Around(a, b, m, n).at,
              todo |-> Around(a, b, m, n).todo]
               \in Abstract!Turns("neighbors", Rest(a, b, m, n))
         /\ m > 0 => Around(a, b, m, n).todo = Rest(a, b, m - 1, n)
         /\ m = 0 /\ n > 0 => Around(a, b, m, n).todo = Rest(a, b, 0, n - 1)
<1>1. After(a, 1) = {} /\ After(b, 1) = {}
  BY AfterSteps
<1>2. CASE m > 0
  <2>1. m \in 1 .. Len(a)
    BY <1>2
  <2>2. FromEnd(a, m) \in After(a, m + 1) /\ After(a, m) = After(a, m + 1) \ {FromEnd(a, m)}
    BY <2>1, AfterSteps
  <2>3. /\ Around(a, b, m, n).at = <<"in", FromEnd(a, m)>>
        /\ Around(a, b, m, n).todo = ({"in"} \X After(a, m)) \cup ({"out"} \X After(b, n + 1))
    BY <1>2 DEF Around
  <2>4. <<"in", FromEnd(a, m)>> \in Rest(a, b, m, n)
    BY <2>2 DEF Rest
  <2>5. Around(a, b, m, n).todo = Rest(a, b, m, n) \ {<<"in", FromEnd(a, m)>>}
    BY <2>2, <2>3 DEF Rest
  <2>6. Rest(a, b, m - 1, n) = Around(a, b, m, n).todo
    <3>1. (m - 1) + 1 = m
      BY <2>1
    <3> QED BY <2>3, <3>1 DEF Rest
  <2>7. [kind |-> "neighbors", at |-> Around(a, b, m, n).at, todo |-> Around(a, b, m, n).todo]
          \in Abstract!Turns("neighbors", Rest(a, b, m, n))
    BY <2>3, <2>4, <2>5, Turn
  <2> QED BY <1>2, <2>6, <2>7
<1>3. CASE m = 0 /\ n > 0
  <2>1. n \in 1 .. Len(b)
    BY <1>3
  <2>2. FromEnd(b, n) \in After(b, n + 1) /\ After(b, n) = After(b, n + 1) \ {FromEnd(b, n)}
    BY <2>1, AfterSteps
  <2>3. /\ Around(a, b, m, n).at = <<"out", FromEnd(b, n)>>
        /\ Around(a, b, m, n).todo = {"out"} \X After(b, n)
    BY <1>3 DEF Around
  <2>4. Rest(a, b, m, n) = {"out"} \X After(b, n + 1) /\ Rest(a, b, 0, n - 1) = {"out"} \X After(b, n)
    <3>1. (n - 1) + 1 = n /\ 0 + 1 = 1 /\ m + 1 = 1
      BY <1>3, <2>1
    <3> QED BY <1>1, <3>1 DEF Rest
  <2>5. <<"out", FromEnd(b, n)>> \in Rest(a, b, m, n)
    BY <2>2, <2>4
  <2>6. Around(a, b, m, n).todo = Rest(a, b, m, n) \ {<<"out", FromEnd(b, n)>>}
    BY <2>2, <2>3, <2>4
  <2>7. [kind |-> "neighbors", at |-> Around(a, b, m, n).at, todo |-> Around(a, b, m, n).todo]
          \in Abstract!Turns("neighbors", Rest(a, b, m, n))
    BY <2>3, <2>5, <2>6, Turn
  <2>8. ~ (m > 0)
    BY <1>3
  <2>9. Around(a, b, m, n).todo = Rest(a, b, 0, n - 1)
    BY <2>3, <2>4, Zenon
  <2> QED BY <2>7, <2>8, <2>9, Zenon
<1>4. CASE m = 0 /\ n = 0
  <2>1. Rest(a, b, m, n) = {}
    BY <1>1, <1>4 DEF Rest
  <2>2. Around(a, b, m, n).at = NULL /\ Around(a, b, m, n).todo = {}
    BY <1>4 DEF Around, Over
  <2>3. [kind |-> "neighbors", at |-> Around(a, b, m, n).at, todo |-> Around(a, b, m, n).todo]
          \in Abstract!Turns("neighbors", Rest(a, b, m, n))
    BY <2>1, <2>2, LastTurn
  <2>4. ~ (m > 0) /\ ~ (n > 0)
    BY <1>4
  <2> QED BY <2>3, <2>4, Zenon
<1> QED BY <1>2, <1>3, <1>4

\* The places of a list, walked from front to end.
LEMMA BehindSteps ==
  ASSUME NEW S, NEW s \in Seq(S), NoRepeat(s)
  PROVE  /\ s # <<>> => 1 \in DOMAIN s /\ Behind(s, s[1]) = Listed(s) \ {s[1]}
         /\ s = <<>> => Listed(s) = {}
         /\ \A k \in DOMAIN s :
              IF k = Len(s) THEN Behind(s, s[k]) = {}
              ELSE /\ k + 1 \in DOMAIN s
                   /\ s[k + 1] \in Behind(s, s[k])
                   /\ Behind(s, s[k + 1]) = Behind(s, s[k]) \ {s[k + 1]}
<1>1. DOMAIN s = 1 .. Len(s) /\ Len(s) \in Nat /\ (s = <<>> <=> Len(s) = 0)
  OBVIOUS
<1>2. ASSUME NEW k \in DOMAIN s
      PROVE  Behind(s, s[k]) = {s[l] : l \in k + 1 .. Len(s)}
  <2>1. \A m \in DOMAIN s : (\E l \in DOMAIN s : l < m /\ s[l] = s[k]) <=> m \in k + 1 .. Len(s)
    BY <1>1, <1>2 DEF NoRepeat
  <2>2. \A m \in k + 1 .. Len(s) : m \in DOMAIN s
    BY <1>1, <1>2
  <2> QED BY <2>1, <2>2 DEF Behind
<1>3. ASSUME s # <<>>
      PROVE  1 \in DOMAIN s /\ Behind(s, s[1]) = Listed(s) \ {s[1]}
  <2>1. 1 \in DOMAIN s
    BY <1>1, <1>3
  <2>2. Behind(s, s[1]) = {s[l] : l \in 2 .. Len(s)}
    BY <1>2, <2>1
  <2>3. \A l \in 2 .. Len(s) : l \in DOMAIN s /\ s[l] # s[1]
    BY <1>1, <2>1 DEF NoRepeat
  <2>4. \A l \in DOMAIN s : l = 1 \/ l \in 2 .. Len(s)
    BY <1>1
  <2> QED BY <2>1, <2>2, <2>3, <2>4 DEF Listed
<1>4. ASSUME NEW k \in DOMAIN s, k # Len(s)
      PROVE  /\ k + 1 \in DOMAIN s /\ s[k + 1] \in Behind(s, s[k])
             /\ Behind(s, s[k + 1]) = Behind(s, s[k]) \ {s[k + 1]}
  <2>1. k + 1 \in DOMAIN s /\ k + 1 \in k + 1 .. Len(s)
    BY <1>1, <1>4
  <2>2. /\ Behind(s, s[k]) = {s[l] : l \in k + 1 .. Len(s)}
        /\ Behind(s, s[k + 1]) = {s[l] : l \in (k + 1) + 1 .. Len(s)}
    BY <1>2, <2>1
  <2>3. \A l \in (k + 1) + 1 .. Len(s) : l \in k + 1 .. Len(s) /\ l \in DOMAIN s /\ s[l] # s[k + 1]
    BY <1>1, <2>1 DEF NoRepeat
  <2>4. \A l \in k + 1 .. Len(s) : l = k + 1 \/ l \in (k + 1) + 1 .. Len(s)
    BY <1>1, <2>1
  <2> QED BY <2>1, <2>2, <2>3, <2>4
<1>5. ASSUME NEW k \in DOMAIN s, k = Len(s) PROVE Behind(s, s[k]) = {}
  BY <1>1, <1>2, <1>5
<1> QED BY <1>1, <1>3, <1>4, <1>5 DEF Listed

LEMMA FirstOfIs ==
  ASSUME NEW S, NEW s \in Seq(S), NoRepeat(s)
  PROVE  \/ FirstOf(s) = NULL /\ Listed(s) = {}
         \/ FirstOf(s) \in Listed(s) /\ Behind(s, FirstOf(s)) = Listed(s) \ {FirstOf(s)}
<1>1. CASE s = <<>>
  BY <1>1, BehindSteps DEF FirstOf
<1>2. CASE s # <<>>
  <2>1. 1 \in DOMAIN s /\ Behind(s, s[1]) = Listed(s) \ {s[1]}
    BY <1>2, BehindSteps
  <2> QED BY <1>2, <2>1 DEF FirstOf, Listed
<1> QED BY <1>1, <1>2

LEMMA NextOfIs ==
  ASSUME NEW s \in Seq(Arc), NoRepeat(s), NEW e \in Listed(s)
  PROVE  \/ NextOf(s, e) = NULL /\ Behind(s, e) = {}
         \/ /\ NextOf(s, e) \in Listed(s) /\ NextOf(s, e) \in Behind(s, e)
            /\ Behind(s, NextOf(s, e)) = Behind(s, e) \ {NextOf(s, e)}
<1>1. PICK k \in DOMAIN s : s[k] = e
  BY DEF Listed
<1>2. e \in Arc
  BY <1>1
<1>3. Places(s, e) # {} /\ Place(s, e) = k
  BY <1>1, <1>2, PlaceOf
<1>4. NextOf(s, e) = IF k = Len(s) THEN NULL ELSE s[k + 1]
  BY <1>3 DEF NextOf
<1> QED BY <1>1, <1>4, BehindSteps DEF Listed

LEMMA NextVertexIs ==
  ASSUME NEW h, Good(h), NEW v \in Listed(h.vertices)
  PROVE  LET s == h.vertices
         IN  \/ NextVertex(h, v) = NULL /\ Behind(s, v) = {}
             \/ /\ NextVertex(h, v) \in Listed(s) /\ NextVertex(h, v) \in Behind(s, v)
                /\ Behind(s, NextVertex(h, v)) = Behind(s, v) \ {NextVertex(h, v)}
<1> DEFINE s == h.vertices
<1>1. s \in Seq(Name) /\ NoRepeat(s)
  BY DEF Good, Graphs, WellFiled
<1>2. PICK k \in DOMAIN s : s[k] = v
  BY DEF Listed
<1> DEFINE found == {m \in DOMAIN s : s[m] = v}
           next  == {m \in DOMAIN s : m - 1 \in found /\ \A l \in found : m - 1 <= l}
<1>3. found = {k}
  BY <1>1, <1>2 DEF NoRepeat
<1>4. NextVertex(h, v) = IF next = {} THEN NULL ELSE s[CHOOSE m \in next : TRUE]
  BY DEF NextVertex
<1>5. DOMAIN s = 1 .. Len(s) /\ Len(s) \in Nat
  BY <1>1
<1> HIDE DEF found
<1>6. next = IF k = Len(s) THEN {} ELSE {k + 1}
  BY <1>2, <1>3, <1>5
<1> HIDE DEF next
<1>7. NextVertex(h, v) = IF k = Len(s) THEN NULL ELSE s[k + 1]
  BY <1>4, <1>6
<1> QED BY <1>1, <1>2, <1>7, BehindSteps DEF Listed

-----------------------------------------------------------------------------
(***************************************************************************)
(* Every sort of iterator at any place.                                    *)
(***************************************************************************)
LEMMA Turning ==
  ASSUME NEW kind, NEW T, NEW f, NEW r,
         \/ f = NULL /\ T = {} /\ r = {}
         \/ f \in T /\ r = T \ {f}
  PROVE  [kind |-> kind, at |-> f, todo |-> r] \in Abstract!Turns(kind, T)
BY Turn, LastTurn

LEMMA Parts ==
  ASSUME NEW h, Good(h)
  PROVE  /\ h.vertices \in Seq(Name) /\ NoRepeat(h.vertices) /\ Listed(h.vertices) \subseteq Name
         /\ h.edges \in Seq(Arc) /\ NoRepeat(h.edges) /\ Listed(h.edges) \subseteq Arc
         /\ h.directed \in BOOLEAN
         /\ \A v \in Name :
              /\ h.in[v] \in Seq(Arc) /\ NoRepeat(h.in[v])
              /\ h.out[v] \in Seq(Arc) /\ NoRepeat(h.out[v])
              /\ Listed(h.out[v]) = {e \in Listed(h.edges) : e[1] = v}
              /\ Listed(h.in[v])  = {e \in Listed(h.edges) : e[2] = v}
<1>1. /\ h.vertices \in Seq(Name) /\ h.edges \in Seq(Arc) /\ h.directed \in BOOLEAN
      /\ h.in \in [Name -> Seq(Arc)] /\ h.out \in [Name -> Seq(Arc)]
  BY DEF Good, Graphs
<1>2. Listed(h.vertices) \subseteq Name /\ Listed(h.edges) \subseteq Arc
  BY <1>1 DEF Listed
<1>3. WellFiled(h)
  BY DEF Good
<1> QED BY <1>1, <1>2, <1>3 DEF WellFiled

LEMMA ListsOf ==
  ASSUME NEW h, Good(h), NEW v \in Name
  PROVE  /\ h.in[v] \in Seq(Arc) /\ NoRepeat(h.in[v]) /\ NULL \notin Listed(h.in[v])
         /\ Listed(h.in[v]) \subseteq Listed(h.edges) /\ Listed(h.in[v]) \subseteq Arc
         /\ h.out[v] \in Seq(Arc) /\ NoRepeat(h.out[v]) /\ NULL \notin Listed(h.out[v])
         /\ Listed(h.out[v]) \subseteq Listed(h.edges) /\ Listed(h.out[v]) \subseteq Arc
<1>1. /\ h.in[v] \in Seq(Arc) /\ NoRepeat(h.in[v])
      /\ h.out[v] \in Seq(Arc) /\ NoRepeat(h.out[v])
  BY Parts
<1>2. /\ Listed(h.in[v]) \subseteq Listed(h.edges) /\ Listed(h.out[v]) \subseteq Listed(h.edges)
      /\ Listed(h.edges) \subseteq Arc
  <2>1. /\ Listed(h.out[v]) = {e \in Listed(h.edges) : e[1] = v}
        /\ Listed(h.in[v])  = {e \in Listed(h.edges) : e[2] = v}
    BY Parts
  <2>2. Listed(h.edges) \subseteq Arc
    BY Parts
  <2> QED BY <2>1, <2>2
<1> QED BY <1>1, <1>2, ArcsAreNotNull

LEMMA UnusedAt ==
  ASSUME NEW h
  PROVE  GoodItr(h, Unused) /\ Visit(h, Unused) = Abstract!Off
<1>1. Unused.kind = "unused"
  BY DEF Unused
<1>2. GoodItr(h, Unused)
  BY <1>1 DEF GoodItr, ItrOK, OnList
<1>3. Seen(h, Unused) = Over
  BY <1>1 DEF Seen
<1>4. KindSeen(Unused.kind) = "off"
  BY <1>1 DEF KindSeen
<1>5. Visit(h, Unused) = [kind |-> "off", at |-> NULL, todo |-> {}]
  BY <1>3, <1>4 DEF Visit, Over
<1> QED BY <1>2, <1>5 DEF NULL, Abstract!Off, Abstract!Over

LEMMA VertexItrAt ==
  ASSUME NEW h, Good(h), NEW n \in 0 .. Len(h.vertices)
  PROVE  LET x == [kind |-> "VertexItr", current |-> n]
         IN  /\ GoodItr(h, x)
             /\ Visit(h, x) \in Abstract!Turns("nodes", After(h.vertices, n + 1))
             /\ Visit(h, x).kind = "nodes"
             /\ n > 0 => Visit(h, x).at # NULL /\ Visit(h, x).todo = After(h.vertices, n)
<1> DEFINE x == [kind |-> "VertexItr", current |-> n]
<1>1. GoodItr(h, x)
  BY DEF GoodItr, ItrOK, OnList
<1>2. Visit(h, x) = [kind |-> "nodes", at |-> Along(h.vertices, n).at,
                     todo |-> Along(h.vertices, n).todo]
  BY DEF Visit, Seen, KindSeen
<1>3. Visit(h, x) \in Abstract!Turns("nodes", After(h.vertices, n + 1))
  BY <1>2, Parts, AlongTurns
<1>4. ASSUME n > 0
      PROVE  Visit(h, x).at # NULL /\ Visit(h, x).todo = After(h.vertices, n)
  <2>1. n \in 1 .. Len(h.vertices) /\ h.vertices \in Seq(Name)
    BY <1>4, Parts
  <2>2. FromEnd(h.vertices, n) \in Listed(h.vertices)
    BY <2>1 DEF FromEnd, Listed
  <2>3. NULL \notin Listed(h.vertices)
    BY Parts, NameAssumption DEF NULL
  <2>4. Visit(h, x).at = FromEnd(h.vertices, n) /\ Visit(h, x).todo = After(h.vertices, n)
    BY <1>2, <1>4 DEF Along
  <2> QED BY <2>2, <2>3, <2>4
<1>5. Visit(h, x).kind = "nodes"
  BY <1>2
<1> QED BY <1>1, <1>3, <1>4, <1>5

LEMMA EdgeItrAt ==
  ASSUME NEW h, Good(h), NEW n \in 0 .. Len(h.edges)
  PROVE  LET x == [kind |-> "EdgeItr", current |-> n]
         IN  /\ GoodItr(h, x)
             /\ Visit(h, x) \in Abstract!Turns("arcs", After(h.edges, n + 1))
             /\ Visit(h, x).kind = "arcs"
             /\ n > 0 => Visit(h, x).at # NULL /\ Visit(h, x).todo = After(h.edges, n)
<1> DEFINE x == [kind |-> "EdgeItr", current |-> n]
<1>1. GoodItr(h, x)
  BY DEF GoodItr, ItrOK, OnList
<1>2. Visit(h, x) = [kind |-> "arcs", at |-> Along(h.edges, n).at,
                     todo |-> Along(h.edges, n).todo]
  BY DEF Visit, Seen, KindSeen
<1>3. Visit(h, x) \in Abstract!Turns("arcs", After(h.edges, n + 1))
  BY <1>2, Parts, AlongTurns
<1>4. ASSUME n > 0
      PROVE  Visit(h, x).at # NULL /\ Visit(h, x).todo = After(h.edges, n)
  <2>1. n \in 1 .. Len(h.edges) /\ h.edges \in Seq(Arc)
    BY <1>4, Parts
  <2>2. FromEnd(h.edges, n) \in Listed(h.edges)
    BY <2>1 DEF FromEnd, Listed
  <2>3. NULL \notin Listed(h.edges)
    BY Parts, ArcsAreNotNull
  <2>4. Visit(h, x).at = FromEnd(h.edges, n) /\ Visit(h, x).todo = After(h.edges, n)
    BY <1>2, <1>4 DEF Along
  <2> QED BY <2>2, <2>3, <2>4
<1>5. Visit(h, x).kind = "arcs"
  BY <1>2
<1> QED BY <1>1, <1>3, <1>4, <1>5

LEMMA NeighborItrAt ==
  ASSUME NEW h, Good(h), NEW v \in Listed(h.vertices),
         NEW m \in 0 .. Len(h.in[v]), NEW n \in 0 .. Len(h.out[v])
  PROVE  LET x == [kind |-> "NeighborItr", home |-> v, curIn |-> m, curOut |-> n]
         IN  /\ GoodItr(h, x)
             /\ Visit(h, x) \in Abstract!Turns("neighbors", Rest(h.in[v], h.out[v], m, n))
             /\ m > 0 => Visit(h, x).todo = Rest(h.in[v], h.out[v], m - 1, n)
             /\ m = 0 /\ n > 0 => Visit(h, x).todo = Rest(h.in[v], h.out[v], 0, n - 1)
             /\ Visit(h, x).kind = "neighbors"
             /\ m > 0 \/ n > 0 => Visit(h, x).at # NULL
<1> DEFINE x == [kind |-> "NeighborItr", home |-> v, curIn |-> m, curOut |-> n]
<1>1. /\ v \in Name /\ h.in[v] \in Seq(Arc) /\ h.out[v] \in Seq(Arc)
      /\ NoRepeat(h.in[v]) /\ NoRepeat(h.out[v])
      /\ m \in Nat /\ n \in Nat /\ m <= Len(h.in[v]) /\ n <= Len(h.out[v])
  BY Parts
<1>2. GoodItr(h, x)
  BY <1>1 DEF GoodItr, ItrOK, OnList
<1> DEFINE a == Around(h.in[v], h.out[v], m, n)
<1>3. Visit(h, x) = [kind |-> "neighbors", at |-> a.at, todo |-> a.todo]
  BY DEF Visit, Seen, KindSeen
<1>4. Visit(h, x).kind = "neighbors" /\ Visit(h, x).at = a.at /\ Visit(h, x).todo = a.todo
  BY <1>3
<1>5. /\ [kind |-> "neighbors", at |-> a.at, todo |-> a.todo]
           \in Abstract!Turns("neighbors", Rest(h.in[v], h.out[v], m, n))
      /\ m > 0 => a.todo = Rest(h.in[v], h.out[v], m - 1, n)
      /\ m = 0 /\ n > 0 => a.todo = Rest(h.in[v], h.out[v], 0, n - 1)
  <2> DEFINE ins == h.in[v]
             outs == h.out[v]
  <2>1. /\ ins \in Seq(Arc) /\ outs \in Seq(Arc) /\ NoRepeat(ins) /\ NoRepeat(outs)
        /\ m \in 0 .. Len(ins) /\ n \in 0 .. Len(outs)
    BY <1>1
  <2> HIDE DEF ins, outs
  <2>2. /\ [kind |-> "neighbors", at |-> Around(ins, outs, m, n).at,
             todo |-> Around(ins, outs, m, n).todo]
             \in Abstract!Turns("neighbors", Rest(ins, outs, m, n))
        /\ m > 0 => Around(ins, outs, m, n).todo = Rest(ins, outs, m - 1, n)
        /\ m = 0 /\ n > 0 => Around(ins, outs, m, n).todo = Rest(ins, outs, 0, n - 1)
    BY <2>1, AroundTurns
  <2> QED BY <2>2 DEF ins, outs
<1>6. ASSUME m > 0 \/ n > 0 PROVE a.at # NULL
  <2>1. \E w \in {"in", "out"} : \E e : a.at = <<w, e>>
    BY <1>6 DEF Around
  <2> QED BY <2>1 DEF NULL
<1> HIDE DEF x, a
<1> QED BY <1>2, <1>3, <1>4, <1>5, <1>6 DEF x

\* A walk that has come to e, or to the end, along list s.
At(s, kind, e) == [kind |-> kind, at |-> e, todo |-> IF e = NULL THEN {} ELSE Behind(s, e)]

LEMMA VertexWalkAt ==
  ASSUME NEW h, Good(h), NEW v \in Listed(h.vertices) \cup {NULL}
  PROVE  /\ GoodItr(h, Walk("Vertex", NULL, v))
         /\ Visit(h, Walk("Vertex", NULL, v)) = At(h.vertices, "nodes", v)
<1>1. GoodItr(h, Walk("Vertex", NULL, v))
  BY DEF GoodItr, ItrOK, OnList, Walk
<1>2. Visit(h, Walk("Vertex", NULL, v)) = At(h.vertices, "nodes", v)
  BY DEF Visit, Seen, KindSeen, Walk, Walked, Over, At
<1> QED BY <1>1, <1>2

LEMMA EdgeWalkAt ==
  ASSUME NEW h, Good(h), NEW e \in Listed(h.edges) \cup {NULL}
  PROVE  /\ GoodItr(h, Walk("Edge", NULL, e))
         /\ Visit(h, Walk("Edge", NULL, e)) = At(h.edges, "arcs", e)
<1>1. e \in Arc \cup {NULL}
  BY Parts
<1>2. GoodItr(h, Walk("Edge", NULL, e))
  BY <1>1 DEF GoodItr, ItrOK, OnList, Walk
<1>3. Visit(h, Walk("Edge", NULL, e)) = At(h.edges, "arcs", e)
  BY DEF Visit, Seen, KindSeen, Walk, Walked, Over, At
<1> QED BY <1>2, <1>3

LEMMA ParentWalkAt ==
  ASSUME NEW h, Good(h), NEW v \in Listed(h.vertices), NEW e \in Listed(h.in[v]) \cup {NULL}
  PROVE  /\ GoodItr(h, Walk("Parent", v, End(e, 1)))
         /\ Visit(h, Walk("Parent", v, End(e, 1))) = At(h.in[v], "parents", e)
<1> DEFINE x == Walk("Parent", v, End(e, 1))
<1>1. v \in Name
  BY Parts
<1>2. CASE e = NULL
  <2>1. End(e, 1) = NULL
    BY <1>2 DEF End
  <2>2. GoodItr(h, x)
    BY <2>1 DEF GoodItr, ItrOK, OnList, Walk
  <2>3. Visit(h, x) = At(h.in[v], "parents", e)
    BY <1>2, <2>1 DEF Visit, Seen, KindSeen, Walk, Walked, Over, At
  <2> QED BY <2>2, <2>3
<1>3. CASE e # NULL
  <2>1. e \in Listed(h.in[v]) /\ e \in Listed(h.edges) /\ e \in Arc /\ e[2] = v
    BY <1>1, <1>3, Parts
  <2>2. End(e, 1) = e[1] /\ e[1] \in Listed(h.vertices) /\ e[1] \in Name
    BY <1>3, <2>1 DEF End, Good, EndsIn, Arc
  <2>3. e[1] # NULL
    BY <2>2, NameAssumption DEF NULL
  <2>4. e = <<e[1], v>>
    BY <2>1 DEF Arc
  <2>5. GoodItr(h, x)
    BY <2>1, <2>2, <2>4 DEF GoodItr, ItrOK, OnList, Walk
  <2>6. Visit(h, x) = At(h.in[v], "parents", e)
    BY <1>3, <2>2, <2>3, <2>4 DEF Visit, Seen, KindSeen, Walk, Walked, At
  <2> QED BY <2>5, <2>6
<1> QED BY <1>2, <1>3

LEMMA ChildWalkAt ==
  ASSUME NEW h, Good(h), NEW v \in Listed(h.vertices), NEW e \in Listed(h.out[v]) \cup {NULL}
  PROVE  /\ GoodItr(h, Walk("Child", v, End(e, 2)))
         /\ Visit(h, Walk("Child", v, End(e, 2))) = At(h.out[v], "children", e)
<1> DEFINE x == Walk("Child", v, End(e, 2))
<1>1. v \in Name
  BY Parts
<1>2. CASE e = NULL
  <2>1. End(e, 2) = NULL
    BY <1>2 DEF End
  <2>2. GoodItr(h, x)
    BY <2>1 DEF GoodItr, ItrOK, OnList, Walk
  <2>3. Visit(h, x) = At(h.out[v], "children", e)
    BY <1>2, <2>1 DEF Visit, Seen, KindSeen, Walk, Walked, Over, At
  <2> QED BY <2>2, <2>3
<1>3. CASE e # NULL
  <2>1. e \in Listed(h.out[v]) /\ e \in Listed(h.edges) /\ e \in Arc /\ e[1] = v
    BY <1>1, <1>3, Parts
  <2>2. End(e, 2) = e[2] /\ e[2] \in Listed(h.vertices) /\ e[2] \in Name
    BY <1>3, <2>1 DEF End, Good, EndsIn, Arc
  <2>3. e[2] # NULL
    BY <2>2, NameAssumption DEF NULL
  <2>4. e = <<v, e[2]>>
    BY <2>1 DEF Arc
  <2>5. GoodItr(h, x)
    BY <2>1, <2>2, <2>4 DEF GoodItr, ItrOK, OnList, Walk
  <2>6. Visit(h, x) = At(h.out[v], "children", e)
    BY <1>3, <2>2, <2>3, <2>4 DEF Visit, Seen, KindSeen, Walk, Walked, At
  <2> QED BY <2>5, <2>6
<1> QED BY <1>2, <1>3

-----------------------------------------------------------------------------
(***************************************************************************)
(* The invariant of Graph.                                                 *)
(***************************************************************************)
IInv ==
  /\ Good(g)
  /\ DOMAIN itr = Iterator
  /\ \A t \in Iterator : GoodItr(g, itr[t])

Visits == [t \in Iterator |-> Visit(g, itr[t])]

\* What the abstract graph is told of one call.
AbstractStep == [Abstract!DGNext]_(Abstract!dgVars)

LEMMA Grows ==
  ASSUME IInv, Good(g'), GrownGraph(g, g'), UNCHANGED itr
  PROVE  IInv' /\ Visits' = Visits
<1>1. \A t \in Iterator : itr'[t] = itr[t] /\ GoodItr(g', itr[t])
                        /\ Visit(g', itr[t]) = Visit(g, itr[t])
  BY ItrKept DEF IInv
<1>2. Visits' = [t \in Iterator |-> Visit(g', itr'[t])]
  BY DEF Visits
<1> QED BY <1>1, <1>2 DEF IInv, Visits

LEMMA Held ==
  ASSUME NEW t \in Iterator, NEW x, IInv, Hold(t, x), GoodItr(g, x)
  PROVE  /\ IInv'
         /\ UNCHANGED g
         /\ Visits' = [Visits EXCEPT ![t] = Visit(g, x)]
<1>1. /\ UNCHANGED g /\ DOMAIN itr' = Iterator /\ itr'[t] = x
      /\ \A u \in Iterator : u # t => itr'[u] = itr[u]
  BY DEF Hold, IInv
<1>2. \A u \in Iterator : GoodItr(g, itr'[u])
  BY <1>1 DEF IInv
<1>3. Visits' = [u \in Iterator |-> Visit(g, itr'[u])]
  BY <1>1 DEF Visits
<1>4. Visits' = [Visits EXCEPT ![t] = Visit(g, x)]
  BY <1>1, <1>3 DEF Visits
<1> QED BY <1>1, <1>2, <1>4 DEF IInv

LEMMA Begun ==
  ASSUME NEW t \in Iterator, NEW x, IInv, itr[t] = Unused, Hold(t, x), GoodItr(g, x),
         NEW kind, NEW v, Visit(g, x) \in Abstract!Turns(kind, Abstract!ToSee(kind, v))
  PROVE  IInv' /\ Abstract!DGBegin(t, kind, v)
<1>1. IInv' /\ UNCHANGED g /\ Visits' = [Visits EXCEPT ![t] = Visit(g, x)]
  BY Held
<1>2. Visits[t] = Abstract!Off
  BY UnusedAt DEF Visits
<1> QED BY <1>1, <1>2 DEF Visits, Abstract!DGBegin, Vertices

LEMMA Stepped ==
  ASSUME NEW t \in Iterator, NEW x, IInv, Hold(t, x), GoodItr(g, x),
         NEW kind, NEW left,
         Visits[t].kind = kind, Visits[t].at # NULL,
         left = IF kind = "children" /\ ~ g.directed THEN {} ELSE Visits[t].todo,
         Visit(g, x) \in Abstract!Turns(kind, left)
  PROVE  IInv' /\ Abstract!DGStep(t)
<1>1. IInv' /\ UNCHANGED g /\ Visits' = [Visits EXCEPT ![t] = Visit(g, x)]
  BY Held
<1>2. Visits[t].at # Abstract!Over
  BY DEF Abstract!Over, NULL
<1> QED BY <1>1, <1>2 DEF Visits, Abstract!DGStep, Vertices

LEMMA AddVertexStep ==
  ASSUME IInv, NEW v \in Name, AddVertex(v)
  PROVE  IInv' /\ Abstract!DGAddNode(v)
<1>1. Good(g) /\ g' = WithVertex(g, v) /\ UNCHANGED itr
  BY DEF IInv, AddVertex
<1>2. /\ Good(g') /\ GrownGraph(g, g') /\ Listed(g'.vertices) = Listed(g.vertices) \cup {v}
      /\ g'.edges = g.edges /\ g'.directed = g.directed
  BY <1>1, VertexAdded
<1>3. IInv' /\ Visits' = Visits
  BY <1>1, <1>2, Grows
<1> QED BY <1>2, <1>3 DEF Visits, Abstract!DGAddNode, Vertices

LEMMA AddEdgeStep ==
  ASSUME IInv, NEW u \in Vertices, NEW v \in Vertices, AddEdge(u, v)
  PROVE  IInv' /\ Abstract!DGAddArc(u, v)
<1>1. Good(g) /\ g' = WithEdge(g, u, v) /\ UNCHANGED itr
  BY DEF IInv, AddEdge
<1>2. /\ Good(g') /\ GrownGraph(g, g') /\ Listed(g'.edges) = Listed(g.edges) \cup {<<u, v>>}
      /\ g'.vertices = g.vertices /\ g'.directed = g.directed
  <2>1. u \in Listed(g.vertices) /\ v \in Listed(g.vertices)
    BY DEF Vertices
  <2> QED BY <1>1, <2>1, EdgeAdded
<1>3. IInv' /\ Visits' = Visits
  BY <1>1, <1>2, Grows
<1> QED BY <1>2, <1>3 DEF Visits, Abstract!DGAddArc, Vertices

LEMMA SetDirectedStep ==
  ASSUME IInv, NEW b \in BOOLEAN, SetDirected(b)
  PROVE  IInv' /\ Abstract!DGSetDirected(b)
<1>1. Good(g) /\ g' = [g EXCEPT !.directed = b] /\ UNCHANGED itr /\ g \in Graphs
  BY DEF IInv, SetDirected, Good
<1>2. /\ g'.vertices = g.vertices /\ g'.edges = g.edges /\ g'.out = g.out /\ g'.in = g.in
      /\ g'.directed = b /\ g' \in Graphs
  BY <1>1 DEF Graphs
<1>3. Good(g')
  BY <1>1, <1>2 DEF Good, WellFiled, EndsIn
<1>4. GrownGraph(g, g')
  BY <1>1, <1>2, GrownGraphSelf DEF GrownGraph
<1>5. IInv' /\ Visits' = Visits
  BY <1>1, <1>3, <1>4, Grows
<1> QED BY <1>2, <1>5 DEF Visits, Abstract!DGSetDirected, Vertices

LEMMA DestroyStep ==
  ASSUME IInv, NEW t \in Iterator, Destroy(t)
  PROVE  IInv' /\ Abstract!DGEnd(t)
<1>1. Hold(t, Unused)
  BY DEF Destroy
<1>2. GoodItr(g, Unused) /\ Visit(g, Unused) = Abstract!Off
  BY UnusedAt
<1>3. IInv' /\ UNCHANGED g /\ Visits' = [Visits EXCEPT ![t] = Abstract!Off]
  BY <1>1, <1>2, Held
<1> QED BY <1>3 DEF Visits, Abstract!DGEnd, Vertices

-----------------------------------------------------------------------------
(***************************************************************************)
(* Iterators that begin.                                                   *)
(***************************************************************************)
LEMMA CreateVertexItrStep ==
  ASSUME IInv, NEW t \in Iterator, CreateVertexItr(t)
  PROVE  IInv' /\ Abstract!DGBegin(t, "nodes", NULL)
<1> DEFINE x == [kind |-> "VertexItr", current |-> Len(g.vertices)]
<1>1. Good(g) /\ g.vertices \in Seq(Name) /\ NoRepeat(g.vertices)
  BY Parts DEF IInv
<1>2. Len(g.vertices) \in 0 .. Len(g.vertices)
  BY <1>1
<1>3. GoodItr(g, x) /\ Visit(g, x) \in Abstract!Turns("nodes", Listed(g.vertices))
  BY <1>1, <1>2, VertexItrAt, AfterSteps
<1>4. Abstract!ToSee("nodes", NULL) = Listed(g.vertices)
  BY DEF Abstract!ToSee, Vertices
<1>5. itr[t] = Unused /\ Hold(t, x)
  BY DEF CreateVertexItr
<1> QED BY <1>3, <1>4, <1>5, Begun

LEMMA CreateEdgeItrStep ==
  ASSUME IInv, NEW t \in Iterator, CreateEdgeItr(t)
  PROVE  IInv' /\ Abstract!DGBegin(t, "arcs", NULL)
<1> DEFINE x == [kind |-> "EdgeItr", current |-> Len(g.edges)]
<1>1. Good(g) /\ g.edges \in Seq(Arc) /\ NoRepeat(g.edges)
  BY Parts DEF IInv
<1>2. Len(g.edges) \in 0 .. Len(g.edges)
  BY <1>1
<1>3. GoodItr(g, x) /\ Visit(g, x) \in Abstract!Turns("arcs", Listed(g.edges))
  BY <1>1, <1>2, EdgeItrAt, AfterSteps
<1>4. Abstract!ToSee("arcs", NULL) = Listed(g.edges)
  BY DEF Abstract!ToSee
<1>5. itr[t] = Unused /\ Hold(t, x)
  BY DEF CreateEdgeItr
<1> QED BY <1>3, <1>4, <1>5, Begun

LEMMA CreateNeighborItrStep ==
  ASSUME IInv, NEW t \in Iterator, NEW v \in Vertices, CreateNeighborItr(t, v)
  PROVE  IInv' /\ Abstract!DGBegin(t, "neighbors", v)
<1> DEFINE m == Len(g.in[v])
           n == Len(g.out[v])
           x == [kind |-> "NeighborItr", home |-> v, curIn |-> m, curOut |-> n]
<1>1. Good(g) /\ v \in Listed(g.vertices) /\ v \in Name
  BY Parts DEF IInv, Vertices
<1>2. /\ g.in[v] \in Seq(Arc) /\ NoRepeat(g.in[v]) /\ g.out[v] \in Seq(Arc) /\ NoRepeat(g.out[v])
      /\ Listed(g.out[v]) = {e \in Listed(g.edges) : e[1] = v}
      /\ Listed(g.in[v])  = {e \in Listed(g.edges) : e[2] = v}
  BY <1>1, Parts
<1>3. m \in 0 .. Len(g.in[v]) /\ n \in 0 .. Len(g.out[v])
  BY <1>2
<1>4. GoodItr(g, x) /\ Visit(g, x) \in Abstract!Turns("neighbors", Rest(g.in[v], g.out[v], m, n))
  BY <1>1, <1>3, NeighborItrAt
<1>5. Rest(g.in[v], g.out[v], m, n)
        = ({"in"} \X Listed(g.in[v])) \cup ({"out"} \X Listed(g.out[v]))
  BY <1>2, AfterSteps DEF Rest
<1>6. Abstract!ToSee("neighbors", v) = Rest(g.in[v], g.out[v], m, n)
  BY <1>2, <1>5 DEF Abstract!ToSee, Abstract!Into, Abstract!OutOf
<1>7. itr[t] = Unused /\ Hold(t, x)
  BY DEF CreateNeighborItr
<1> HIDE DEF x, m, n
<1> QED BY <1>4, <1>6, <1>7, Begun

LEMMA WalkVerticesStep ==
  ASSUME IInv, NEW t \in Iterator, WalkVertices(t)
  PROVE  IInv' /\ Abstract!DGBegin(t, "nodes", NULL)
<1> DEFINE f == FirstVertex(g)
           x == Walk("Vertex", NULL, f)
<1>1. Good(g) /\ g.vertices \in Seq(Name) /\ NoRepeat(g.vertices)
  BY Parts DEF IInv
<1>2. \/ f = NULL /\ Listed(g.vertices) = {}
      \/ f \in Listed(g.vertices) /\ Behind(g.vertices, f) = Listed(g.vertices) \ {f}
  BY <1>1, FirstOfIs DEF FirstVertex
<1>3. NULL \notin Listed(g.vertices)
  BY <1>1, Parts, NameAssumption DEF NULL
<1> HIDE DEF f
<1>4. GoodItr(g, x) /\ Visit(g, x) = At(g.vertices, "nodes", f)
  BY <1>1, <1>2, VertexWalkAt
<1>5. At(g.vertices, "nodes", f) \in Abstract!Turns("nodes", Listed(g.vertices))
  BY <1>2, <1>3, Turning DEF At
<1>6. Abstract!ToSee("nodes", NULL) = Listed(g.vertices)
  BY DEF Abstract!ToSee, Vertices
<1>7. itr[t] = Unused /\ Hold(t, x)
  BY DEF WalkVertices, f
<1> QED BY <1>4, <1>5, <1>6, <1>7, Begun

LEMMA WalkEdgesStep ==
  ASSUME IInv, NEW t \in Iterator, WalkEdges(t)
  PROVE  IInv' /\ Abstract!DGBegin(t, "arcs", NULL)
<1> DEFINE f == FirstOf(g.edges)
           x == Walk("Edge", NULL, f)
<1>1. Good(g) /\ g.edges \in Seq(Arc) /\ NoRepeat(g.edges)
  BY Parts DEF IInv
<1>2. \/ f = NULL /\ Listed(g.edges) = {}
      \/ f \in Listed(g.edges) /\ Behind(g.edges, f) = Listed(g.edges) \ {f}
  BY <1>1, FirstOfIs
<1>3. NULL \notin Listed(g.edges)
  BY <1>1, Parts, ArcsAreNotNull
<1> HIDE DEF f
<1>4. GoodItr(g, x) /\ Visit(g, x) = At(g.edges, "arcs", f)
  BY <1>1, <1>2, EdgeWalkAt
<1>5. At(g.edges, "arcs", f) \in Abstract!Turns("arcs", Listed(g.edges))
  BY <1>2, <1>3, Turning DEF At
<1>6. Abstract!ToSee("arcs", NULL) = Listed(g.edges)
  BY DEF Abstract!ToSee
<1>7. itr[t] = Unused /\ Hold(t, x)
  BY DEF WalkEdges, f
<1> QED BY <1>4, <1>5, <1>6, <1>7, Begun

LEMMA WalkParentsStep ==
  ASSUME IInv, NEW t \in Iterator, NEW v \in Vertices, WalkParents(t, v)
  PROVE  IInv' /\ Abstract!DGBegin(t, "parents", v)
<1> DEFINE s == g.in[v]
           f == FirstOf(s)
           x == Walk("Parent", v, End(f, 1))
<1>1. Good(g) /\ v \in Listed(g.vertices) /\ v \in Name
  BY Parts DEF IInv, Vertices
<1>2. s \in Seq(Arc) /\ NoRepeat(s) /\ Listed(s) = {e \in Listed(g.edges) : e[2] = v}
  BY <1>1, Parts
<1>3. \/ f = NULL /\ Listed(s) = {}
      \/ f \in Listed(s) /\ Behind(s, f) = Listed(s) \ {f}
  BY <1>2, FirstOfIs
<1>4. NULL \notin Listed(s)
  BY <1>1, <1>2, Parts, ArcsAreNotNull
<1> HIDE DEF f
<1>5. GoodItr(g, x) /\ Visit(g, x) = At(s, "parents", f)
  BY <1>1, <1>3, ParentWalkAt
<1> HIDE DEF s
<1>6. At(s, "parents", f) \in Abstract!Turns("parents", Listed(s))
  BY <1>3, <1>4, Turning DEF At
<1>7. Abstract!ToSee("parents", v) = Listed(s)
  BY <1>2 DEF Abstract!ToSee, Abstract!Into
<1>8. itr[t] = Unused /\ Hold(t, x)
  BY DEF WalkParents, FirstParent, f, s
<1> QED BY <1>5, <1>6, <1>7, <1>8, Begun

LEMMA WalkChildrenStep ==
  ASSUME IInv, NEW t \in Iterator, NEW v \in Vertices, WalkChildren(t, v)
  PROVE  IInv' /\ Abstract!DGBegin(t, "children", v)
<1> DEFINE s == g.out[v]
           f == IF g.directed THEN FirstOf(s) ELSE NULL
           x == Walk("Child", v, End(f, 2))
           T == IF g.directed THEN Listed(s) ELSE {}
<1>1. Good(g) /\ v \in Listed(g.vertices) /\ v \in Name
  BY Parts DEF IInv, Vertices
<1>2. s \in Seq(Arc) /\ NoRepeat(s) /\ Listed(s) = {e \in Listed(g.edges) : e[1] = v}
  BY <1>1, Parts
<1>3. \/ f = NULL /\ T = {}
      \/ f \in T /\ f \in Listed(s) /\ Behind(s, f) = T \ {f}
  BY <1>2, FirstOfIs
<1>4. NULL \notin T
  BY <1>1, <1>2, Parts, ArcsAreNotNull
<1>5. Abstract!ToSee("children", v) = T
  BY <1>2 DEF Abstract!ToSee, Abstract!OutOf
<1>6. itr[t] = Unused /\ Hold(t, x)
  BY DEF WalkChildren, FirstChild, End
<1> HIDE DEF f, T
<1>7. GoodItr(g, x) /\ Visit(g, x) = At(s, "children", f)
  BY <1>1, <1>3, ChildWalkAt
<1> HIDE DEF s
<1>8. At(s, "children", f) \in Abstract!Turns("children", T)
  BY <1>3, <1>4, Turning DEF At
<1> QED BY <1>5, <1>6, <1>7, <1>8, Begun

-----------------------------------------------------------------------------
(***************************************************************************)
(* Iterators that go on.                                                   *)
(***************************************************************************)
LEMMA VisitsAt ==
  ASSUME IInv, NEW t \in Iterator
  PROVE  Visits[t] = Visit(g, itr[t]) /\ ItrOK(g, itr[t]) /\ OnList(g, itr[t]) /\ Good(g)
BY DEF Visits, IInv, GoodItr

LEMMA AdvanceStep ==
  ASSUME IInv, NEW t \in Iterator, Advance(t)
  PROVE  IInv' /\ Abstract!DGStep(t)
<1> DEFINE c == itr[t].current
<1>1. Visits[t] = Visit(g, itr[t]) /\ ItrOK(g, itr[t]) /\ Good(g)
  BY VisitsAt
<1>2. c > 0 /\ Hold(t, [itr[t] EXCEPT !.current = c - 1])
  BY DEF Advance
<1>3. CASE itr[t].kind = "VertexItr"
  <2> DEFINE y == [kind |-> "VertexItr", current |-> c - 1]
  <2>1. itr[t] \in [kind : {"VertexItr"}, current : 0 .. Len(g.vertices)]
    BY <1>1, <1>3, ItrKinds
  <2>2. /\ c \in 0 .. Len(g.vertices) /\ c - 1 \in 0 .. Len(g.vertices) /\ (c - 1) + 1 = c
        /\ itr[t] = [kind |-> "VertexItr", current |-> c]
        /\ [itr[t] EXCEPT !.current = c - 1] = y
    <3>1. Len(g.vertices) \in Nat
      BY <1>1, Parts
    <3> QED BY <1>2, <2>1, <3>1
  <2> HIDE DEF c
  <2>3. /\ Visits[t].kind = "nodes" /\ Visits[t].at # NULL
        /\ Visits[t].todo = After(g.vertices, c)
    BY <1>1, <1>2, <2>2, VertexItrAt
  <2>4. GoodItr(g, y) /\ Visit(g, y) \in Abstract!Turns("nodes", After(g.vertices, c))
    BY <1>1, <2>2, VertexItrAt
  <2>5. Hold(t, y)
    BY <1>2, <2>2
  <2> HIDE DEF y
  <2> QED BY <2>3, <2>4, <2>5, Stepped
<1>4. CASE itr[t].kind = "EdgeItr"
  <2> DEFINE y == [kind |-> "EdgeItr", current |-> c - 1]
  <2>1. itr[t] \in [kind : {"EdgeItr"}, current : 0 .. Len(g.edges)]
    BY <1>1, <1>4, ItrKinds
  <2>2. /\ c \in 0 .. Len(g.edges) /\ c - 1 \in 0 .. Len(g.edges) /\ (c - 1) + 1 = c
        /\ itr[t] = [kind |-> "EdgeItr", current |-> c]
        /\ [itr[t] EXCEPT !.current = c - 1] = y
    <3>1. Len(g.edges) \in Nat
      BY <1>1, Parts
    <3> QED BY <1>2, <2>1, <3>1
  <2> HIDE DEF c
  <2>3. /\ Visits[t].kind = "arcs" /\ Visits[t].at # NULL
        /\ Visits[t].todo = After(g.edges, c)
    BY <1>1, <1>2, <2>2, EdgeItrAt
  <2>4. GoodItr(g, y) /\ Visit(g, y) \in Abstract!Turns("arcs", After(g.edges, c))
    BY <1>1, <2>2, EdgeItrAt
  <2>5. Hold(t, y)
    BY <1>2, <2>2
  <2> HIDE DEF y
  <2> QED BY <2>3, <2>4, <2>5, Stepped
<1> QED BY <1>3, <1>4 DEF Advance

LEMMA AdvanceNeighborStep ==
  ASSUME IInv, NEW t \in Iterator, AdvanceNeighbor(t)
  PROVE  IInv' /\ Abstract!DGStep(t)
<1> DEFINE v == itr[t].home
           m == itr[t].curIn
           n == itr[t].curOut
<1>1. Visits[t] = Visit(g, itr[t]) /\ ItrOK(g, itr[t]) /\ Good(g)
  BY VisitsAt
<1>2. /\ itr[t] \in [kind : {"NeighborItr"}, home : Listed(g.vertices), curIn : Nat, curOut : Nat]
      /\ m <= Len(g.in[v]) /\ n <= Len(g.out[v])
  BY <1>1, ItrKinds DEF AdvanceNeighbor
<1>3. /\ v \in Listed(g.vertices) /\ m \in Nat /\ n \in Nat
      /\ Len(g.in[v]) \in Nat /\ Len(g.out[v]) \in Nat
  BY <1>1, <1>2, Parts
<1>4. m \in 0 .. Len(g.in[v]) /\ n \in 0 .. Len(g.out[v])
  BY <1>2, <1>3
<1>5. itr[t] = [kind |-> "NeighborItr", home |-> v, curIn |-> m, curOut |-> n]
  BY <1>2
<1>6. CASE m > 0
  <2> DEFINE y == [kind |-> "NeighborItr", home |-> v, curIn |-> m - 1, curOut |-> n]
  <2>1. Hold(t, [itr[t] EXCEPT !.curIn = m - 1])
    BY <1>6 DEF AdvanceNeighbor
  <2>2. [itr[t] EXCEPT !.curIn = m - 1] = y
    BY <1>2
  <2>3. m - 1 \in 0 .. Len(g.in[v])
    BY <1>3, <1>4, <1>6
  <2> HIDE DEF v, m, n
  <2>4. /\ Visits[t].kind = "neighbors" /\ Visits[t].at # NULL
        /\ Visits[t].todo = Rest(g.in[v], g.out[v], m - 1, n)
    BY <1>1, <1>3, <1>4, <1>5, <1>6, NeighborItrAt
  <2>5. GoodItr(g, y) /\ Visit(g, y) \in Abstract!Turns("neighbors", Rest(g.in[v], g.out[v], m - 1, n))
    BY <1>1, <1>3, <1>4, <2>3, NeighborItrAt
  <2>6. Hold(t, y)
    BY <2>1, <2>2
  <2> HIDE DEF y
  <2> QED BY <2>4, <2>5, <2>6, Stepped
<1>7. CASE m = 0 /\ n > 0
  <2> DEFINE y == [kind |-> "NeighborItr", home |-> v, curIn |-> 0, curOut |-> n - 1]
  <2>1. Hold(t, [itr[t] EXCEPT !.curOut = n - 1])
    BY <1>7 DEF AdvanceNeighbor
  <2>2. [itr[t] EXCEPT !.curOut = n - 1] = y
    BY <1>2, <1>7
  <2>3. n - 1 \in 0 .. Len(g.out[v]) /\ 0 \in 0 .. Len(g.in[v])
    BY <1>3, <1>4, <1>7
  <2> HIDE DEF v, m, n
  <2>4. /\ Visits[t].kind = "neighbors" /\ Visits[t].at # NULL
        /\ Visits[t].todo = Rest(g.in[v], g.out[v], 0, n - 1)
    BY <1>1, <1>3, <1>4, <1>5, <1>7, NeighborItrAt
  <2>5. GoodItr(g, y) /\ Visit(g, y) \in Abstract!Turns("neighbors", Rest(g.in[v], g.out[v], 0, n - 1))
    BY <1>1, <1>3, <2>3, NeighborItrAt
  <2>6. Hold(t, y)
    BY <2>1, <2>2
  <2> HIDE DEF y
  <2> QED BY <2>4, <2>5, <2>6, Stepped
<1> QED BY <1>3, <1>6, <1>7 DEF AdvanceNeighbor

\* A walk that has come to an element of s and goes on to the next, or ends.
LEMMA WalkTurns ==
  ASSUME NEW s, NEW kind, NEW e, e # NULL, NEW f, NULL \notin Listed(s),
         \/ f = NULL /\ Behind(s, e) = {}
         \/ /\ f \in Listed(s) /\ f \in Behind(s, e)
            /\ Behind(s, f) = Behind(s, e) \ {f}
  PROVE  /\ At(s, kind, e).kind = kind /\ At(s, kind, e).at # NULL
         /\ At(s, kind, e).todo = Behind(s, e)
         /\ At(s, kind, f) \in Abstract!Turns(kind, Behind(s, e))
<1>1. /\ At(s, kind, e).kind = kind /\ At(s, kind, e).at # NULL
      /\ At(s, kind, e).todo = Behind(s, e)
  BY DEF At
<1>2. At(s, kind, f) \in Abstract!Turns(kind, Behind(s, e))
  BY Turning DEF At
<1> QED BY <1>1, <1>2

LEMMA WalkOnStep ==
  ASSUME IInv, NEW t \in Iterator, WalkOn(t)
  PROVE  IInv' /\ Abstract!DGStep(t)
<1> DEFINE last == itr[t].last
           v    == itr[t].of
<1>1. Visits[t] = Visit(g, itr[t]) /\ ItrOK(g, itr[t]) /\ OnList(g, itr[t]) /\ Good(g)
  BY VisitsAt
<1>2. last # NULL /\ Hold(t, [itr[t] EXCEPT !.last = NextOnWalk(itr[t])])
  BY DEF WalkOn
<1>3. CASE itr[t].kind = "Vertex"
  <2> DEFINE s == g.vertices
             f == NextVertex(g, last)
  <2>1. itr[t] \in [kind : {"Vertex"}, of : {NULL}, last : Listed(s) \cup {NULL}]
    BY <1>1, <1>3, ItrKinds
  <2>2. /\ last \in Listed(s) /\ itr[t] = Walk("Vertex", NULL, last)
        /\ [itr[t] EXCEPT !.last = f] = Walk("Vertex", NULL, f)
    BY <1>2, <2>1 DEF Walk
  <2>3. NextOnWalk(itr[t]) = f
    BY <1>3 DEF NextOnWalk
  <2>4. Hold(t, Walk("Vertex", NULL, f))
    BY <1>2, <2>2, <2>3
  <2>5. NULL \notin Listed(s)
    BY <1>1, Parts, NameAssumption DEF NULL
  <2>6. \/ f = NULL /\ Behind(s, last) = {}
        \/ /\ f \in Listed(s) /\ f \in Behind(s, last)
           /\ Behind(s, f) = Behind(s, last) \ {f}
    BY <1>1, <2>2, NextVertexIs
  <2> HIDE DEF f, last
  <2>7. /\ Visits[t] = At(s, "nodes", last)
        /\ GoodItr(g, Walk("Vertex", NULL, f))
        /\ Visit(g, Walk("Vertex", NULL, f)) = At(s, "nodes", f)
    BY <1>1, <2>2, <2>6, VertexWalkAt
  <2> HIDE DEF s
  <2>8. /\ Visits[t].kind = "nodes" /\ Visits[t].at # NULL /\ Visits[t].todo = Behind(s, last)
        /\ At(s, "nodes", f) \in Abstract!Turns("nodes", Behind(s, last))
    BY <1>2, <2>5, <2>6, <2>7, WalkTurns
  <2> QED BY <2>4, <2>7, <2>8, Stepped
<1>4. CASE itr[t].kind = "Edge"
  <2> DEFINE s == g.edges
             f == NextOf(s, last)
  <2>1. itr[t] \in [kind : {"Edge"}, of : {NULL}, last : Arc \cup {NULL}]
    BY <1>1, <1>4, ItrKinds
  <2>2. /\ last \in Listed(s) /\ itr[t] = Walk("Edge", NULL, last)
        /\ [itr[t] EXCEPT !.last = f] = Walk("Edge", NULL, f)
    BY <1>1, <1>2, <1>4, <2>1 DEF Walk, OnList
  <2>3. NextOnWalk(itr[t]) = f
    BY <1>4 DEF NextOnWalk
  <2>4. Hold(t, Walk("Edge", NULL, f))
    BY <1>2, <2>2, <2>3
  <2>5. NULL \notin Listed(s)
    BY <1>1, Parts, ArcsAreNotNull
  <2>6. \/ f = NULL /\ Behind(s, last) = {}
        \/ /\ f \in Listed(s) /\ f \in Behind(s, last)
           /\ Behind(s, f) = Behind(s, last) \ {f}
    BY <1>1, <2>2, Parts, NextOfIs
  <2> HIDE DEF f, last
  <2>7. /\ Visits[t] = At(s, "arcs", last)
        /\ GoodItr(g, Walk("Edge", NULL, f))
        /\ Visit(g, Walk("Edge", NULL, f)) = At(s, "arcs", f)
    BY <1>1, <2>2, <2>6, EdgeWalkAt
  <2> HIDE DEF s
  <2>8. /\ Visits[t].kind = "arcs" /\ Visits[t].at # NULL /\ Visits[t].todo = Behind(s, last)
        /\ At(s, "arcs", f) \in Abstract!Turns("arcs", Behind(s, last))
    BY <1>2, <2>5, <2>6, <2>7, WalkTurns
  <2> QED BY <2>4, <2>7, <2>8, Stepped
<1>5. CASE itr[t].kind = "Parent"
  <2> DEFINE s == g.in[v]
             e == <<last, v>>
             f == NextOf(s, e)
  <2>1. itr[t] \in [kind : {"Parent", "Child"}, of : Listed(g.vertices),
                    last : Listed(g.vertices) \cup {NULL}]
    BY <1>1, <1>5, ItrKinds
  <2>2. /\ v \in Listed(g.vertices) /\ v \in Name /\ last \in Name /\ e \in Listed(s)
        /\ itr[t] = Walk("Parent", v, last)
        /\ [itr[t] EXCEPT !.last = End(f, 1)] = Walk("Parent", v, End(f, 1))
    BY <1>1, <1>2, <1>5, <2>1, Parts DEF Walk, OnList
  <2>3. /\ s \in Seq(Arc) /\ NoRepeat(s) /\ e \in Listed(g.edges) /\ e \in Arc
        /\ NULL \notin Listed(s)
    <3>1. Good(g) /\ v \in Name
      BY <1>1, <2>2
    <3>2. /\ s \in Seq(Arc) /\ NoRepeat(s) /\ NULL \notin Listed(s)
          /\ Listed(s) \subseteq Listed(g.edges) /\ Listed(s) \subseteq Arc
      BY <3>1, ListsOf
    <3> QED BY <2>2, <3>2
  <2>4. NextOnWalk(itr[t]) = End(f, 1)
    <3>1. GetEdge(g, last, v) = e
      BY <1>1, <2>2, <2>3, GetEdgeIs
    <3> QED BY <1>5, <3>1 DEF NextOnWalk, NextParent
  <2>5. Hold(t, Walk("Parent", v, End(f, 1)))
    BY <1>2, <2>2, <2>4
  <2>6. \/ f = NULL /\ Behind(s, e) = {}
        \/ /\ f \in Listed(s) /\ f \in Behind(s, e)
           /\ Behind(s, f) = Behind(s, e) \ {f}
    BY <2>2, <2>3, NextOfIs
  <2>7. e # NULL /\ End(e, 1) = last
    BY <2>3, ArcsAreNotNull DEF End
  <2> HIDE DEF f, e, last, v
  <2>8. /\ Visits[t] = At(s, "parents", e)
        /\ GoodItr(g, Walk("Parent", v, End(f, 1)))
        /\ Visit(g, Walk("Parent", v, End(f, 1))) = At(s, "parents", f)
    BY <1>1, <2>2, <2>6, <2>7, ParentWalkAt
  <2> HIDE DEF s
  <2>9. /\ Visits[t].kind = "parents" /\ Visits[t].at # NULL /\ Visits[t].todo = Behind(s, e)
        /\ At(s, "parents", f) \in Abstract!Turns("parents", Behind(s, e))
    BY <2>3, <2>6, <2>7, <2>8, WalkTurns
  <2> QED BY <2>5, <2>8, <2>9, Stepped
<1>6. CASE itr[t].kind = "Child"
  <2> DEFINE s == g.out[v]
             e == <<v, last>>
             f == IF g.directed THEN NextOf(s, e) ELSE NULL
             left == IF g.directed THEN Behind(s, e) ELSE {}
  <2>1. itr[t] \in [kind : {"Parent", "Child"}, of : Listed(g.vertices),
                    last : Listed(g.vertices) \cup {NULL}]
    BY <1>1, <1>6, ItrKinds
  <2>2. /\ v \in Listed(g.vertices) /\ v \in Name /\ last \in Name /\ e \in Listed(s)
        /\ itr[t] = Walk("Child", v, last)
        /\ [itr[t] EXCEPT !.last = End(f, 2)] = Walk("Child", v, End(f, 2))
    BY <1>1, <1>2, <1>6, <2>1, Parts DEF Walk, OnList
  <2>3. /\ s \in Seq(Arc) /\ NoRepeat(s) /\ e \in Listed(g.edges) /\ e \in Arc
        /\ NULL \notin Listed(s)
    <3>1. Good(g) /\ v \in Name
      BY <1>1, <2>2
    <3>2. /\ s \in Seq(Arc) /\ NoRepeat(s) /\ NULL \notin Listed(s)
          /\ Listed(s) \subseteq Listed(g.edges) /\ Listed(s) \subseteq Arc
      BY <3>1, ListsOf
    <3> QED BY <2>2, <3>2
  <2>4. NextOnWalk(itr[t]) = End(f, 2)
    <3>1. GetEdge(g, v, last) = e
      BY <1>1, <2>2, <2>3, GetEdgeIs
    <3> QED BY <1>6, <3>1 DEF NextOnWalk, NextChild, End
  <2>5. Hold(t, Walk("Child", v, End(f, 2)))
    BY <1>2, <2>2, <2>4
  <2>6. \/ f = NULL /\ left = {}
        \/ f \in Listed(s) /\ f \in left /\ Behind(s, f) = left \ {f}
    BY <2>2, <2>3, NextOfIs
  <2>7. e # NULL /\ End(e, 2) = last
    BY <2>3, ArcsAreNotNull DEF End
  <2> HIDE DEF f, e, last, v
  <2>8. /\ Visits[t] = At(s, "children", e)
        /\ GoodItr(g, Walk("Child", v, End(f, 2)))
        /\ Visit(g, Walk("Child", v, End(f, 2))) = At(s, "children", f)
    BY <1>1, <2>2, <2>6, <2>7, ChildWalkAt
  <2> HIDE DEF s
  <2>9. Visits[t].kind = "children" /\ Visits[t].at # NULL /\ Visits[t].todo = Behind(s, e)
    BY <2>7, <2>8 DEF At
  <2>10. left = IF ~ g.directed THEN {} ELSE Visits[t].todo
    BY <2>9
  <2> HIDE DEF left
  <2>11. At(s, "children", f) \in Abstract!Turns("children", left)
    BY <2>3, <2>6, Turning DEF At
  <2> QED BY <2>5, <2>8, <2>9, <2>10, <2>11, Stepped
<1> QED BY <1>3, <1>4, <1>5, <1>6 DEF WalkOn

-----------------------------------------------------------------------------
LEMMA InitLemma ==
  ASSUME Init
  PROVE  IInv /\ Abstract!DGInit
<1>1. PICK b \in BOOLEAN : g = Empty(b)
  BY DEF Init
<1>2. Good(g) /\ Listed(g.vertices) = {} /\ Listed(g.edges) = {} /\ g.directed \in BOOLEAN
  BY <1>1, EmptyGood, Parts
<1>3. DOMAIN itr = Iterator /\ \A t \in Iterator : itr[t] = Unused
  BY DEF Init
<1>4. \A t \in Iterator : GoodItr(g, itr[t]) /\ Visit(g, itr[t]) = Abstract!Off
  BY <1>3, UnusedAt
<1> QED BY <1>2, <1>3, <1>4 DEF IInv, Abstract!DGInit, Vertices

LEMMA StepLemma ==
  ASSUME IInv, [Next]_vars
  PROVE  IInv' /\ AbstractStep
<1> USE DEF AbstractStep
<1>1. ASSUME NEW v \in Name, AddVertex(v) PROVE IInv' /\ AbstractStep
  BY <1>1, AddVertexStep DEF Abstract!DGNext
<1>2. ASSUME NEW u \in Vertices, NEW v \in Vertices, AddEdge(u, v) PROVE IInv' /\ AbstractStep
  <2>1. u \in Name /\ v \in Name
    BY Parts DEF IInv, Vertices
  <2> QED BY <1>2, <2>1, AddEdgeStep DEF Abstract!DGNext
<1>3. ASSUME NEW b \in BOOLEAN, SetDirected(b) PROVE IInv' /\ AbstractStep
  BY <1>3, SetDirectedStep DEF Abstract!DGNext
<1>4. ASSUME NEW t \in Iterator, CreateVertexItr(t) \/ WalkVertices(t)
      PROVE  IInv' /\ AbstractStep
  <2>1. IInv' /\ Abstract!DGBegin(t, "nodes", Abstract!Over)
    BY <1>4, CreateVertexItrStep, WalkVerticesStep DEF NULL, Abstract!Over
  <2> QED BY <2>1 DEF Abstract!DGNext
<1>5. ASSUME NEW t \in Iterator, CreateEdgeItr(t) \/ WalkEdges(t)
      PROVE  IInv' /\ AbstractStep
  <2>1. IInv' /\ Abstract!DGBegin(t, "arcs", Abstract!Over)
    BY <1>5, CreateEdgeItrStep, WalkEdgesStep DEF NULL, Abstract!Over
  <2> QED BY <2>1 DEF Abstract!DGNext
<1>6. ASSUME NEW t \in Iterator, NEW v \in Vertices,
             CreateNeighborItr(t, v) \/ WalkParents(t, v) \/ WalkChildren(t, v)
      PROVE  IInv' /\ AbstractStep
  <2>1. IInv' /\ \E k \in {"neighbors", "parents", "children"} : Abstract!DGBegin(t, k, v)
    BY <1>6, CreateNeighborItrStep, WalkParentsStep, WalkChildrenStep
  <2> QED BY <2>1 DEF Abstract!DGNext
<1>7. ASSUME NEW t \in Iterator, Advance(t) \/ AdvanceNeighbor(t) \/ WalkOn(t)
      PROVE  IInv' /\ AbstractStep
  <2>1. IInv' /\ Abstract!DGStep(t)
    BY <1>7, AdvanceStep, AdvanceNeighborStep, WalkOnStep
  <2> QED BY <2>1 DEF Abstract!DGNext
<1>8. ASSUME NEW t \in Iterator, Destroy(t) PROVE IInv' /\ AbstractStep
  BY <1>8, DestroyStep DEF Abstract!DGNext
<1>9. CASE UNCHANGED vars
  BY <1>9 DEF vars, IInv, Abstract!dgVars, Vertices
<1> HIDE DEF AbstractStep
<1> QED BY <1>1, <1>2, <1>3, <1>4, <1>5, <1>6, <1>7, <1>8, <1>9 DEF Next

LEMMA Invariance == Spec => []IInv
<1>1. Init => IInv
  BY InitLemma
<1>2. IInv /\ [Next]_vars => IInv'
  BY StepLemma
<1> QED BY <1>1, <1>2, PTL DEF Spec

\* Types: graphs stay lists of labels and of pairs of them, and no iterator is
\* ever past either end of its list or at a vertex the graph does not have.
THEOREM TypeCorrect == Spec => []TypeOK
<1>1. IInv => TypeOK
  BY DEF IInv, TypeOK, Good, GoodItr
<1> QED BY <1>1, Invariance, PTL

\* The map of the graph and those of its vertices always agree on the edges.
THEOREM FiledAlike == Spec => []Filed
<1>1. IInv => Filed
  BY DEF IInv, Filed, Good
<1> QED BY <1>1, Invariance, PTL

\* Graph_GetEdge finds an edge if and only if it was added, whatever labels are
\* run together in the keys, as long as none of them begins another.
THEOREM LookupFinds == Spec => []Lookup
<1>1. IInv => Lookup
  BY GetEdgeIs DEF IInv, Lookup
<1> QED BY <1>1, Invariance, PTL

\* Association lists with iterators on them implement sets with visitors.
THEOREM Implementation == Spec => Implements
<1>1. Init => Abstract!DGInit
  BY InitLemma
<1>2. IInv /\ [Next]_vars => [Abstract!DGNext]_(Abstract!dgVars)
  BY StepLemma DEF AbstractStep
<1> QED BY <1>1, <1>2, Invariance, PTL DEF Spec, Implements, Abstract!DGSpec
=============================================================================
