-------------------------- MODULE ElimSetsDetailed --------------------------
(***************************************************************************)
(* From the tables of a network to its elimination cliques on the data the *)
(* code works on: BNet_Create fills a graph from the tables, Graph_Copy    *)
(* and MoralGraph walk it through its maps, and an elimination set is a    *)
(* bit vector over the variable ordering while the loops count ranks of    *)
(* the elimination ordering.  ElimSets is what all of this amounts to.     *)
(***************************************************************************)
EXTENDS LabelledGraph, BitVector, FiniteSets, SequencesExt

CONSTANTS
  vbls,       \* the variable ordering of the network: a sequence of all labels
  Networks    \* the networks: each a sequence of tables

\* A table is for a variable and names its parents in some order, of which the
\* variable is none.
ASSUME VblsAssumption == vbls \in Seq(Name) /\ ToSet(vbls) = Name /\ IsInjective(vbls)
ASSUME NetworksAssumption ==
  Networks \subseteq Seq({t \in [tableFor : Name, parents : Seq(Name)] :
                            t.tableFor \notin ToSet(t.parents)})

N == Len(vbls)
Rank == 0 .. N-1

\* NULL in a slot of the collection.
NoSet == [bits |-> <<>>, size |-> 0]

VARIABLES
  tables,   \* the CPTs, in the order given
  o,        \* the elimination ordering
  imm,      \* initialGraph
  moral,    \* the copy of it MoralGraph makes and returns
  cur,      \* the vertex the walk over imm has come to
  esc,      \* elim_sets of the ElimSetCollection
  i, j,     \* loop variables
  pc

vars == <<tables, o, imm, moral, cur, esc, i, j, pc>>

\* Orderings look labels up from their start.
RankByLabel(s, label) == (CHOOSE k \in DOMAIN s : s[k] = label) - 1

\* The walk from GetFstParent over GetNxtParent, up to the first NULL.
ParentList(g, v) ==
  LET walk[n \in 1 .. N+1] ==
        IF n = 1 THEN FirstParent(g, v)
        ELSE LET last == walk[n-1]
             IN  IF last = NULL THEN NULL ELSE NextParent(g, v, last)
      end == CHOOSE n \in 1 .. N+1 : walk[n] = NULL /\ \A m \in 1 .. n-1 : walk[m] # NULL
  IN  [n \in 1 .. end-1 |-> walk[n]]

\* The walk of a NeighborItr: the other ends of the in-edges, then of the
\* out-edges.
NeighborList(g, v) ==
  [k \in DOMAIN g.in[v] |-> g.in[v][k][1]] \o [k \in DOMAIN g.out[v] |-> g.out[v][k][2]]

-----------------------------------------------------------------------------
Init ==
  /\ tables \in Networks
  /\ o \in {s \in [1 .. N -> Name] : ToSet(s) = Name}
  /\ imm = Empty(TRUE) /\ moral = Empty(TRUE)
  /\ cur = NULL
  /\ esc = [k \in Rank |-> NoSet]
  /\ i = 0 /\ j = 0
  /\ pc = "vertices"

\* BNet_Create.
AddVariable ==
  /\ pc = "vertices"
  /\ i < N
  /\ imm' = WithVertex(imm, vbls[i + 1])
  /\ i' = i + 1
  /\ UNCHANGED <<tables, o, moral, cur, esc, j, pc>>

VariablesAdded ==
  /\ pc = "vertices"
  /\ i = N
  /\ pc' = "edges"
  /\ i' = 0
  /\ UNCHANGED <<tables, o, imm, moral, cur, esc, j>>

AddTable ==
  /\ pc = "edges"
  /\ i < Len(tables)
  /\ LET t == tables[i + 1]
     IN  imm' = WithEdges(imm, [n \in DOMAIN t.parents |-> <<t.parents[n], t.tableFor>>])
  /\ i' = i + 1
  /\ UNCHANGED <<tables, o, moral, cur, esc, j, pc>>

TablesAdded ==
  /\ pc = "edges"
  /\ i = Len(tables)
  /\ pc' = "copy"
  /\ cur' = FirstVertex(imm)
  /\ UNCHANGED <<tables, o, imm, moral, esc, i, j>>

-----------------------------------------------------------------------------
\* Graph_Copy: a vertex with its parents, new to the copy or not.
CopyVertex ==
  /\ pc = "copy"
  /\ cur # NULL
  /\ LET parents == ParentList(imm, cur)
     IN  moral' = WithEdges(WithVertices(moral, <<cur>> \o parents),
                            [n \in DOMAIN parents |-> <<parents[n], cur>>])
  /\ cur' = NextVertex(imm, cur)
  /\ UNCHANGED <<tables, o, imm, esc, i, j, pc>>

\* The copy is made undirected and the walk over imm starts again.
Copied ==
  /\ pc = "copy"
  /\ cur = NULL
  /\ moral' = [moral EXCEPT !.directed = FALSE]
  /\ cur' = FirstVertex(imm)
  /\ pc' = "moralize"
  /\ UNCHANGED <<tables, o, imm, esc, i, j>>

\* The pairs the loops over cursor1 and cursor2 come to: every member of the list
\* with every later one.
Pairs(list) ==
  FlattenSeq([n \in DOMAIN list |->
                [m \in 1 .. Len(list) - n |-> <<list[n], list[n + m]>>]])

MarryParents ==
  /\ pc = "moralize"
  /\ cur # NULL
  /\ moral' = WithEdges(moral, Pairs(ParentList(imm, cur)))
  /\ cur' = NextVertex(imm, cur)
  /\ UNCHANGED <<tables, o, imm, esc, i, j, pc>>

Moralized ==
  /\ pc = "moralize"
  /\ cur = NULL
  /\ pc' = "gather"
  /\ i' = N - 1
  /\ UNCHANGED <<tables, o, imm, moral, cur, esc, j>>

-----------------------------------------------------------------------------
ElimSetAdd(bv, v) == SetBitOn(bv, RankByLabel(vbls, v))

\* ElimSet_GetVertexList, whose loop starts at 0 and runs while its index is
\* greater than the size.
VertexList(bv) ==
  IF 0 > bv.size THEN SelectSeq(vbls, LAMBDA v : GetBit(bv, RankByLabel(vbls, v)))
                 ELSE <<>>

ConnectAll(g, list) ==
  WithEdges(g, FlattenSeq([n \in DOMAIN Pairs(list) |->
                             <<Pairs(list)[n], <<Pairs(list)[n][2], Pairs(list)[n][1]>>>>]))

\* The set of vertex v with those of its neighbours that the ordering ranks lower.
WithLower(ordering, g, v, rank) ==
  LET list == NeighborList(g, v)
      after[n \in 0 .. Len(list)] ==
        IF n = 0 THEN ElimSetAdd(BVCreate(N), v)
        ELSE LET bv == after[n-1]
             IN  IF RankByLabel(ordering, list[n]) < rank THEN ElimSetAdd(bv, list[n]) ELSE bv
  IN  after[Len(list)]

\* Mutant: the rank of a neighbour looked up in the other ordering.
ElimSetByVariableRank(g, v, rank) == WithLower(vbls, g, v, rank)

ElimSetOf(g, v, rank) == WithLower(o, g, v, rank)

Gather ==
  /\ pc = "gather"
  /\ i > -1
  /\ esc' = [esc EXCEPT ![i] = ElimSetOf(moral, o[i + 1], i)]
  /\ moral' = ConnectAll(moral, VertexList(esc'[i]))
  /\ i' = i - 1
  /\ UNCHANGED <<tables, o, imm, cur, j, pc>>

Gathered ==
  /\ pc = "gather"
  /\ i = -1
  /\ pc' = "reduce"
  /\ i' = 0
  /\ j' = 1
  /\ UNCHANGED <<tables, o, imm, moral, cur, esc>>

-----------------------------------------------------------------------------
\* ElimSet_Contains
ElimSetContains(this, other) == Equals(other, And(this, other))

NextSlot ==
  /\ pc = "reduce"
  /\ i < N
  /\ esc[i] = NoSet \/ j >= N
  /\ i' = i + 1
  /\ j' = i + 2
  /\ UNCHANGED <<tables, o, imm, moral, cur, esc, pc>>

NotContained ==
  /\ pc = "reduce"
  /\ i < N /\ j < N
  /\ esc[i] # NoSet
  /\ esc[j] # NoSet => ~ ElimSetContains(esc[j], esc[i])
  /\ j' = j + 1
  /\ UNCHANGED <<tables, o, imm, moral, cur, esc, i, pc>>

ReMap ==
  /\ pc = "reduce"
  /\ i < N /\ j < N
  /\ esc[i] # NoSet /\ esc[j] # NoSet
  /\ ElimSetContains(esc[j], esc[i])
  /\ esc' = [esc EXCEPT ![i] = esc[j], ![j] = NoSet]
  /\ j' = i + 1
  /\ UNCHANGED <<tables, o, imm, moral, cur, i, pc>>

Reduced ==
  /\ pc = "reduce"
  /\ i = N
  /\ pc' = "done"
  /\ UNCHANGED <<tables, o, imm, moral, cur, esc, i, j>>

Next ==
  \/ AddVariable \/ VariablesAdded \/ AddTable \/ TablesAdded
  \/ CopyVertex \/ Copied \/ MarryParents \/ Moralized
  \/ Gather \/ Gathered
  \/ NextSlot \/ NotContained \/ ReMap \/ Reduced

\* That the functions end is shown of ElimSets.
Spec == Init /\ [][Next]_vars

-----------------------------------------------------------------------------
\* The refinement mapping.  A vertex is its rank in o.
RankOf(v) == RankByLabel(o, v)

Arcs == {<<RankOf(x[2]), RankOf(tables[x[1]].tableFor)>> :
           x \in {y \in (DOMAIN tables) \X Name : y[2] \in ToSet(tables[y[1]].parents)}}

Early == pc \in {"vertices", "edges", "copy"}

\* What is left of the list of vertices from the one the walk has come to.
ToVisit == IF cur = NULL THEN {}
           ELSE LET at == CHOOSE k \in DOMAIN imm.vertices : imm.vertices[k] = cur
                IN  {imm.vertices[k] : k \in at .. Len(imm.vertices)}

Members(bv) ==
  IF bv = NoSet THEN {} ELSE {RankOf(vbls[k + 1]) : k \in {n \in Rank : GetBit(bv, n)}}

Abstract == INSTANCE ElimSets WITH
  Dags  <- {d \in SUBSET (Rank \X Rank) : \A a \in Rank : <<a, a>> \notin d},
  dag   <- Arcs,
  moral <- IF Early THEN {{a[1], a[2]} : a \in Arcs}
           ELSE {{RankOf(moral.edges[k][1]), RankOf(moral.edges[k][2])} :
                   k \in DOMAIN moral.edges},
  unwed <- IF Early THEN Rank
           ELSE IF pc = "moralize" THEN {RankOf(v) : v \in ToVisit} ELSE {},
  slots <- [k \in Rank |-> Members(esc[k])],
  i     <- IF Early \/ pc = "moralize" THEN N - 1 ELSE i,
  pc    <- IF Early THEN "moralize" ELSE pc

(***************************************************************************)
(* Whatever the order of the tables, of the parents in them and of the two *)
(* orderings, the lists, label lookups and bit vectors of the code compute *)
(* what ElimSets does with sets, and end as it does: the graph of the      *)
(* network and its copy have an edge for every parent and no other, every  *)
(* two parents of a vertex are married once, an elimination set has the    *)
(* members its bits say although it is built by one ordering and numbered  *)
(* by the other, and sets are compared with their padding left out.        *)
(***************************************************************************)
Implements == Abstract!Init /\ [][Abstract!Next]_(Abstract!vars)
=============================================================================
