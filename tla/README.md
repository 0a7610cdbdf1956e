# JunctionBox in TLA+

JunctionBox is a C library for exact inference in discrete Bayesian networks
with junction trees, with a Java front end that reads networks in XBIF. These
modules describe it from the parser's handler and the lists behind a graph to the
two sweeps of messages, and say what TLC has checked of it and what TLAPS has proved. Sources are named
relative to `src/src/components/`.

## The system

The program is sequential. One call follows another, and nothing is persisted.
What makes it hard is the chain of data structures: every stage relies on what
the one before it left, none checks it, and a failure is silent (a table
multiplied into no clique, a clique that heard of half the evidence) or is a
recursion that never ends.

| component | state | operations | interacts with |
|---|---|---|---|
| Graph (`JB_Graph/JB_Graph.c`, `JB_Util/Map.c`) | vertices, edges, in- and out-edges of each, in association lists keyed by labels | add, get, copy, connect all; iterators and walks over vertices, edges, neighbours, parents, children | everything |
| Moralisation and elimination sets (`JB_JunctionTree/JB_JunctionTree.c`) | the moral graph; one `ElimSet` per vertex in an `ElimSetCollection` | `MoralGraph`, `GatherElimSets`, `RemoveNonCliques` | reads the network's graph, feeds the elimination tree |
| Disjoint-set forest (`JB_Util/DSetForest.c`) | parents and ranks | `MakeSet`, `Union`, `GetRepresentative` | used by the elimination tree |
| Elimination tree (`JB_JunctionTree.c`) | tree, disjoint sets, sorted candidate edges | `ElimTree_Create` | shares the `ElimSet`s of the collection |
| Initial potentials (`JB_Inference/JB_Inference.c`) | a potential per clique and per separator | `InitializePotentials`, `AllContClqPot` | finds a clique for every CPT and observation |
| Messages and sweeps (`JB_Inference.c`, `VertexSet.c`) | potentials, marks, the recursion | `MessagePass`, `CollectEvidence`, `DistributeEvidence`, each with a `Log` twin | change the potentials along the tree |
| Potentials (`JB_Pot/JB_Pot.c`) | tables, index tables and their memo | indices, products, ratios, margins | used by messages |
| Model (`JB_Model/JB_Model.c`) | CPTs, observations, the network | create, destroy | input of everything above |
| Containers, bit vectors, variables, orderings (`JB_Util/`) | lists, association lists, words of bits | get, add, set operations | used everywhere |
| XBIF parser (`XBIFParser.java`), SWIG interface | the state of a SAX handler that serves all files of a command line | start, characters, end | builds a model, then calls inference |

What makes each component correct, and what is hard in it:

- *Elimination sets.* The scope of every CPT (a variable with its parents) lies
  inside one surviving set, and the survivors are the cliques. Hard: sets move
  between slots while two loops run over them, and a scan is restarted.
- *Disjoint sets.* Equal representatives exactly for elements that have been
  united. Hard: compression rewrites a path while outer frames still stand on it,
  and a union makes two lookups before it links.
- *Elimination tree.* A spanning tree of largest separators, hence a junction tree
  when the cliques are those of a triangulated graph. Hard: the graph and the
  disjoint sets have to agree, the loop stops early, equal candidates come in any order.
- *Messages.* Each factor counts exactly once, whatever is sent how often. Hard: a
  message divides by what the previous one over the edge left behind.
- *Sweeps.* After a collection the root has everything, after a distribution so
  has every clique. Hard: recursion with a shared set of marks and an iterator
  used by two loops, and callers who sweep in any order and number.
- *Potentials.* After any messages a clique's table is the margin of the CPTs and
  observations it has absorbed. Hard: index tables between two numberings, made once
  and looked up by half of what they depend on; zeros in a divisor; sets of
  variables that are equal, or empty.
- *Graph.* The lists an edge is filed in agree, it is found by its key, and a walk comes
  to everything once. Hard: the key runs two labels together, each list refuses keys
  by itself, and iterators are in use while the graph grows.
- *Bit vectors and orderings.* A set has the members its bits say. Hard: ranks come from one
  ordering and bits from another, the last byte is padded, both lookups are by label.
- *Parser.* After a document the maps hold what it says. Hard: one state number for
  nested elements, fixed states on their ends, and no reset after a document that broke off.

`PROJECT.json` lists the hazards with their lines.

## Modules

| module | models | rests on |
|---|---|---|
| `LabelledGraph` | the association lists of a graph and the functions that add, find and go on | |
| `Digraph` | what a graph promises: nodes, arcs and visitors: the abstract specification | |
| `Graph` | a graph under any sequence of calls, with iterators and walks in progress | `LabelledGraph`; implements `Digraph` |
| `BitVector` | `BitVector.c`, as far as elimination sets use it | |
| `ElimSetsDetailed` | `BNet_Create`, `Graph_Copy` and what `ElimSets` models, on lists, labels, two orderings and bit vectors | `LabelledGraph`, `BitVector`; implements `ElimSets` |
| `ElimSets` | `MoralGraph`, `GatherElimSets`, `RemoveNonCliques`, one action per round of each loop | |
| `Partition` | disjoint sets as a function to representatives | |
| `DisjointSets` | what the forest promises for the elements a call is given: the abstract specification | `Partition` |
| `DSetForest` | `DSetForest.c`, one action per assignment, recursion as a stack | `Partition`; implements `DisjointSets` |
| `Connectivity` | undirected graphs: connection, trees, sides of an edge (no code of its own) | |
| `ElimTree` | `ElimTree_Create`, one action per iteration of Kruskal's loop | `Partition`, `Connectivity` |
| `BuildElimTree` | `BNet_BuildElimTree` | `ElimSets` composed with an instance of `ElimTree` |
| `Messages` | `MessagePass` called in any order, on the factors a potential has absorbed | `Connectivity` |
| `Propagation` | the sweeps, with their stack, marks and iterators | `Messages`, whose steps they schedule |
| `Tables` | `JB_Pot.c`: numbering of values, index tables, product, ratio, margin | |
| `TableMessages` | `InitializePotentials` and `MessagePass` on tables of numbers, with the memo, and the query | `Messages`, whose steps it details, and `Tables` |
| `Inference` | inference as its caller has it: `InitializePotentials`, then sweeps on tables | `Propagation` composed with `TableMessages` |
| `XBIFParser` | the SAX handler of `XBIFParser.java`, over several documents | |
| `MC...` | instances for TLC | |
| `...Proofs` | theorems and proofs | the module they are named after |
| `Lemmas` | what the proofs share: trees and their sides, loops, folds over finite sets | `Connectivity` |

Operators named in a comment as a *mutant* are not part of any specification.
Each replaces a definition by one with a plausible bug, and the property listed
with it in `PROJECT.json` is then violated: every property is shown to be able to fail.

### How state and actions correspond to the code

**LabelledGraph, Graph.** A label is the sequence of its words, so that the space
`srcsink` puts between two labels is a boundary like those inside the label of a clique.
A list is a sequence with the newest element first, where `Map_Add` puts it. No
function of `JB_Graph.c` takes anything out, so that a pointer into a list is the number
of elements from there to its end. `itr` holds iterators (`VertexItr`, `EdgeItr`,
`NeighborItr`) and *walks*: `GetFst...`, `GetNxt...`, whose only state is the object
the caller was given last. `Digraph` says what all of these are for: `DGBegin` is any
`Create` or `GetFst`, `DGStep` any `Advance` or `GetNxt`, and what there is still to come
to is fixed when the visit begins. Children end when the graph turns undirected, as the
code has it.

**ElimSetsDetailed, BitVector.** The same control as `ElimSets`, preceded by
`BNet_Create` (`AddVariable`, `AddTable`) and `Graph_Copy` (`CopyVertex`), whose effects
`ElimSets` starts from: in the refinement mapping these steps stutter. `imm` and `moral` are labelled
graphs, `cur` the vertex of the walk over `imm`, `esc` bit vectors numbered by `vbls`
while `i` counts in `o`. A char is the set of its bits. `ElimSet_Add` drops an unknown label
and lookups may return -1; labels of the model are all known, as the constructors leave them.
A loop over a list that changes one thing is a function from the number of rounds to what it has become.

**XBIFParser.** One action per branch of `endElement`, one each for `startElement`, `characters`,
`startDocument`; `Entered` is the state table of `startElement`. The reader is the
environment: it reports a document's elements in order (`Report`) and `BreakOff` is an error in
its form, at any point; `EndRaises` are the exceptions the handler itself can throw, after
which `main()` goes on with the next file as it is. Text is made of pieces, so that a text may
take several calls of `characters`; an unknown element in every declaration and white space between the elements
fill `cbuf` as they do in real files.

**ElimSets.** A vertex *is* its rank in the ordering `o`, so a choice of `dag`
stands for a network with an ordering of it. `slots` is `elim_sets`, with the
empty set for `NULL` (an `ElimSet` always holds its own vertex); `i` and `j` are
the loop variables. `Marry(v)` is a round of `MoralGraph`, in any order of the
vertices, for the graph is the same; `Gather` a round of `GatherElimSets`.
`VertexList` has the loop condition of `ElimSet_GetVertexList` as written,
`i > size`, and is therefore always empty: no fill-in edge is ever made. `NextSlot`,
`NotContained` and `ReMap` are the three ways through the body of
`RemoveNonCliques`; in `ReMap` the set moves, slot `j` becomes `NULL`, and
`j = -1; break; ... i = i-1; i++` is a scan of the same slot from `i+1`.

**DSetForest.** `parent` (whose domain is what `lookup` holds) and `rank` are
the nodes. A call of `GetRepresentative` or `Union` is entered by `CallGet` or
`CallUnion`; `StartLookup`, `Descend`, `FoundRoot`, `Compress` and `LookupDone`
walk up and compress on the way back, one assignment per step; `Link` or
`ReturnGet` ends the call. C does not fix which of `Union`'s two lookups goes first,
and `StartLookup` takes either. `asked` holds the arguments of the call in progress, as the
parameters of the C functions do, and is forgotten with the frames (`Leave`); in `DisjointSets` too it is kept from the call
to its return, which ties the answer to the element it is for. `rep` is a history variable for the refinement.

**ElimTree.** `next` walks the slots; `rep` is the disjoint sets, `edges` the
graph, `cand` the sorted candidates not looked at. The order in which qsort
leaves equal separators is a choice (`Widest`). A vertex is identified with
its set: labels spell out the members, so that a set in two slots gets one vertex.

**BuildElimTree.** `T` is `ElimTree` over the slots of `ElimSets`; its steps are
taken when the reduction has returned.

**Messages.** A potential is the vector of exponents with which the cliques' own
factors occur in it. Products add, ratios subtract, and margins keep exponents;
`MessagePassLog` does on logarithms what `MessagePass` does on values, and both
are one action. This keeps what the protocol decides (what was sent when over
which edge, and what it was divided by) and leaves the numbers to `TableMessages`.

**Propagation.** A frame is a vertex and what its neighbour iterator has still to
deliver. `CollectSkip`, `CollectRecurse`, `CollectReturn`, `Collected` are the ways
through `Vertex_CollectEvidence`; `DistributePass` is a round of the first loop of
`Vertex_DistributeEvidence`. Its second loop starts from an iterator that has run
to its end (`NeighborItr_Advance` leaves it there), so `Distributed` returns at
once. `root` is `vertices[0]` of the default ordering, any clique. `phase` is a
history variable: has a collection returned, and a distribution after it.
The caller may call either sweep at any time the other is not running.

**Tables, TableMessages.** A variable is its rank, a clique the set of its variables, a
table a function from 0 on. Doubles are exact fractions in lowest terms (`Number`), so that equal numbers
are equal; one without a denominator is an infinity or, as 0/0, a NaN. With `Log` a number stands for the one whose logarithm the
code keeps: `log(0)` is 0, a difference of logarithms a quotient, and `-inf - -inf` comes
out as 0/0. An entry the code never writes, or past the end, is NaN too, so that anything
computed from it would show. `Position` is what `fix_vbls_indices` leaves: the place of a variable
when both sets are sorted together. `EnumerateValues` has no row for no variables
(the code returns NULL and 0), which is why `ComputeMargInd` may be `NULL` and why
`ComputeMulInd` of a set with itself has no columns. `MultiplyTable` is a round of the two outer loops of
`InitializePotentials`; `Send` is `MessagePass` of `Messages` together with what happens to the
tables, the separator and `mulMemo`. `Observation` is what both constructors of one make, with the
code's bound on the value. `margMemo` is left out: its cliques keep their
variables, so that an entry is always what would be computed. Calling `InitializePotentials`
again sets everything back, so the model starts with it.

**Inference.** A step is one of `Propagation` and, where it sends something, one of `TableMessages`:
`ReturnWithTable` and `PassTable` are `CollectReturn` and `DistributePass` joined with `Send`
for the same two cliques. Both share `tree`, `cont` and `sep` of `Messages`. A sweep starts when
all tables have been multiplied in (`CallSweep`), as `InitializePotentials` returns only then. `Informed` is
the root after a collection and its neighbours as well after a distribution, `phase` of
`Propagation` being the history that says which.

## What is checked

| run | instance | distinct states | shows |
|---|---|---|---|
| `network_to_tree` | every labelled DAG on 4 vertices | 23,451 | `FamilyCovered`, `FamilyHoused`: no CPT is lost by gathering or reducing, and each has a vertex of the tree. `NoSetBelowASuperset`, `OnlyAbsorbs`: the reduction drops only what is inside something kept, and no set stays below one that contains it. `CliquesWhenPerfect`, `JunctionTree`: without need of fill-in exactly the maximal cliques remain, and the tree has running intersection. `Finishes`: the call returns. |
| `dset_forest` | 4 elements, ranks to 3 | 490,025 | `Implements` (`DisjointSets`): an answer is the representative of the element asked for, a union joins the sets of the two given, and no assignment on the way moves an element. `RankIncreases`. `CallsReturn`. |
| `elim_tree` | 4 slots of sets over 3 variables, no set twice | 59,075 | `TreesAreSets`: the two structures agree. `SpanningTree`, `WidestSeparators`: a spanning tree, and none is wider. `WidestPaths`: no path is narrower than the intersection of its ends. |
| `propagation` | all trees over 4 cliques, all roots | 8,912 | `RootComplete`, `NeighborsComplete`, `CompleteMessages`. `RepeatsChangeNothing`: a collection after a collection, or a distribution after one that completed the neighbours, finds in each separator what it is about to send. `SweepsReturn`. |
| `inference` | a chain of 3 cliques and one apart, which makes a chain or a star of them, all roots; 5 variables of 1 to 3 values, a network without evidence in which one clique has no table, and one with | 2,408 | Sweeps in any order and number, neighbours in any order. `NoDoubleCount`, `Charge`, `SpreadsFromHome`, `NothingForgotten`: which tables a potential has absorbed. `JointKept`: each CPT is counted once and messages keep what the tree stands for. `Exact`, `SeparatorsExact`: at any time, before the first message and in the middle of a sweep too, tables and separators are margins of the cliques they have absorbed, zeros included, and over an empty separator nothing passes. `MemoCurrent`: the index tables found are those that would be made. `Answers`: a query gives the margin of all the cliques that can reach the one asked, once they have. `SweepsAnswer`: they have as soon as a collection has returned, for its root, and as soon as a distribution has after it, for the root's neighbours. `MarginalsConsistent`: such cliques agree on the variables they share. `StaysZero`. |
| `graph` | 3 labels of cliques that begin alike (`A `, `B `, `A B `), 3 edges, one iterator or walk at a time | 282,106 | `Filed`: the three maps an edge is in agree. `Lookup`: an edge is found exactly if it was added. `Implements` (`Digraph`): every visit comes to everything that was there once, whatever is added meanwhile. |
| `elim_sets_detailed` | every acyclic network on 4 variables, parents in any order, tables in order or reversed, every elimination ordering, chars of 3 bits | 299,344 | `Implements` (`ElimSets`): lists, labels, orderings and bit vectors compute what `ElimSets` does with sets. |
| `xbif_parser` | any 4 of 3 documents: variables first with evidence, tables first, and one with a number that is none; breaking off anywhere | 40,822 | `NetworkRead`: what is handed on is what the document says, unless tables come first and the handler was left inside a tag. |

The reference definitions in `TableMessages` (`Place`, `JointOf`, `MarginOf`) range over assignments, as functions of
the variables, and know nothing of lists of values and index tables; only the order of a table's entries is
stated there again, digit by digit.

Four runs check what a comment or a test says and end in a counterexample:

- `elim_sets_triangulated`: `GatherElimSets` does not triangulate
  (`ElimSet_GetVertexList`, `JB_JunctionTree.c:128`).
- `propagation_calibrated`: `DistributeEvidence` stops at the neighbours of the
  root (`JB_Inference.c:391`), so that marginals of a variable differ between cliques.
- `table_messages_nested`: with a clique inside another one, as `RemoveNonCliques`
  leaves them for the plain chain 1 -> 3 -> 2, a message loses or zeroes what it should carry
  (`JB_Pot.c:380`; the workaround mentioned at `:304` is never called).
- `table_messages_log`: in logarithms entries that an observation has zeroed become NaN with the second
  message over an edge (`JB_Pot.c:642`). The CPTs of this instance have no zero, so that every zero is one that
  `Observation_CreateLog` made. The linear variant has a test for the case (`:626`); the comment over both
  (`JB_Pot.h:195`) promises one quotient.

These bound what the passing runs can say. With the first, `JunctionTree` and
`CliquesWhenPerfect` need their condition that the ordering is perfect, and for other orderings a
survivor may be inside one of lower rank, which is not compared with it. With the second,
`NeighborsComplete` says how far a distribution does get. With the third, the instance of
`inference` has no clique inside a neighbour, and the theorems about numbers say so (`NoneInside`). `Answers` in turn leaves out the clique
of a single variable: for it `ComputeMargInd` returns a null pointer, which
`Pot_SumMarginTabularSingleVbl` follows (`JB_Pot.c:692`).

**Bounds.** Four vertices are the fewest on which an ordering can need fill-in,
a chain of three sets can absorb one another, and a set can move over one it was
not compared with. Four elements give the forest paths of three nodes, so that a
compression is several assignments; `MaxRank` stops unions of a set whose root has rank 3, one
more than four elements need, so that a set whose root has rank 2 is still united and the second lookup of the
union too may climb and compress a path of three nodes. The bound exists because uniting a set with itself raises a rank for ever,
and such unions also give paths of four nodes. Four cliques give chains with two inner cliques (a distribution
can fail to reach the end) and stars. Exponents need no bound: `NoDoubleCount` keeps
them in {0, 1}. In `inference` the trees are a chain and the star that the fourth
clique, apart from the others, allows. Messages are sent there by sweeps only, which is all a caller can
bring about; `TableMessages` sends them in any order, and for that the properties are proved. Three cliques in a chain are the fewest that pass something on and have two different
separators; cardinalities 2 and 3 tell a wrong factor from a right one, and the entries,
small numbers made up by a step, an offset and a modulus, include zeros. Three labels of which one is the other two run together are the fewest for which `srcsink`
could make equal keys of different edges; three edges fill a list so that a pointer can
stand at its front, middle and end. Four bits in chars of three make a full byte and a padded one.
Four documents are enough to break off, raise, read the rest, and read again. Where a property is also proved, the bound only limits the run.

**Deadlock** is checked for `dset_forest`, `propagation`, `graph` and the runs on tables, whose
callers may always call again. The other programs end (the parser with its last file), so their
runs turn it off.

**Fairness.** The code is straight-line, recursive, single-threaded C that waits for
nothing: a step that is enabled is taken. `ElimSets` and `BuildElimTree` have weak fairness of
their next-state relation, `DSetForest` of the steps inside a call, `Propagation` of the steps inside a sweep.
Nobody is obliged to call, so calls have none; `Graph`, where every step is a call, and the
parser, whose reader may stop at any time, have no fairness. `ElimSetsDetailed` takes each step of
`ElimSets` in one of its own and is checked for safety only: its walks are over finite
lists, and that the loops end is shown of `ElimSets`.

## What is proved

Every theorem holds for all values of the constants: any number of vertices, any network and
ordering, any set of elements, any collection, any tree, any cardinalities and any tables. TLAPS
checks the proofs to the last leaf. The assumptions are those stated in the modules: there is a
vertex and no loop on one (`NAssumption`, `DagsAssumption`), an element (`ElementAssumption`), a
clique and finitely many of them (`CliqueAssumption`), finitely many variables
(`VariableAssumption`), each with a value (`CardAssumption`), no label that begins another
(`NameAssumption`), a variable ordering that lists every label once (`VblsAssumption`), tables of
which none has its own variable for a parent (`NetworksAssumption` of `ElimSetsDetailed`), a char
with a bit (`CharBitAssumption`), `MaxRank` and `Size` are numbers, collections are functions on the
slots; cliques are sets of variables (`ScopeAssumption`), `cliquePots` lists each once
(`OrdersAssumption`), every table fits into a clique and has its entries (`NetworksAssumption` of
`TableMessages`), and `NULL` is no index table (`NullAssumption`). `TreesAssumption`, that messages
go over a tree, is what `Spans` proves of `ElimTree_Create`; that a table fits into a clique is
`FamiliesCovered`; that `ElimTree` may use `Partition` for the forest is what `Implementation` in
`DSetForestProofs` proves.

- `BuildElimTreeProofs`, on `ElimSets`: `TypeCorrect`, `FamiliesCovered`, `NothingBelowASuperset`,
  `AbsorbsOnly`, `CliquesRemain`. The invariant adds where the loops stand
  (`IndexInv`), that the graph holds the skeleton and the marriages made so far
  (`MoralInv`), that the slots gathered so far are elimination sets of the moral graph, which
  gathering does not change (`GatherInv`), that no set is in two slots (`DistinctInv`) and
  that slot `i` is not inside the slots scanned (`ScanInv`). The last is the reason the
  restart is needed only for the slots above: a set `S_j` moved into `i` holds the old
  `S_i`, so if one of the slots passed contained it, it contained `S_i` too and would
  have been found. `CliquesRemain` adds that every slot has an origin among the elimination
  sets, that each of these is inside some slot, and, for a perfect ordering, an order on
  the ranks that rules out a survivor inside a lower one.
- `DSetForestProofs`: `TypeCorrect`, `RanksIncrease`, `Implementation`. The
  invariant says that a node, its parent and its representative have the same
  representative, which is a root (`RepInv`), that ranks grow along the stack and up to `ret`
  (`StackInv`), and that everything on the stack belongs to the set of the argument looked up, and
  lookups already done still name the representatives of theirs (`CallInv`).
- `ElimTreeProofs`: `TypeCorrect`, `TreesAndSetsAgree`, `Spans`, `PathsAreWidest`, `SeparatorsAreWidest`, `JunctionTreeFound`. Invariant: the
  edges make no cycle (each is a bridge), representatives agree with connection,
  a candidate gone has its ends connected, and the edges number the vertices less
  the trees. For `PathsAreWidest` two more (`Widths`): what is still to come is no wider than any
  edge, and the ends of a candidate that is gone are connected through edges as wide. A
  candidate inside one tree may then be rejected, or never looked at when the
  loop stops early: all edges are as wide as it is (`WideWhenTogether`). `JunctionTreeFound`: if the
  cliques have a junction tree, the edges added so far are part of one (`PartOfJunctionTree`). When
  `Join` adds an edge that one lacks, the path between the ends leaves the tree of the
  first by an edge still to come, whose sets share at least as much; being no wider it shares
  the same, and the two can be exchanged (`JoinExchanges`). It needs no sum of weights.
  `SeparatorsAreWidest` is the same exchange with the sum: a tree that is as wide as any can be kept
  that holds all edges added so far, and in the end it is the tree itself.
- `BuildElimTreeProofs`: `FamiliesHoused`, from `FamilyCovered` and that the slots
  passed have their vertices. `JunctionTreeBuilt`: in a perfect ordering the elimination sets have a
  junction tree, each hanging as a leaf from the set of its highest other member
  (`ElimSetsHaveOne`, over the least counterexample); a step of `RemoveNonCliques` drops a set
  inside another, and its neighbour on the way there can take over its place
  (`SurvivorsHaveOne`); the tree's vertices are the survivors, and `ElimTree` finds what there is.
- `Lemmas`: connection is an equivalence; in a tree an edge has
  exactly two sides, a side lies inside the side seen from one edge further off, and
  every other vertex is beyond some neighbour. For trees over sets with running intersection: an edge may
  be exchanged, a leaf added, and a set inside another absorbed (`ExchangeIsJunctionTree`,
  `LeafIsJunctionTree`, `ContainedAbsorbed`). And for what the model writes as a fold over a finite set:
  induction over a finite set with the property given as a set of its subsets (`FiniteInduction`, which
  needs no operator parameter), that a fold with a commutative monoid does not depend on the order
  (`TotalIsFold`, `TotalLaws`), and that such a total may be reordered, split into two or into many
  parts, and merged (`TotalReordered`, `TotalUnion`, `TotalParts`, `TotalMerged`).
- `PropagationProofs`, on `Messages`: `FactorsOnce`, `FactorsSpread`, `Monotone`, `ChargeKept`. The invariant
  `Downhill` looks along each edge towards the home of a factor: the nearer end has
  it if the farther end does, and the separator has it exactly when the farther end does.
  Hence a message that gives a clique a factor gives it to the separator too, which had none
  of it, and the count of `Charge` goes up by one on both sides.
- `PropagationProofs`, on `Propagation`: `SweepTypes`, `RootGetsAll`,
  `NeighborsGetAll`, `CompleteOnly`, `RepeatsAreIdle`. The invariant: the frames climb down from the root
  along the tree and marks follow (`ClimbInv`), each neighbour further down is still to
  come, being visited or finished (`TodoInv`), a finished vertex has delivered everything
  behind it (`FinishedInv`), and the neighbours a distribution has passed are complete.
  For `RepeatsAreIdle`: when the root is complete, a factor from behind an edge is connected with the root through
  separators that have it, so it is in that of this edge (`CarriedToRoot`); with `Downhill` a separator
  below the root then holds just what the sender has (`UpwardCurrent`), and once a
  neighbour is complete, what the root has (`DownwardCurrent`). Such a message changes nothing
  (`PassOfTheSame`).
- `GraphProofs`: `TypeCorrect`, `FiledAlike`, `LookupFinds`, `Implementation`. Keys tell edges apart
  because of two sequences that run together alike one of the first halves begins the other
  (`RunTogether`, `KeysDiffer`); hence a list never refuses an edge another takes, and the graph
  stays well filed (`Good`). The invariant `IInv` says that, and that every iterator is in
  the lists it runs over. The lists only grow at their front, so that what an iterator has
  still to come to does not change when something is added, and every
  move to the next element is one turn of the abstract visit (`Turn`, `LastTurn`).

- `ElimSetsDetailedProofs`: `Invariance`, `Implementation`, `TablesKept`, `NoneLeftContained`. The graphs are those of
  `GraphProofs`, whose lemmas are taken over. `IInv` says that both are well filed, where the walk over `imm` stands and
  how far each loop has come: which variables and whose arcs `BNet_Create` has added, that the copy has the arcs into the
  vertices passed, and that a slot is NULL or a vector of the right size with a bit on (`Placed`, `Slots`). Every loop over a list
  is shown to add what the list holds (`VerticesAdd`, `EdgesAdd`, `LowerIs`), by an induction over an
  interval whose property is given as a set (`IntervalInduction`, `LoopExists`); the walk over
  the parents ends because they are not more than the labels (`ParentListIs`); every two parents are a pair of the list
  once, in one order or the other (`MarriagesAre`), and the orderings number labels one to one
  (`Ranks`). `ContainsIs`: that no bit of an exclusive or is on, full bytes and padding apart, is inclusion. Then each action is a
  step of `ElimSets` or none (`Step`). `TablesKept` and `NoneLeftContained` take the invariant of
  `ElimSets` back to the bits.

- `TableMessagesProofs`, in five parts.
  - *Types and memo* (`TablesTypeCorrect`, `MemoStaysCurrent`). `TableInv`: a separator keeps the
    variables of its edge, so that a key that names only the target finds the right index table.
  - *Index tables.* Fractions in lowest terms are a commutative semiring in which division undoes
    multiplication by what is not 0 (`TimesLaws`, `PlusLaws`, `OverLaws`). `Place` numbers the values of a set of
    variables one to one from 0 (`PlaceBound`, `PlaceOnce`, `PlaceOnto`), the code's loop decodes it
    (`PlaceDecoded`), and the index table of `S` in `T` meets each entry of `T` exactly once, at the entry
    of `S` that agrees with it (`AgreeingLaws`, `AgreeingOnce`). With `DataInv`, that tables hold numbers, follows
    `ZerosStay`: what an observation has zeroed stays zero, outside the log variants.
  - *The joint* (`JointStays`). `ZerosShared`: where a separator is 0 both its ends are, so that the code's
    0/0 = 0 loses nothing; `JointInv` adds the product. Each message multiplies the receiver
    and the separator by the same ratio.
  - *Margins* (`TablesExact`, `SeparatorsAreExact`, `QueriesAnswered`). `Margin(cs, S, x)` is the sum over all
    values of the variables of the cliques `cs` outside `S`. It factors over parts that
    share no variable outside `S` (`MarginApart`), and may be taken in two goes (`MarginWithin`), both from the
    exchange of two sums (`SumTwice`). `ExactInv`: a potential is the margin of what it has absorbed (`Has`), a
    separator the product of the margins of what its two ends have from each other
    (`Across`). A message then sends own side times other side, the ratio cancels what was there
    before, and where something to be cancelled is 0 the result is 0 anyway (`RatioExact`), because
    a margin of fewer cliques that is 0 makes that of more cliques 0 (`MarginMore`). That the two sides of an edge
    share only the separator is running intersection (`SidesShare`); that a sender has
    absorbed all that the receiver has from its side is `Downhill` (`OwnHasMore`). An edge with an empty
    separator passes nothing (`PassNothing`), and `Absorbed` counts nothing from beyond it.
  - *The sweeps* (`SweepsAnswered`, `MarginalsAgree`). Every step of `Inference`
    is by definition one of `Propagation` and one of `TableMessages`, so that the invariants of both hold of it;
    the second needs that no sweep starts before the tables are in (`SweptLater`) and that a message goes over an edge.
    `RootGetsAll` and `NeighborsGetAll` then say that an informed clique has absorbed all that can reach it, and
    `CliqueAnswers` what its tables say. Two cliques that share a variable are reached by the same cliques,
    because running intersection connects them through separators that hold it (`ReachingAlike`).

  The last three parts are for `~ Log` and under `NoneInside`: no separator is a whole clique. The code needs
  both, as `table_messages_log` and `table_messages_nested` show. The margins and the sweeps also need `JunctionTrees`, that
  `Trees` have running intersection; the predicate is the one that `JunctionTreeFound` and `JunctionTreeBuilt`
  prove of the tree `ElimTree_Create` makes. The instance of `inference` meets all three.

Only model-checked: liveness (`Finishes`, `CallsReturn`, `SweepsReturn`), which is
out of the prover's reach, and `NetworkRead` of the parser, whose documents are flattened
and filtered by recursive definitions. The counterexamples of the four violated runs are TLC's too.

## Not modelled

- The calls with which `main()` makes a network of the parser's maps. Reading them showed two things
  that are listed as hazards: observations
  are made with `Observation_Create`, whose 1 and 0 the log variants then take for
  logarithms (`XBIFParser.java:773`), and the numbers of a table stay in the file's order while they are
  read in that of a `HashMap` (`:786`). `BuildSimpleBNetBase` (`JB_Inference.c:497-508`), a network for
  tests, gives P(A|D) a potential over A alone.
- Object lifetimes: the code mostly does not free, shares labels, and frees a few of those it
  shares (`JB_Inference.c:272`). Fields constructors leave unset (`JB_Model.c:28`, `:107`). Rounding, and table sizes beyond `int`.
- Orderings by state-space weight: every elimination ordering is covered. The pointer arrays and counts
  kept for printing.
- Memory, string and error wrappers, printing, `IntMap` (never filled), the hash table in `uthash.h`,
  the demo and the tests: no behaviour of their own that the modelled parts use. The C code that SWIG generates, and
  `java/opannotate/`, profiler listings that repeat most of the sources line by
  line, are copies of what is modelled or declared elsewhere. Together with the printing and the test networks at the end of
  `JB_Inference.c` these are the greater part of the repository's lines.

## Plan

In order of importance. Done: `ElimSets`, `DSetForest`, `ElimTree`, `BuildElimTree` (network to tree);
`Messages`, `Propagation` (tree to potentials); `Tables`, `TableMessages` (numbers); `Inference` (sweeps on numbers);
`LabelledGraph`, `Graph`, `BitVector`, `ElimSetsDetailed` (the data under them); `XBIFParser`. What is left:

1. One specification that goes on from the tree `BuildElimTree` leaves into `Inference`. `JunctionTreeBuilt`,
   `FamiliesHoused` and `Spans` prove what `Inference` assumes of its constants, but in TLA+ a tree found by a run cannot be
   the value of a constant: `Clique`, `Trees` and the tables would have to become variables.
2. The network `main()` builds, with the order of variables as a choice.
3. Overflow of table sizes, as an operator on its own.
