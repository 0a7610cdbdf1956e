--------------------------- MODULE MCTableMessages --------------------------
(***************************************************************************)
(* TLC instances of TableMessages: small networks with mixed cardinalities *)
(* and zeros among their tables, on every junction tree of their cliques.  *)
(***************************************************************************)
EXTENDS TableMessages

JunctionTrees ==
  {E \in SUBSET Edges(Clique) :
     /\ Cardinality(E) = Cardinality(Clique) - 1
     /\ IsTree(Clique, E)
     /\ \A c, d \in Clique : \A x \in c \cap d :
          Connected(Clique, {e \in E : x \in Sepset(e)}, c, d)}

\* Entries step * k + offset modulo a small number.
Table(S, p) ==
  [vbls |-> S, data |-> [k \in 0 .. GetCardinality(S) - 1 |-> <<(p[1] * k + p[2]) % p[3], 1>>]]

\* 1 <- 2 -> 3 -> 4, and 5 on its own, which the tree joins by a separator
\* without variables.  Two cliques could take the table of 2.
ChainCards == <<2, 3, 2, 2, 1>>
ChainCliques == {{1, 2}, {2, 3}, {3, 4}, {5}}
ChainTables(p) ==
  <<Table({2}, p), Table({1, 2}, p), Table({2, 3}, p), Table({3, 4}, p), Table({5}, p)>>
\* In the second network the clique {2, 3} gets no table, and 3 comes with
\* a message.
ChainNetworks ==
  {ChainTables(<<2, 3, 4>>) \o <<Observation(2, 1), Observation(3, 0)>>,
   <<Table({1, 2}, <<1, 1, 3>>), Table({3, 4}, <<2, 3, 4>>), Table({5}, <<1, 1, 3>>)>>}
\* The only zeros are those of an observation (Observation_CreateLog, in the
\* log variants) of the variable that two of the cliques share.
ObservedNetworks == {ChainTables(<<1, 1, 9>>) \o <<Observation(2, 1)>>}
ChainOrders == {<<{1, 2}, {2, 3}, {5}, {3, 4}>>}

\* 1 -> 3 -> 2, with 3 last in the ordering: the sets GatherElimSets and
\* RemoveNonCliques leave of it: the set of 3 moves down to the slot of 1, and
\* {2}, now above it, is compared with nothing.
NestedCards == <<2, 2, 2>>
NestedCliques == {{1, 2, 3}, {2}}
NestedNetworks ==
  {<<Table({1}, p), Table({1, 3}, q), Table({2, 3}, p)>> : p, q \in {<<1, 1, 3>>, <<2, 3, 4>>}}

AnyOrder == SetToSeqs(Clique)
=============================================================================
