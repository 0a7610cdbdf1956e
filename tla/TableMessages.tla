--------------------------- MODULE TableMessages ----------------------------
(***************************************************************************)
(* Inference on tables: InitializePotentials multiplies the network's CPTs *)
(* and observations into the cliques, and messages in any order then       *)
(* change the tables.  Its messages are those of Messages, whose           *)
(* cont says which cliques' own tables a potential has absorbed, and the   *)
(* properties below say what numbers that amounts to.                      *)
(*                                                                         *)
(* A clique is the set of its variables, as ElimTree has it.               *)
(***************************************************************************)
EXTENDS Messages, Tables

CONSTANTS
  Networks,  \* sequences of potentials: the CPTs, then the observations
  Orders     \* in which order the pointers of cliquePots may stand

ASSUME ScopeAssumption == Clique \subseteq SUBSET Variables
ASSUME OrdersAssumption == Orders \subseteq SetToSeqs(Clique)

\* Each table has its entries, and its variables are in some clique, where
\* moralisation and triangulation put every family.
Tabulated(t) ==
  \E c \in Clique : \E S \in (SUBSET c) \ {{}} :
    t \in [vbls : {S}, data : [0 .. GetCardinality(S) - 1 -> Number]]

ASSUME NetworksAssumption ==
  \A ts \in Networks :
    /\ Len(ts) \in Nat /\ DOMAIN ts = 1 .. Len(ts)
    /\ \A i \in 1 .. Len(ts) : Tabulated(ts[i])

VARIABLES
  cliquePots,  \* the order in which InitializePotentials tries the cliques
  tables,      \* the network
  next,        \* the next of the tables to multiply in
  pot,         \* the potential of each clique
  sepPot,      \* the potential of each separator
  mulMemo      \* for each edge the index tables made so far, by target

tableVars == <<potVars, cliquePots, tables, next, pot, sepPot, mulMemo>>

\* ElimSet_Intersect: the variables of the separator on edge {u, w}.
Sepset(e) == {x \in Variables : \A c \in e : x \in c}

InitTables ==
  /\ InitializePotentials
  /\ cliquePots \in Orders
  /\ tables \in Networks
  /\ next = 1
  /\ pot = [c \in Clique |-> TabularUnity(c)]
  /\ sepPot = [e \in tree |-> TabularUnity(Sepset(e))]
  /\ mulMemo = [e \in tree |-> <<>>]

Containing(scope) == {j \in DOMAIN cliquePots : scope \subseteq cliquePots[j]}

\* Mutant: "break" is missing, and every clique that can takes the table.
MultiplyEverywhere ==
  /\ next <= Len(tables)
  /\ LET t == tables[next]
     IN pot' = [c \in Clique |->
                  IF t.vbls \subseteq c
                  THEN ProductTabular(t, pot[c], ComputeMargInd(c, t.vbls))
                  ELSE pot[c]]
  /\ next' = next + 1
  /\ UNCHANGED <<potVars, cliquePots, tables, sepPot, mulMemo>>

\* The first clique that contains the table's variables takes it; if none
\* does, the table is left out.
MultiplyTable ==
  /\ next <= Len(tables)
  /\ LET t == tables[next]
         c == cliquePots[Min(Containing(t.vbls))]
     IN pot' = IF Containing(t.vbls) = {} THEN pot
               ELSE [pot EXCEPT ![c] = ProductTabular(t, @, ComputeMargInd(c, t.vbls))]
  /\ next' = next + 1
  /\ UNCHANGED <<potVars, cliquePots, tables, sepPot, mulMemo>>

\* MulMemo_GetMulInd: the entry for target, and the memo with it.
Memoized(memo, scope, target) ==
  IF target \in DOMAIN memo THEN memo
  ELSE [t \in DOMAIN memo \cup {target} |->
          IF t \in DOMAIN memo THEN memo[t] ELSE ComputeMulInd(scope, target)]

\* The caller's margin onto the separator, found with the index table that
\* multiplies the separator into the caller.
Send(receiver, caller) ==
  LET e == {receiver, caller}
      scope == sepPot[e].vbls
      memo == Memoized(Memoized(mulMemo[e], scope, caller), scope, receiver)
      marg == SumMarginTabular(pot[caller], memo[caller])
      updateRatio == UpdateRatioTabular(marg, sepPot[e])
  IN /\ next > Len(tables)
     /\ MessagePass(receiver, caller)
     /\ pot' = [pot EXCEPT ![receiver] = ProductTabular(updateRatio, @, memo[receiver])]
     /\ sepPot' = [sepPot EXCEPT ![e] = marg]
     /\ mulMemo' = [mulMemo EXCEPT ![e] = memo]
     /\ UNCHANGED <<cliquePots, tables, next>>

\* The cliques a caller may query for variable v, by their places in
\* cliquePots: the order in which the list has them.
AllContClqPot(v) == Containing({v})

NextTables == MultiplyTable \/ \E receiver, caller \in Clique : Send(receiver, caller)

SpecTables == InitTables /\ [][NextTables]_tableVars

-----------------------------------------------------------------------------
(* What the tables should say, without index arithmetic *)

\* All values of a set of variables.
Assignments ==
  [S \in SUBSET Variables |->
     {x \in [S -> UNION {0 .. Card[v] - 1 : v \in S}] : \A v \in S : x[v] < Card[v]}]

\* How many values of the variables S come before x's when they are counted
\* "with a carry", the last variable fastest, as the comment on struct pot
\* has it.
Place(S, x) == MapThenFoldSet(LAMBDA v, k : k * Card[v] + x[v], 0, LAMBDA v : v, Max, S)

At(p, x) == p.data[Place(p.vbls, x)]

JointOf(ts, x) == ProductOf([i \in ts |-> At(tables[i], x)], ts)

Multiplied == 1 .. next - 1
TablesOf(cs) ==
  {i \in Multiplied : \E c \in cs : Containing(tables[i].vbls) # {} /\
                                   c = cliquePots[Min(Containing(tables[i].vbls))]}

\* The sum of the product of the tables the cliques cs took, over all values
\* of the cliques' variables that agree with x.
MarginOf(cs, x) ==
  LET others == (UNION cs) \ DOMAIN x
  IN SumOf([y \in Assignments[others] |->
              JointOf(TablesOf(cs),
                      [v \in DOMAIN x \cup others |-> IF v \in DOMAIN x THEN x[v] ELSE y[v]])],
           Assignments[others])

\* The separators that carry something.  Messages over the others change
\* nothing: there is no variable to agree on.
Carrying == {e \in tree : Sepset(e) # {}}

\* The cliques whose tables have got into a potential, by way of separators
\* that carry something.
Absorbed(exponents, c) ==
  {h \in Clique : exponents[h] = 1 /\ Connected(Clique, Carrying, h, c)}

-----------------------------------------------------------------------------
\* Each table has an entry for every value of its variables, each index
\* table stays inside the two tables it relates.
TablesTypeOK ==
  /\ PotsTypeOK
  /\ next \in 1 .. Len(tables) + 1
  /\ \A c \in Clique : pot[c].vbls = c /\ DOMAIN pot[c].data = 0 .. GetCardinality(c) - 1
  /\ \A e \in tree : \A c \in DOMAIN mulMemo[e] :
       /\ c \in e
       /\ DOMAIN mulMemo[e][c].indices = DOMAIN EnumerateValues(Sepset(e))
       /\ \A i \in DOMAIN mulMemo[e][c].indices :
            Range(mulMemo[e][c].indices[i]) \subseteq 0 .. GetCardinality(c) - 1

(***************************************************************************)
(* The product of the cliques is the product of the tables multiplied in   *)
(* so far times that of the separators, for all values of all variables:   *)
(* each CPT and observation is counted once, and no message changes what   *)
(* the junction tree as a whole stands for.                                *)
(***************************************************************************)
JointKept ==
  \A x \in Assignments[Variables] :
    ProductOf([c \in Clique |-> At(pot[c], x)], Clique)
      = Times(JointOf(Multiplied, x), ProductOf([e \in Carrying |-> At(sepPot[e], x)], Carrying))

(***************************************************************************)
(* A potential is exactly the margin of the cliques it has absorbed, their *)
(* tables multiplied and their other variables summed over, after any      *)
(* messages, repeated or not, and with zeros among the tables.  With       *)
(* RootComplete of Propagation: after a collection the root's table is the *)
(* margin of the whole network and its evidence.                           *)
(***************************************************************************)
Exact ==
  \A c \in Clique :
    LET absorbed == Absorbed(cont[c], c)
    IN \A x \in Assignments[c] : At(pot[c], x) = MarginOf(absorbed, x)

(***************************************************************************)
(* The same of separators: a separator keeps what was sent last, over its  *)
(* own variables, and zeros in it stay zeros.                              *)
(***************************************************************************)
SeparatorsExact ==
  \A e \in Carrying :
    LET absorbed == Absorbed(sep[e], CHOOSE c \in e : TRUE)
    IN /\ sepPot[e].vbls = Sepset(e)
       /\ \A x \in Assignments[Sepset(e)] : At(sepPot[e], x) = MarginOf(absorbed, x)

(***************************************************************************)
(* An index table found in the memo is the one that would be computed for  *)
(* the separator as it is now, although the key says nothing of it.        *)
(***************************************************************************)
MemoCurrent ==
  \A e \in tree : \A c \in DOMAIN mulMemo[e] :
    mulMemo[e][c] = ComputeMulInd(sepPot[e].vbls, c)

(***************************************************************************)
(* What a caller asks for: once a clique has absorbed all that can reach   *)
(* it, the query for one of its variables gives that variable's margin of  *)
(* the network, whichever of its cliques is asked.                         *)
(***************************************************************************)
Reaching(c) == {h \in Clique : Connected(Clique, Carrying, h, c)}

Answers ==
  next > Len(tables) =>
    \A v \in Variables : \A j \in AllContClqPot(v) :
      LET c == cliquePots[j]
      IN c # {v} /\ Absorbed(cont[c], c) = Reaching(c) =>
           SumMarginSingleVbl(pot[c], v)
             = [k \in 0 .. Card[v] - 1 |-> MarginOf(Reaching(c), [w \in {v} |-> k])]

(***************************************************************************)
(* "Observations either 0 things out, or leave them unchanged"             *)
(* (JB_Inference.c:218), and no message undoes it: an entry that is zero,  *)
(* by an observation or by a CPT, stays zero.  It takes a ratio that is 0  *)
(* where the old separator is 0 (JB_Pot.c:626-630).                        *)
(***************************************************************************)
StaysZero ==
  [][\A c \in Clique : \A k \in DOMAIN pot[c].data :
       pot[c].data[k] = Zero => pot'[c].data[k] = Zero]_tableVars
=============================================================================
