------------------------------ MODULE Messages ------------------------------
(***************************************************************************)
(* Messages between the cliques of a junction tree, in any order: what     *)
(* MessagePass of JB_Inference.c does to the potentials, and what it keeps *)
(* whoever calls it.                                                       *)
(*                                                                         *)
(* Every clique starts with a factor of its own, the product of the tables *)
(* InitializePotentials multiplied into it.  A potential is abstracted to  *)
(* the exponents with which the factors occur in it: multiplying adds      *)
(* them, dividing subtracts them, and summing variables out keeps them.    *)
(* MessagePassLog does the same on logarithms.                             *)
(***************************************************************************)
EXTENDS Connectivity, Integers, FiniteSetsExt

CONSTANTS
  Clique,   \* the vertices of the elimination tree, each with its factor
  Trees     \* the trees: sets of edges

ASSUME CliqueAssumption == Clique # {} /\ IsFiniteSet(Clique)

\* What ElimTree_Create delivers.
ASSUME TreesAssumption == \A E \in Trees : IsTree(Clique, E)

VARIABLES
  tree,   \* the edges of elimTree
  cont,   \* for every clique the exponent of every factor in its potential
  sep     \* for every edge the exponents in its separator's potential

potVars == <<tree, cont, sep>>

Neighbors(v) == {n \in Clique : {v, n} \in tree}

Unity == [h \in Clique |-> 0]
Product(p, q) == [h \in Clique |-> p[h] + q[h]]

\* Mutants: the margin undivided, and the ratio upside down.
NoRatio(new, old) == [h \in Clique |-> new[h]]
InverseRatio(new, old) == [h \in Clique |-> old[h] - new[h]]

UpdateRatio(new, old) == [h \in Clique |-> new[h] - old[h]]

InitializePotentials ==
  /\ tree \in Trees
  /\ cont = [v \in Clique |-> [h \in Clique |-> IF h = v THEN 1 ELSE 0]]
  /\ sep = [e \in tree |-> Unity]

\* Mutant: "sep->pot = marg" is missing.
SeparatorKept(receiver, caller) ==
  /\ {receiver, caller} \in tree
  /\ cont' = [cont EXCEPT ![receiver] =
                Product(UpdateRatio(cont[caller], sep[{receiver, caller}]), @)]
  /\ UNCHANGED <<tree, sep>>

\* The caller's margin replaces the separator, and its ratio to the old
\* separator is multiplied into the receiver.
MessagePass(receiver, caller) ==
  LET e == {receiver, caller}
      marg == cont[caller]
  IN /\ e \in tree
     /\ cont' = [cont EXCEPT ![receiver] = Product(UpdateRatio(marg, sep[e]), @)]
     /\ sep' = [sep EXCEPT ![e] = marg]
     /\ UNCHANGED tree

PassAny == \E receiver, caller \in Clique : MessagePass(receiver, caller)

AnySchedule == InitializePotentials /\ [][PassAny]_potVars

-----------------------------------------------------------------------------
PotsTypeOK ==
  /\ tree \in Trees
  /\ cont \in [Clique -> [Clique -> Int]]
  /\ sep \in [tree -> [Clique -> Int]]

(***************************************************************************)
(* No factor is ever counted twice or divided out below one, whatever the  *)
(* order of the messages and however often one is repeated: this is what   *)
(* the division by the old separator is for.                               *)
(***************************************************************************)
NoDoubleCount ==
  \A h \in Clique :
    /\ \A v \in Clique : cont[v][h] \in {0, 1}
    /\ \A e \in tree : sep[e][h] \in {0, 1}

(***************************************************************************)
(* "the charge over the junction tree ... unchanged after each message     *)
(* pass": the product of the cliques divided by the product of the         *)
(* separators has every factor once.  With exponents of 0 and 1, a factor  *)
(* is in one more clique than separators.                                  *)
(***************************************************************************)
Holders(h) == {v \in Clique : cont[v][h] # 0}
Carriers(h) == {e \in tree : sep[e][h] # 0}

Charge == \A h \in Clique : Cardinality(Holders(h)) = Cardinality(Carriers(h)) + 1

(***************************************************************************)
(* A factor spreads from its home without a gap: the cliques that have it  *)
(* are connected through separators that have it.                          *)
(***************************************************************************)
SpreadsFromHome ==
  \A h, v \in Clique :
    cont[v][h] # 0 => Connected(Clique, Carriers(h), h, v)

\* A message never takes a factor away from a clique that has it.
NothingForgotten ==
  [][\A v, h \in Clique : cont[v][h] <= cont'[v][h]]_potVars
=============================================================================
