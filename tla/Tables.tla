------------------------------- MODULE Tables -------------------------------
(***************************************************************************)
(* The tables of JB_Pot.c: how the values of a set of variables are        *)
(* enumerated and numbered, the index tables that relate the entries of a  *)
(* potential to those of another over fewer variables, and the product,    *)
(* ratio and margin of potentials.                                         *)
(*                                                                         *)
(* A variable is its rank in the VariableOrdering.  Arrays start at 0 as   *)
(* in the code, except the lists of values, which are sequences.           *)
(* A double is a fraction <<numerator, denominator>>, and one without a    *)
(* denominator is an infinity or, as 0/0, not a number; rounding is left   *)
(* out.  In the log variants a number stands for the one whose logarithm   *)
(* the code keeps, so that sums of logarithms are products here.           *)
(***************************************************************************)
EXTENDS Integers, FiniteSets, FiniteSetsExt, Folds, Functions, SequencesExt

CONSTANTS
  Card,  \* the variables' cardinalities, in the order of the VariableOrdering
  Log,   \* are these the log variants?
  NULL

ASSUME CardAssumption == Card \in Seq(Nat \ {0})
ASSUME LogAssumption == Log \in BOOLEAN

Variables == DOMAIN Card

-----------------------------------------------------------------------------
(* Numbers *)

\* In lowest terms: with the least denominator the fraction has.
Reduced(n, d) ==
  IF d = 0 THEN <<IF n = 0 THEN 0 ELSE 1, 0>>
  ELSE LET k == Min({m \in 1 .. d : (n * m) % d = 0}) IN <<(n * k) \div d, k>>

Number == {q \in Nat \X (Nat \ {0}) : Reduced(q[1], q[2]) = q}

Zero == <<0, 1>>
One == <<1, 1>>
NaN == <<0, 0>>
Plus(p, q) == Reduced(p[1] * q[2] + q[1] * p[2], p[2] * q[2])
Times(p, q) == Reduced(p[1] * q[1], p[2] * q[2])
Over(p, q) == Reduced(p[1] * q[2], p[2] * q[1])

SumOf(f, S) == FoldFunctionOnSet(Plus, Zero, f, S)
ProductOf(f, S) == FoldFunctionOnSet(Times, One, f, S)

-----------------------------------------------------------------------------
(* Sets of variables and the numbering of their values *)

\* Where fix_vbls_indices puts variable v when the variables of S are sorted.
Position(v, S) == Cardinality({w \in S : w <= v})

VariableList(S) == [j \in 1 .. Cardinality(S) |-> CHOOSE v \in S : Position(v, S) = j]

\* The number of entries of a table over S.
GetCardinality(S) == FoldFunctionOnSet(LAMBDA a, b : a * b, 1, Card, S)

\* What "offsetFactor" has been divided down to when the loop is at v.
OffsetFactor(S, v) == GetCardinality({w \in S : w > v})

\* All lists of values of S.  There is none over no variables: the code
\* returns NULL and the count 0.
EnumerateValues(S) ==
  IF S = {} THEN <<>>
  ELSE [i \in 0 .. GetCardinality(S) - 1 |->
          [j \in 1 .. Cardinality(S) |->
             LET v == VariableList(S)[j]
             IN (i \div OffsetFactor(S, v)) % Card[v]]]

ComputeIndex(S, values) ==
  SumFunction([j \in 1 .. Cardinality(S) |-> values[j] * OffsetFactor(S, VariableList(S)[j])])

\* Mutant: the first variables' values first, without fix_vbls_indices.
CrossUnsorted(first, values, second, rows) ==
  [i \in DOMAIN rows |-> values \o rows[i]]

\* The lists over both sets with "values" for first and a row for second.
IndexCross(first, values, second, rows) ==
  [i \in DOMAIN rows |->
     LET both == VariableList(first \cup second)
     IN [p \in DOMAIN both |->
           IF both[p] \in first THEN values[Position(both[p], first)]
           ELSE rows[i][Position(both[p], second)]]]

-----------------------------------------------------------------------------
(* Index tables *)

\* For each entry of a table over S the entries of one over T that agree
\* with it, when there are variables left to run over.
AgreeingIndices(S, T) ==
  LET fixed == EnumerateValues(S)
      free == EnumerateValues(SymDiff(S, T))
  IN [i \in DOMAIN fixed |->
        LET crossed == IndexCross(S, fixed[i], SymDiff(S, T), free)
        IN [j \in DOMAIN free |-> ComputeIndex(T, crossed[j])]]

ComputeMargInd(this, target) ==
  IF EnumerateValues(SymDiff(this, target)) = <<>> THEN NULL
  ELSE [vbls |-> SymDiff(this, target), indices |-> AgreeingIndices(target, this)]

\* Mutant: the variables summed over, as ComputeMargInd has it.
MulIndOfTheRest(this, target) ==
  [vbls |-> SymDiff(this, target), indices |-> AgreeingIndices(this, target)]

ComputeMulInd(this, target) ==
  [vbls |-> this, indices |-> AgreeingIndices(this, target)]

\* NULL is no index table.
ASSUME NullAssumption ==
  \A T \in SUBSET Variables : \A S \in SUBSET T :
    /\ ComputeMulInd(S, T) # NULL
    /\ [vbls |-> T \ S, indices |-> AgreeingIndices(S, T)] # NULL

-----------------------------------------------------------------------------
(* Potentials *)

\* What a caller has for an observed value of v.  The bound is the code's: it
\* lets the cardinality itself through, and then no entry is One.
Observation(v, value) ==
  IF value > Card[v] \/ value < 0 THEN NULL
  ELSE [vbls |-> {v}, data |-> [k \in 0 .. Card[v] - 1 |-> IF k = value THEN One ELSE Zero]]

TabularUnity(S) == [vbls |-> S, data |-> [k \in 0 .. GetCardinality(S) - 1 |-> One]]

\* An entry that was never written, or past the end, may hold anything.  NaN
\* stands for that: whatever is computed from it is NaN as well.
Entry(p, k) == IF k \in DOMAIN p.data THEN p.data[k] ELSE NaN

Entrywise(p, q) == [k \in DOMAIN q.data |-> Times(Entry(p, k), q.data[k])]
ByIndex(p, q, ind) ==
  LET into(k) == {ij \in UNION {{i} \X DOMAIN ind[i] : i \in DOMAIN ind} : ind[ij[1]][ij[2]] = k}
  IN [k \in DOMAIN q.data |->
        Times(ProductOf([ij \in into(k) |-> Entry(p, ij[1])], into(k)), q.data[k])]

\* Mutant: an empty index table is taken for none.
EntrywiseWhenEmpty(p, q, mi) ==
  [q EXCEPT !.data = IF mi = NULL \/ mi.indices = <<>> THEN Entrywise(p, q)
                     ELSE ByIndex(p, q, mi.indices)]

\* p multiplied into q: entry by entry without an index table, and else each
\* entry of p into all those the table has for it.
ProductTabular(p, q, mi) ==
  [q EXCEPT !.data = IF mi = NULL THEN Entrywise(p, q) ELSE ByIndex(p, q, mi.indices)]

\* Mutant: the linear ratio without its test for zero.
RatioUntested(new, old) ==
  [vbls |-> new.vbls,
   data |-> [k \in 0 .. GetCardinality(new.vbls) - 1 |-> Over(Entry(new, k), Entry(old, k))]]

UpdateRatioTabular(new, old) ==
  [vbls |-> new.vbls,
   data |-> [k \in 0 .. GetCardinality(new.vbls) - 1 |->
               IF ~ Log /\ Entry(old, k) = Zero THEN Zero
               ELSE Over(Entry(new, k), Entry(old, k))]]

\* Mutant: the last of the summed entries is missed.
MarginShort(p, mi) ==
  [vbls |-> mi.vbls,
   data |-> [i \in DOMAIN mi.indices |->
               SumOf([j \in DOMAIN mi.indices[i] |-> Entry(p, mi.indices[i][j])],
                     {j \in DOMAIN mi.indices[i] : j + 1 \in DOMAIN mi.indices[i]})]]

SumMarginTabular(p, mi) ==
  [vbls |-> mi.vbls,
   data |-> [i \in DOMAIN mi.indices |->
               SumOf([j \in DOMAIN mi.indices[i] |-> Entry(p, mi.indices[i][j])],
                     DOMAIN mi.indices[i])]]

\* Without an index table the code follows a null pointer; NULL stands for that.
SumMarginSingleVbl(p, v) ==
  LET mi == ComputeMargInd(p.vbls, {v})
  IN IF mi = NULL THEN NULL ELSE SumMarginTabular(p, mi).data
=============================================================================
