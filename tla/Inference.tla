------------------------------ MODULE Inference -----------------------------
(***************************************************************************)
(* Inference as its caller has it: InitializePotentials multiplies the     *)
(* tables in, then BNet_CollectEvidence and BNet_DistributeEvidence are    *)
(* called in any order and number, and cliques are asked for the margins   *)
(* of their variables.  A step is one of Propagation, which decides what   *)
(* is sent and when, and each of its messages is one of TableMessages,     *)
(* which decides what is in it.                                            *)
(***************************************************************************)
EXTENDS Propagation, TableMessages

tableState    == <<cliquePots, tables, next, pot, sepPot, mulMemo>>
inferenceVars == <<potVars, sweepVars, tableState>>

InitInference == Init /\ InitTables

MultiplyIn == MultiplyTable /\ UNCHANGED sweepVars

\* InitializePotentials has returned by then.
CallSweep ==
  /\ next > Len(tables)
  /\ CallCollect \/ CallDistribute
  /\ UNCHANGED tableState

\* What a sweep does between messages.
Walk ==
  /\ \/ \E n \in Clique : CollectSkip(n)
     \/ \E n \in Clique : CollectRecurse(n)
     \/ Collected
     \/ Distributed
  /\ UNCHANGED tableState

\* Mutant: the message is sent before the neighbours have been visited.
ReturnWithTableEarly ==
  /\ ReturnEarly
  /\ Send(stack[Len(stack) - 1].this, Top.this)

\* "if(caller != NULL) MessagePass(caller, this, backsep)"
ReturnWithTable ==
  /\ CollectReturn
  /\ Send(stack[Len(stack) - 1].this, Top.this)

\* Mutant: receiver and caller swapped.
PassTableBackwards(n) ==
  /\ DistributeBackwards(n)
  /\ IF n \in marks THEN UNCHANGED tableState ELSE Send(Top.this, n)

\* "MessagePass(nghbr, this, fwdsep)" for an unmarked neighbour.
PassTable(n) ==
  /\ DistributePass(n)
  /\ IF n \in marks THEN UNCHANGED tableState ELSE Send(n, Top.this)

NextInference ==
  \/ MultiplyIn
  \/ CallSweep
  \/ Walk
  \/ ReturnWithTable
  \/ \E n \in Clique : PassTable(n)

SpecInference == InitInference /\ [][NextInference]_inferenceVars

-----------------------------------------------------------------------------
\* The cliques that have the evidence of all others: after a collection the
\* root, after a distribution as well those the distribution gets to.
Informed ==
  IF phase = "fresh" THEN {}
  ELSE IF phase = "collected" THEN {root}
  ELSE {root} \cup Neighbors(root)

(***************************************************************************)
(* The margin of v asked at an informed clique is that of the product of   *)
(* all CPTs and observations that can reach the clique, summed over all    *)
(* other variables, whatever sweeps were made before and whatever the      *)
(* sweep under way has done so far.                                        *)
(***************************************************************************)
SweepsAnswer ==
  \A c \in Informed : \A v \in c :
    c # {v} =>
      SumMarginSingleVbl(pot[c], v)
        = [k \in 0 .. Card[v] - 1 |-> MarginOf(Reaching(c), [w \in {v} |-> k])]

(***************************************************************************)
(* What testMarginalConsistency of JunctionTreeTester.java is named for,   *)
(* as far as a distribution gets: it makes no difference which of the      *)
(* informed cliques that hold a variable is asked for its margin.          *)
(***************************************************************************)
MarginalsConsistent ==
  \A c, d \in Informed : \A v \in c \cap d :
    c # {v} /\ d # {v} => SumMarginSingleVbl(pot[c], v) = SumMarginSingleVbl(pot[d], v)
=============================================================================
