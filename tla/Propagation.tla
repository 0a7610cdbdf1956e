----------------------------- MODULE Propagation ----------------------------
(***************************************************************************)
(* The two sweeps over the junction tree, BNet_CollectEvidence and         *)
(* BNet_DistributeEvidence of JB_Inference.c with the recursive functions  *)
(* on vertices they start, and their Log variants, which differ only in    *)
(* the arithmetic.  The recursion is an explicit stack of frames: a vertex *)
(* and what its neighbour iterator has still to deliver, in any order.     *)
(***************************************************************************)
EXTENDS Messages, Sequences

VARIABLES
  root,    \* vertices[0] of the default ordering of the tree
  pc,      \* idle, or the sweep under way
  stack,   \* the active frames, outermost first
  marks,   \* the VertexSet handed from call to call
  phase    \* history: fresh, collected, or distributed after a collection

sweepVars == <<root, pc, stack, marks, phase>>
vars == <<potVars, sweepVars>>

Frame(v) == [this |-> v, todo |-> Neighbors(v)]
Top == stack[Len(stack)]
Pop == SubSeq(stack, 1, Len(stack) - 1)

\* Mutant: the iterator does not move.
NotAdvanced(n) == stack

\* The stack once the iterator of the innermost frame has moved on from n.
Advanced(n) == [stack EXCEPT ![Len(stack)].todo = @ \ {n}]

Init ==
  /\ InitializePotentials
  /\ root \in Clique
  /\ pc = "idle"
  /\ stack = <<>>
  /\ marks = {}
  /\ phase = "fresh"

-----------------------------------------------------------------------------
CallCollect ==
  /\ pc = "idle"
  /\ pc' = "collect"
  /\ stack' = <<Frame(root)>>
  /\ marks' = {root}
  /\ UNCHANGED <<potVars, root, phase>>

CollectSkip(n) ==
  /\ pc = "collect"
  /\ n \in Top.todo
  /\ n \in marks
  /\ stack' = Advanced(n)
  /\ UNCHANGED <<potVars, root, pc, marks, phase>>

CollectRecurse(n) ==
  /\ pc = "collect"
  /\ n \in Top.todo
  /\ n \notin marks
  /\ stack' = Append(Advanced(n), Frame(n))
  /\ marks' = marks \cup {n}
  /\ UNCHANGED <<potVars, root, pc, phase>>

\* Mutant: the message is sent before the recursion is through.
ReturnEarly ==
  /\ pc = "collect"
  /\ Len(stack) > 1
  /\ MessagePass(stack[Len(stack) - 1].this, Top.this)
  /\ stack' = Pop
  /\ UNCHANGED <<root, pc, marks, phase>>

\* Mutant: receiver and caller swapped.
ReturnBackwards ==
  /\ pc = "collect"
  /\ Top.todo = {}
  /\ Len(stack) > 1
  /\ MessagePass(Top.this, stack[Len(stack) - 1].this)
  /\ stack' = Pop
  /\ UNCHANGED <<root, pc, marks, phase>>

\* "if(caller != NULL) MessagePass(caller, this, backsep)", and return.
CollectReturn ==
  /\ pc = "collect"
  /\ Top.todo = {}
  /\ Len(stack) > 1
  /\ MessagePass(stack[Len(stack) - 1].this, Top.this)
  /\ stack' = Pop
  /\ UNCHANGED <<root, pc, marks, phase>>

Collected ==
  /\ pc = "collect"
  /\ Top.todo = {}
  /\ Len(stack) = 1
  /\ pc' = "idle"
  /\ stack' = <<>>
  /\ marks' = {}
  /\ phase' = IF phase = "fresh" THEN "collected" ELSE phase
  /\ UNCHANGED <<potVars, root>>

-----------------------------------------------------------------------------
CallDistribute ==
  /\ pc = "idle"
  /\ pc' = "distribute"
  /\ stack' = <<Frame(root)>>
  /\ marks' = {root}
  /\ UNCHANGED <<potVars, root, phase>>

\* Mutant: receiver and caller swapped.
DistributeBackwards(n) ==
  /\ pc = "distribute"
  /\ n \in Top.todo
  /\ IF n \in marks THEN UNCHANGED potVars ELSE MessagePass(Top.this, n)
  /\ stack' = Advanced(n)
  /\ UNCHANGED <<root, pc, marks, phase>>

\* The first loop: a message to every unmarked neighbour.
DistributePass(n) ==
  /\ pc = "distribute"
  /\ n \in Top.todo
  /\ IF n \in marks THEN UNCHANGED potVars ELSE MessagePass(n, Top.this)
  /\ stack' = Advanced(n)
  /\ UNCHANGED <<root, pc, marks, phase>>

(***************************************************************************)
(* The second loop, which is to recurse, starts from the current neighbour *)
(* of the iterator the first loop has run to its end: there is none, and   *)
(* Vertex_DistributeEvidence returns to BNet_DistributeEvidence.           *)
(***************************************************************************)
Distributed ==
  /\ pc = "distribute"
  /\ Top.todo = {}
  /\ pc' = "idle"
  /\ stack' = <<>>
  /\ marks' = {}
  /\ phase' = IF phase = "fresh" THEN "fresh" ELSE "distributed"
  /\ UNCHANGED <<potVars, root>>

Sweep ==
  \/ \E n \in Clique : CollectSkip(n)
  \/ \E n \in Clique : CollectRecurse(n)
  \/ CollectReturn
  \/ Collected
  \/ \E n \in Clique : DistributePass(n)
  \/ Distributed

Next == CallCollect \/ CallDistribute \/ Sweep

\* A sweep once begun runs to its end; nothing obliges the caller to begin one.
Spec == Init /\ [][Next]_vars /\ WF_vars(Sweep)

-----------------------------------------------------------------------------
TypeOK ==
  /\ PotsTypeOK
  /\ root \in Clique
  /\ pc \in {"idle", "collect", "distribute"}
  /\ stack \in Seq([this : Clique, todo : SUBSET Clique])
  /\ marks \in SUBSET Clique
  /\ phase \in {"fresh", "collected", "distributed"}

(***************************************************************************)
(* Once a collection has returned, the root has absorbed the factor of     *)
(* every clique, whatever sweeps went before: its marginals are those of   *)
(* the whole model.                                                        *)
(***************************************************************************)
RootComplete ==
  phase # "fresh" => \A h \in Clique : cont[root][h] = 1

(***************************************************************************)
(* During a collection a message is sent only when everything behind the   *)
(* sender has reached it: the separator towards the root then has every    *)
(* factor from the far side.                                               *)
(***************************************************************************)
CompleteMessages ==
  [][\A u, w \in Clique :
       /\ pc = "collect" /\ {u, w} \in tree
       /\ Beyond(Clique, tree, u, w, root)
       /\ sep'[{u, w}] # sep[{u, w}]
       => \A h \in Clique : Beyond(Clique, tree, w, u, h) => sep'[{u, w}][h] = 1]_vars

\* After a collection and a distribution the neighbours of the root too have
\* absorbed every factor.
NeighborsComplete ==
  phase = "distributed" => \A v \in Neighbors(root), h \in Clique : cont[v][h] = 1

(***************************************************************************)
(* A sweep may be repeated: a collection after another, and a distribution *)
(* after one that a collection preceded, find in every separator what they *)
(* are about to send, so that the ratio is one and no potential changes.   *)
(***************************************************************************)
RepeatsChangeNothing ==
  [][(pc = "collect" /\ phase # "fresh") \/ (pc = "distribute" /\ phase = "distributed")
       => UNCHANGED potVars]_vars

\* A sweep visits no vertex for ever: it returns.
SweepsReturn == pc # "idle" ~> pc = "idle"

(***************************************************************************)
(* What the comment on Vertex_DistributeEvidence promises, "Call           *)
(* Vertex_DistributeEvidence on each of this's unmarked neighbors": the    *)
(* distribution reaches every clique, and afterwards a variable has one    *)
(* marginal wherever it occurs.                                            *)
(***************************************************************************)
Calibrated ==
  phase = "distributed" => \A v, h \in Clique : cont[v][h] = 1
=============================================================================
