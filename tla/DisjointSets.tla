---------------------------- MODULE DisjointSets ----------------------------
(***************************************************************************)
(* What the disjoint-set forest of JB_Util promises its callers: make a    *)
(* set, join two sets, ask for the representative of an element.  A call   *)
(* and its return are two steps, and the arguments of the call outstanding *)
(* are kept between them: the answer is the one of the element asked for,  *)
(* and the sets joined are those of the elements given.                    *)
(***************************************************************************)
EXTENDS Partition, Sequences

CONSTANT Element

VARIABLES
  rep,     \* the representative of every element in a set
  asked,   \* the arguments of the call outstanding; <<>> when there is none
  answer   \* what a GetRepresentative just returned; <<>> after any other step

dsVars == <<rep, asked, answer>>

DSInit ==
  /\ rep = [z \in {} |-> z]
  /\ asked = <<>> /\ answer = <<>>

DSMakeSet(e) ==
  /\ asked = <<>>
  /\ rep' = WithSet(rep, e)
  /\ answer' = <<>>
  /\ UNCHANGED asked

DSAsk(e) ==
  /\ asked = <<>>
  /\ e \in DOMAIN rep
  /\ asked' = <<e>> /\ answer' = <<>>
  /\ UNCHANGED rep

DSGetRepresentative ==
  /\ Len(asked) = 1
  /\ asked' = <<>> /\ answer' = <<rep[asked[1]]>>
  /\ UNCHANGED rep

DSAskUnion(a, b) ==
  /\ asked = <<>>
  /\ a \in DOMAIN rep /\ b \in DOMAIN rep
  /\ asked' = <<a, b>> /\ answer' = <<>>
  /\ UNCHANGED rep

DSUnion ==
  /\ Len(asked) = 2
  /\ rep' \in Unions(rep, asked[1], asked[2])
  /\ asked' = <<>> /\ answer' = <<>>

DSNext ==
  \/ \E e \in Element : DSMakeSet(e)
  \/ \E e \in Element : DSAsk(e)
  \/ DSGetRepresentative
  \/ \E a, b \in Element : DSAskUnion(a, b)
  \/ DSUnion

DSSpec == DSInit /\ [][DSNext]_dsVars
=============================================================================
