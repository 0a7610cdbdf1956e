----------------------------- MODULE DSetForest -----------------------------
(***************************************************************************)
(* The disjoint-set forest of DSetForest.c: union by rank and path         *)
(* compression, with the recursion of DSetForest_FindSet as an explicit    *)
(* stack so that the compression happens one assignment at a time.         *)
(*                                                                         *)
(* GetRepresentative runs the same code as FindSet on the node of its      *)
(* element and is the bottom frame of the stack.  Union evaluates two      *)
(* GetRepresentative calls as the arguments of Link; C leaves their order  *)
(* open, and so does this module.                                          *)
(***************************************************************************)
EXTENDS Partition, Sequences, FiniteSets

CONSTANTS
  Element,   \* what sets are made of; a node is identified with its contents
  MaxRank    \* bound: no Union is called for a root of this rank

ASSUME MaxRankAssumption == MaxRank \in Nat
ASSUME ElementAssumption == Element # {}

VARIABLES
  parent,    \* the parent pointers; its domain is what lookup holds
  rank,
  pc,        \* idle, or where the call in progress is
  asked,      \* the arguments of the call in progress: one to get, two to unite
  got,       \* the representatives found so far, by position of the argument
  looking,   \* the position of the argument being looked up
  stack,     \* the nodes of the active FindSet frames, outermost first
  ret,       \* <<node>> while FindSet frames return node, else <<>>
  answer,    \* <<node>> when a GetRepresentative has just returned node
  rep        \* history: the representative of each element since the last Link

vars == <<parent, rank, pc, asked, got, looking, stack, ret, answer, rep>>

Made == DOMAIN parent
Top   == stack[Len(stack)]
Pop   == SubSeq(stack, 1, Len(stack) - 1)

Init ==
  /\ parent = [z \in {} |-> z]
  /\ rank = [z \in {} |-> 0]
  /\ pc = "idle" /\ asked = <<>> /\ got = <<>> /\ looking = 1
  /\ stack = <<>> /\ ret = <<>> /\ answer = <<>>
  /\ rep = [z \in {} |-> z]

\* Mutant: DSetNode_Create sets no rank.
MakeSetUnranked(e) ==
  /\ pc = "idle"
  /\ parent' = WithSet(parent, e)
  /\ rep' = WithSet(rep, e)
  /\ answer' = <<>>
  /\ UNCHANGED <<rank, pc, asked, got, looking, stack, ret>>

\* DSetForest_MakeSet: a node of its own, unless the element already has one.
MakeSet(e) ==
  /\ pc = "idle"
  /\ parent' = WithSet(parent, e)
  /\ rank' = [z \in Made \cup {e} |-> IF z \in Made THEN rank[z] ELSE 0]
  /\ rep' = WithSet(rep, e)
  /\ answer' = <<>>
  /\ UNCHANGED <<pc, asked, got, looking, stack, ret>>

CallGet(e) ==
  /\ pc = "idle"
  /\ e \in Made
  /\ pc' = "lookup"
  /\ asked' = <<e>>
  /\ answer' = <<>>
  /\ UNCHANGED <<parent, rank, got, looking, stack, ret, rep>>

CallUnion(a, b) ==
  /\ pc = "idle"
  /\ a \in Made /\ b \in Made
  /\ rank[rep[a]] < MaxRank /\ rank[rep[b]] < MaxRank
  /\ pc' = "lookup"
  /\ asked' = <<a, b>>
  /\ answer' = <<>>
  /\ UNCHANGED <<parent, rank, got, looking, stack, ret, rep>>

-----------------------------------------------------------------------------
\* Mutant: both arguments of Link ask for the first element.
StartFirst(n) ==
  /\ pc = "lookup"
  /\ n \in DOMAIN asked \ DOMAIN got
  /\ looking' = n
  /\ stack' = <<asked[1]>>
  /\ pc' = "descend"
  /\ UNCHANGED <<parent, rank, asked, got, ret, answer, rep>>

\* Enter GetRepresentative for the argument at position n.
StartLookup(n) ==
  /\ pc = "lookup"
  /\ n \in DOMAIN asked \ DOMAIN got
  /\ looking' = n
  /\ stack' = <<asked[n]>>
  /\ pc' = "descend"
  /\ UNCHANGED <<parent, rank, asked, got, ret, answer, rep>>

\* "if(x != x->parent)": call FindSet on the parent.
Descend ==
  /\ pc = "descend"
  /\ parent[Top] # Top
  /\ stack' = Append(stack, parent[Top])
  /\ UNCHANGED <<parent, rank, pc, asked, got, looking, ret, answer, rep>>

\* The root returns itself.
FoundRoot ==
  /\ pc = "descend"
  /\ parent[Top] = Top
  /\ ret' = <<Top>>
  /\ stack' = Pop
  /\ pc' = "unwind"
  /\ UNCHANGED <<parent, rank, asked, got, looking, answer, rep>>

\* "x->parent = DSetForest_FindSet(this, x->parent); return x->parent".
Compress ==
  /\ pc = "unwind"
  /\ stack # <<>>
  /\ parent' = [parent EXCEPT ![Top] = ret[1]]
  /\ stack' = Pop
  /\ UNCHANGED <<rank, pc, asked, got, looking, ret, answer, rep>>

\* Mutant: what was found is dropped, and looked up again.
LookupRepeated ==
  /\ pc = "unwind"
  /\ stack = <<>>
  /\ ret' = <<>>
  /\ pc' = "lookup"
  /\ UNCHANGED <<parent, rank, asked, got, looking, stack, answer, rep>>

LookupDone ==
  /\ pc = "unwind"
  /\ stack = <<>>
  /\ got' = [n \in DOMAIN got \cup {looking} |-> IF n = looking THEN ret[1] ELSE got[n]]
  /\ ret' = <<>>
  /\ pc' = "lookup"
  /\ UNCHANGED <<parent, rank, asked, looking, stack, answer, rep>>

-----------------------------------------------------------------------------
\* The call returns and its frames are gone.
Leave == pc' = "idle" /\ asked' = <<>> /\ got' = <<>> /\ looking' = 1

Found == pc = "lookup" /\ DOMAIN got = DOMAIN asked

ReturnGet ==
  /\ Found /\ Len(asked) = 1
  /\ answer' = <<got[1]>>
  /\ Leave
  /\ UNCHANGED <<parent, rank, stack, ret, rep>>

\* Mutant: the comparison of the ranks reversed.
OutranksReversed(x, y) == rank[x] < rank[y]

Outranks(x, y) == rank[x] > rank[y]

(***************************************************************************)
(* DSetForest_Link(x, y): the root of higher rank becomes the parent, y    *)
(* when the ranks are equal, and then its rank grows.  Union of two        *)
(* elements of one set links a root to itself and raises its rank.         *)
(***************************************************************************)
Link ==
  LET x == got[1]
      y == got[2]
      up == Outranks(x, y)
  IN /\ Found /\ Len(asked) = 2
     /\ parent' = IF up THEN [parent EXCEPT ![y] = x] ELSE [parent EXCEPT ![x] = y]
     /\ rank' = IF rank[x] = rank[y] THEN [rank EXCEPT ![y] = @ + 1] ELSE rank
     /\ rep' = Merged(rep, asked[1], asked[2], IF up THEN x ELSE y)
     /\ Leave
     /\ UNCHANGED <<stack, ret, answer>>

Internal ==
  \/ \E n \in 1 .. 2 : StartLookup(n)
  \/ Descend
  \/ FoundRoot
  \/ Compress
  \/ LookupDone
  \/ ReturnGet
  \/ Link

Next ==
  \/ \E e \in Element : MakeSet(e)
  \/ \E e \in Element : CallGet(e)
  \/ \E a, b \in Element : CallUnion(a, b)
  \/ Internal

\* A call once entered runs to its return; nothing obliges anyone to call.
Spec == Init /\ [][Next]_vars /\ WF_vars(Internal)

-----------------------------------------------------------------------------
TypeOK ==
  /\ Made \subseteq Element
  /\ parent \in [Made -> Made]
  /\ rank \in [Made -> Nat]
  /\ pc \in {"idle", "lookup", "descend", "unwind"}
  /\ asked \in Seq(Made) /\ Len(asked) <= 2
  /\ DOMAIN got \subseteq DOMAIN asked /\ got \in [DOMAIN got -> Made]
  /\ looking \in 1 .. 2
  /\ stack \in Seq(Made)
  /\ ret \in {<<>>} \cup {<<z>> : z \in Made}
  /\ answer \in {<<>>} \cup {<<z>> : z \in Made}
  /\ rep \in [Made -> Made]

(***************************************************************************)
(* The forest keeps every promise of DisjointSets: whatever has been       *)
(* compressed and linked, GetRepresentative answers the representative of  *)
(* the set that the element it was asked for is in, so the same node for   *)
(* two elements exactly when Unions have put them into one set; and no     *)
(* lookup, nor a compression half-way up a path, moves an element to       *)
(* another set.                                                            *)
(***************************************************************************)
DS == INSTANCE DisjointSets
Implements == DS!DSSpec

\* Ranks grow strictly along the parent pointers, also between two assignments
\* of a compression: FindSet cannot recurse for ever.
RankIncreases == \A z \in Made : parent[z] # z => rank[z] < rank[parent[z]]

\* Every call returns.
CallsReturn == pc # "idle" ~> pc = "idle"
=============================================================================
