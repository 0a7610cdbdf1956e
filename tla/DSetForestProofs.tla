-------------------------- MODULE DSetForestProofs --------------------------
(***************************************************************************)
(* Proofs about DSetForest for every set of elements and every sequence of *)
(* calls.                                                                  *)
(***************************************************************************)
EXTENDS DSetForest, SequenceTheorems, TLAPS

Depth == 1 .. Len(stack)

\* The active frames of FindSet climb the forest.
StackInv ==
  /\ pc = "descend" => stack # <<>>
  /\ pc \in {"idle", "lookup"} => stack = <<>>
  /\ \A k, l \in Depth : k < l => rank[stack[k]] < rank[stack[l]]
  /\ pc = "unwind" => /\ ret = <<ret[1]>> /\ ret[1] \in Made
                      /\ \A k \in Depth : rank[stack[k]] < rank[ret[1]]

\* The history variable rep names the root of every tree.
RepInv ==
  \A z \in Made :
    /\ rep[parent[z]] = rep[z]
    /\ rep[rep[z]] = rep[z]
    /\ parent[rep[z]] = rep[z]
    /\ parent[z] = z => rep[z] = z

\* What the call in progress has found is right.
CallInv ==
  /\ pc = "idle" => asked = <<>> /\ got = <<>>
  /\ pc # "idle" => Len(asked) \in {1, 2}
  /\ pc # "idle" => answer = <<>>
  /\ \A n \in DOMAIN got : got[n] = rep[asked[n]]
  /\ pc \in {"descend", "unwind"} =>
       /\ looking \in DOMAIN asked
       /\ \A k \in Depth : rep[stack[k]] = rep[asked[looking]]
  /\ pc = "unwind" => ret[1] = rep[asked[looking]]

-----------------------------------------------------------------------------
LEMMA PushPop ==
  ASSUME NEW S, NEW s \in Seq(S), s # <<>>
  PROVE  /\ Len(s) \in Nat \ {0}
         /\ s[Len(s)] \in S
         /\ SubSeq(s, 1, Len(s) - 1) \in Seq(S)
         /\ Len(SubSeq(s, 1, Len(s) - 1)) = Len(s) - 1
         /\ \A k \in 1 .. Len(s) - 1 :
              k \in 1 .. Len(s) /\ SubSeq(s, 1, Len(s) - 1)[k] = s[k]
<1>1. Len(s) \in Nat \ {0} BY EmptySeq
<1>2. \A k \in 1 .. Len(s) : s[k] \in S BY ElementOfSeq
<1>3. \A k \in 1 .. Len(s) - 1 : s[k] \in S BY <1>1, <1>2
<1>4. 1 \in Int /\ Len(s) - 1 \in Int BY <1>1
<1>5. /\ SubSeq(s, 1, Len(s) - 1) \in Seq(S)
      /\ Len(SubSeq(s, 1, Len(s) - 1)) =
           IF 1 <= Len(s) - 1 THEN (Len(s) - 1) - 1 + 1 ELSE 0
      /\ \A k \in 1 .. (Len(s) - 1) - 1 + 1 :
           SubSeq(s, 1, Len(s) - 1)[k] = s[1 + k - 1]
  BY <1>3, <1>4, SubSeqProperties
<1>6. Len(SubSeq(s, 1, Len(s) - 1)) = Len(s) - 1
  <2>1. \A n \in Nat \ {0} : \A m :
          m = (IF 1 <= n - 1 THEN (n - 1) - 1 + 1 ELSE 0) => m = n - 1
    OBVIOUS
  <2> QED BY <1>1, <1>5, <2>1, Zenon
<1>7. \A k \in 1 .. Len(s) - 1 :
        k \in 1 .. Len(s) /\ SubSeq(s, 1, Len(s) - 1)[k] = s[k]
  <2> TAKE k \in 1 .. Len(s) - 1
  <2>1. k \in 1 .. (Len(s) - 1) - 1 + 1 /\ 1 + k - 1 = k /\ k \in 1 .. Len(s)
    BY <1>1
  <2> QED BY <1>5, <2>1
<1>8. s[Len(s)] \in S BY <1>1, <1>2
<1> QED BY <1>1, <1>5, <1>6, <1>7, <1>8

LEMMA Arguments ==
  ASSUME TypeOK
  PROVE  /\ DOMAIN asked = 1 .. Len(asked)
         /\ \A n \in DOMAIN asked : asked[n] \in Made
         /\ \A n \in DOMAIN got : n \in DOMAIN asked /\ got[n] \in Made
<1>1. asked \in Seq(Made) BY DEF TypeOK
<1>2. DOMAIN asked = 1 .. Len(asked) BY <1>1
<1>3. \A n \in 1 .. Len(asked) : asked[n] \in Made BY <1>1, ElementOfSeq
<1> QED BY <1>2, <1>3 DEF TypeOK

\* The steps of a call that only read the forest.
Reads ==
  \/ \E e \in Element : CallGet(e)
  \/ \E a, b \in Element : CallUnion(a, b)
  \/ \E n \in 1 .. 2 : StartLookup(n)
  \/ Descend
  \/ FoundRoot
  \/ LookupDone
  \/ ReturnGet

\* Those of them that stay inside the call.
StartsOrSearches ==
  (\E n \in 1 .. 2 : StartLookup(n)) \/ Descend \/ FoundRoot \/ LookupDone

LEMMA StepCases ==
  ASSUME [Next]_vars
  PROVE  \/ \E e \in Element : MakeSet(e)
         \/ Reads
         \/ Compress
         \/ Link
         \/ UNCHANGED vars
BY DEF Next, Internal, Reads

LEMMA ReadsKeep ==
  ASSUME Reads
  PROVE  parent' = parent /\ rank' = rank /\ rep' = rep /\ Made' = Made
BY DEF Reads, CallGet, CallUnion, StartLookup, Descend, FoundRoot, LookupDone,
       ReturnGet, Made

-----------------------------------------------------------------------------
LEMMA InitTypeOK == Init => TypeOK
BY ElementAssumption, EmptySeq DEF Init, TypeOK, Made

LEMMA MakeSetTypes ==
  ASSUME TypeOK, NEW e \in Element, MakeSet(e)
  PROVE  TypeOK'
<1>1. Made' = Made \cup {e}
  BY DEF MakeSet, WithSet, Made, TypeOK
<1>2. parent' \in [Made' -> Made']
  BY <1>1 DEF MakeSet, WithSet, Made, TypeOK
<1>3. rep' \in [Made' -> Made']
  BY <1>1 DEF MakeSet, WithSet, TypeOK
<1>4. rank' \in [Made' -> Nat]
  BY <1>1 DEF MakeSet, TypeOK
<1>5. stack' \in Seq(Made')
  <2>1. stack \in Seq(Made) BY DEF TypeOK
  <2>2. Made \subseteq Made' BY <1>1
  <2>3. stack \in Seq(Made') BY <2>1, <2>2, SeqMonotonic
  <2> QED BY <2>3 DEF MakeSet
<1>6. asked' \in [DOMAIN asked' -> Made'] /\ got' \in [DOMAIN got' -> Made']
  BY <1>1 DEF MakeSet, TypeOK
<1> QED BY <1>1, <1>2, <1>3, <1>4, <1>5, <1>6 DEF MakeSet, TypeOK

LEMMA ReadsTypes ==
  ASSUME TypeOK, StackInv, CallInv, Reads
  PROVE  TypeOK'
<1> USE DEF TypeOK
<1>0. Made' = Made /\ parent' = parent /\ rank' = rank /\ rep' = rep
  BY ReadsKeep
<1>1. ASSUME NEW e \in Element, CallGet(e) PROVE TypeOK'
  <2>1. asked' \in Seq(Made) /\ Len(asked') = 1 BY <1>1 DEF CallGet
  <2>2. DOMAIN asked' = {1} BY <1>1 DEF CallGet
  <2> QED BY <1>0, <1>1, <2>1, <2>2 DEF CallGet, CallInv, StackInv
<1>2. ASSUME NEW a \in Element, NEW b \in Element, CallUnion(a, b) PROVE TypeOK'
  <2>1. asked' \in Seq(Made) /\ Len(asked') = 2 BY <1>2 DEF CallUnion
  <2>2. DOMAIN asked' = {1, 2} BY <1>2 DEF CallUnion
  <2> QED BY <1>0, <1>2, <2>1, <2>2 DEF CallUnion
<1>3. ASSUME NEW n \in 1 .. 2, StartLookup(n) PROVE TypeOK'
  <2>1. asked[n] \in Made BY <1>3 DEF StartLookup
  <2>2. stack' \in Seq(Made) BY <1>3, <2>1 DEF StartLookup
  <2> QED BY <1>0, <1>3, <2>2 DEF StartLookup
<1>4. CASE Descend
  <2>1. stack # <<>> BY <1>4 DEF Descend, StackInv
  <2>2. parent[Top] \in Made BY <2>1, PushPop DEF Top
  <2>3. stack' \in Seq(Made) BY <1>4, <2>2 DEF Descend
  <2> QED BY <1>0, <1>4, <2>3 DEF Descend
<1>5. CASE FoundRoot
  <2>1. stack # <<>> BY <1>5 DEF FoundRoot, StackInv
  <2>2. Top \in Made /\ Pop \in Seq(Made) BY <2>1, PushPop DEF Top, Pop
  <2> QED BY <1>0, <1>5, <2>2 DEF FoundRoot
<1>6. CASE LookupDone
  <2>1. ret[1] \in Made /\ looking \in DOMAIN asked
    BY <1>6 DEF LookupDone, StackInv, CallInv
  <2>2. DOMAIN got' = DOMAIN got \cup {looking} /\ got' \in [DOMAIN got' -> Made]
    BY <1>6, <2>1 DEF LookupDone
  <2> QED BY <1>0, <1>6, <2>1, <2>2 DEF LookupDone
<1>7. CASE ReturnGet
  <2>1. DOMAIN got = {1} /\ got[1] \in Made
    BY <1>7, Arguments DEF ReturnGet, Found
  <2>2. /\ Made' = Made /\ got' = <<>> /\ asked' = <<>> /\ looking' = 1
        /\ pc' = "idle" /\ answer' = <<got[1]>>
    BY <1>0, <1>7 DEF ReturnGet, Leave
  <2>3. asked' \in Seq(Made) /\ Len(asked') = 0 /\ DOMAIN got' = {} /\ DOMAIN asked' = {}
    BY <2>2
  <2> QED BY <1>0, <1>7, <2>1, <2>2, <2>3 DEF ReturnGet
<1> QED BY <1>1, <1>2, <1>3, <1>4, <1>5, <1>6, <1>7 DEF Reads

LEMMA CompressTypes ==
  ASSUME TypeOK, StackInv, Compress
  PROVE  /\ TypeOK'
         /\ Made' = Made
         /\ Top \in Made /\ ret[1] \in Made
         /\ \A z \in Made : parent'[z] = IF z = Top THEN ret[1] ELSE parent[z]
<1>1. Top \in Made /\ Pop \in Seq(Made)
  BY PushPop DEF Compress, TypeOK, Top, Pop
<1>2. ret[1] \in Made
  BY DEF Compress, StackInv
<1>3. parent' \in [Made -> Made] /\ Made' = Made
  BY <1>1, <1>2 DEF Compress, TypeOK, Made
<1>4. \A z \in Made : parent'[z] = IF z = Top THEN ret[1] ELSE parent[z]
  BY <1>1 DEF Compress, TypeOK
<1> QED BY <1>1, <1>2, <1>3, <1>4 DEF Compress, TypeOK

\* Link joins the two roots it was given, whichever of them it puts on top.
LEMMA LinkEffect ==
  ASSUME TypeOK, RepInv, CallInv, Link
  PROVE  \E top \in Made, low \in Made :
           /\ {top, low} = {rep[asked[1]], rep[asked[2]]}
           /\ asked[1] \in Made /\ asked[2] \in Made
           /\ parent' = [parent EXCEPT ![low] = top]
           /\ rep' = Merged(rep, asked[1], asked[2], top)
           /\ parent[top] = top /\ parent[low] = low
           /\ rank[low] <= rank[top]
           /\ rank' = IF rank[low] = rank[top]
                      THEN [rank EXCEPT ![top] = @ + 1] ELSE rank
<1> DEFINE x == got[1]
           y == got[2]
<1>1. DOMAIN asked = {1, 2} /\ DOMAIN got = {1, 2}
  BY Arguments DEF Link, Found
<1>2. asked[1] \in Made /\ asked[2] \in Made /\ x \in Made /\ y \in Made
  BY <1>1, Arguments
<1>3. x = rep[asked[1]] /\ y = rep[asked[2]]
  BY <1>1 DEF CallInv, Link
<1>4. parent[x] = x /\ parent[y] = y
  BY <1>2, <1>3 DEF RepInv
<1>5. rank[x] \in Nat /\ rank[y] \in Nat
  BY <1>2 DEF TypeOK
<1> DEFINE Joined(top, low) ==
             /\ {top, low} = {rep[asked[1]], rep[asked[2]]}
             /\ asked[1] \in Made /\ asked[2] \in Made
             /\ parent' = [parent EXCEPT ![low] = top]
             /\ rep' = Merged(rep, asked[1], asked[2], top)
             /\ parent[top] = top /\ parent[low] = low
             /\ rank[low] <= rank[top]
             /\ rank' = IF rank[low] = rank[top]
                        THEN [rank EXCEPT ![top] = @ + 1] ELSE rank
<1>6. CASE rank[x] > rank[y]
  <2>1. /\ parent' = [parent EXCEPT ![y] = x]
        /\ rep' = Merged(rep, asked[1], asked[2], x)
        /\ rank' = rank /\ rank[y] # rank[x] /\ rank[y] <= rank[x]
    BY <1>5, <1>6 DEF Link, Outranks
  <2>2. Joined(x, y) BY <1>2, <1>3, <1>4, <2>1
  <2> QED BY <1>2, <2>2
<1>7. CASE ~ (rank[x] > rank[y])
  <2>1. /\ parent' = [parent EXCEPT ![x] = y]
        /\ rep' = Merged(rep, asked[1], asked[2], y)
        /\ rank' = IF rank[x] = rank[y] THEN [rank EXCEPT ![y] = @ + 1] ELSE rank
        /\ rank[x] <= rank[y]
    BY <1>5, <1>7 DEF Link, Outranks
  <2>2. Joined(y, x) BY <1>2, <1>3, <1>4, <2>1
  <2> QED BY <1>2, <2>2
<1> QED BY <1>6, <1>7
-----------------------------------------------------------------------------
\* The inductive invariant.
IInv == TypeOK /\ RankIncreases /\ StackInv /\ RepInv /\ CallInv

LEMMA InitInv == Init => IInv
<1> SUFFICES ASSUME Init PROVE IInv
  OBVIOUS
<1>1. TypeOK BY InitTypeOK
<1>2. Made = {} BY DEF Init, Made
<1>3. Len(stack) = 0 BY DEF Init
<1> QED BY <1>1, <1>2, <1>3
        DEF IInv, RankIncreases, StackInv, RepInv, CallInv, Depth, Init

LEMMA MakeSetKeeps ==
  ASSUME IInv, NEW e \in Element, MakeSet(e)
  PROVE  IInv'
<1> USE DEF IInv
<1>1. TypeOK' BY MakeSetTypes
<1>2. Made' = Made \cup {e}
  BY DEF MakeSet, WithSet, Made, TypeOK
<1>3. \A z \in Made : parent'[z] = parent[z] /\ rank'[z] = rank[z] /\ rep'[z] = rep[z]
  BY DEF MakeSet, WithSet, Made, TypeOK
<1>4. \A z \in Made' \ Made : parent'[z] = z /\ rep'[z] = z
  BY <1>2 DEF MakeSet, WithSet, Made, TypeOK
<1>5. \A z \in Made : parent[z] \in Made /\ rep[z] \in Made
  BY DEF TypeOK
<1>6. RankIncreases' BY <1>2, <1>3, <1>4, <1>5 DEF RankIncreases
<1>7. RepInv'
  <2> SUFFICES ASSUME NEW z \in Made'
               PROVE  /\ rep'[parent'[z]] = rep'[z]
                      /\ rep'[rep'[z]] = rep'[z]
                      /\ parent'[rep'[z]] = rep'[z]
                      /\ parent'[z] = z => rep'[z] = z
    BY DEF RepInv
  <2>1. CASE z \in Made BY <1>3, <1>5, <2>1 DEF RepInv
  <2>2. CASE z \notin Made BY <1>4, <2>2
  <2> QED BY <2>1, <2>2
<1>8. pc' = "idle" /\ stack' = <<>> /\ asked' = <<>> /\ got' = <<>>
  BY DEF MakeSet, StackInv, CallInv
<1>9. StackInv' BY <1>8 DEF StackInv, Depth
<1>10. CallInv' BY <1>8 DEF CallInv
<1> QED BY <1>1, <1>6, <1>7, <1>9, <1>10

LEMMA ReadsKeepForest ==
  ASSUME IInv, Reads
  PROVE  TypeOK' /\ RankIncreases' /\ RepInv'
<1>1. TypeOK' BY ReadsTypes DEF IInv
<1>2. RankIncreases' /\ RepInv' BY ReadsKeep DEF IInv, RankIncreases, RepInv
<1> QED BY <1>1, <1>2

\* Entering a call, and leaving it, with no active frame.
LEMMA CallsKeep ==
  ASSUME IInv,
         \/ \E e \in Element : CallGet(e)
         \/ \E a, b \in Element : CallUnion(a, b)
         \/ ReturnGet
  PROVE  StackInv' /\ CallInv'
<1>1. stack' = <<>> BY DEF IInv, StackInv, CallGet, CallUnion, ReturnGet, Found
<1>2. Len(stack') = 0 BY <1>1
<1>3. pc' \in {"idle", "lookup"} BY DEF CallGet, CallUnion, ReturnGet, Leave
<1>4. StackInv' BY <1>1, <1>2, <1>3 DEF StackInv, Depth
<1>5. CASE \E e \in Element : CallGet(e)
  BY <1>3, <1>4, <1>5 DEF CallGet, CallInv, IInv
<1>6. CASE \E a, b \in Element : CallUnion(a, b)
  BY <1>3, <1>4, <1>6 DEF CallUnion, CallInv, IInv
<1>7. CASE ReturnGet
  BY <1>4, <1>7 DEF ReturnGet, Leave, CallInv
<1> QED BY <1>4, <1>5, <1>6, <1>7

LEMMA StartKeeps ==
  ASSUME IInv, NEW n \in 1 .. 2, StartLookup(n)
  PROVE  StackInv' /\ CallInv'
<1>1. Len(stack') = 1 /\ stack'[1] = asked[n] /\ stack' # <<>>
  BY DEF StartLookup
<1>2. Depth' = {1} BY <1>1 DEF Depth
<1>3. StackInv' BY <1>1, <1>2 DEF StackInv, StartLookup
<1>4. CallInv' BY <1>1, <1>2 DEF IInv, CallInv, StartLookup
<1> QED BY <1>3, <1>4

LEMMA DescendKeeps ==
  ASSUME IInv, Descend
  PROVE  StackInv' /\ CallInv'
<1> USE DEF IInv
<1>1. stack # <<>> /\ stack \in Seq(Made) BY DEF Descend, StackInv, TypeOK
<1>2. Len(stack) \in Nat \ {0} /\ Top \in Made BY <1>1, PushPop DEF Top
<1>3. parent[Top] \in Made /\ rank[Top] < rank[parent[Top]] /\ rep[parent[Top]] = rep[Top]
  BY <1>2 DEF TypeOK, RankIncreases, RepInv, Descend
<1>4. Len(stack') = Len(stack) + 1 /\ stack'[Len(stack) + 1] = parent[Top]
  BY <1>1, <1>3 DEF Descend
<1>5. \A k \in 1 .. Len(stack) : stack'[k] = stack[k] /\ stack[k] \in Made
  BY <1>1, <1>3, ElementOfSeq DEF Descend
<1>6. stack' # <<>> BY <1>2, <1>4
<1>7. \A k \in Depth : rank[stack[k]] <= rank[Top]
  <2> TAKE k \in Depth
  <2>1. CASE k = Len(stack) BY <1>2, <2>1 DEF Top, TypeOK
  <2>2. CASE k < Len(stack)
    <3>1. Len(stack) \in Depth BY <1>2 DEF Depth
    <3>2. rank[stack[k]] < rank[Top] BY <2>2, <3>1 DEF StackInv, Top
    <3>3. rank[stack[k]] \in Nat /\ rank[Top] \in Nat BY <1>2, <1>5 DEF TypeOK, Depth
    <3> QED BY <3>2, <3>3
  <2> QED BY <1>2, <2>1, <2>2 DEF Depth
<1>8. \A k, l \in Depth' : k < l => rank[stack'[k]] < rank[stack'[l]]
  <2> SUFFICES ASSUME NEW k \in Depth', NEW l \in Depth', k < l
               PROVE  rank[stack'[k]] < rank[stack'[l]]
    OBVIOUS
  <2>1. k \in Depth BY <1>2, <1>4 DEF Depth
  <2>2. CASE l \in Depth BY <1>5, <2>1, <2>2 DEF StackInv, Depth
  <2>3. CASE l = Len(stack) + 1
    <3>1. rank[stack[k]] \in Nat /\ rank[Top] \in Nat /\ rank[parent[Top]] \in Nat
      BY <1>2, <1>3, <1>5, <2>1 DEF TypeOK, Depth
    <3>2. rank[stack[k]] <= rank[Top] BY <1>7, <2>1
    <3>3. rank[stack[k]] < rank[parent[Top]] BY <1>3, <3>1, <3>2
    <3> QED BY <1>4, <1>5, <2>1, <2>3, <3>3 DEF Depth
  <2> QED BY <1>2, <1>4, <2>2, <2>3 DEF Depth
<1>9. \A k \in Depth' : rep[stack'[k]] = rep[asked[looking]]
  <2> TAKE k \in Depth'
  <2>1. \A m \in Depth : rep[stack[m]] = rep[asked[looking]]
    BY DEF CallInv, Descend
  <2>2. CASE k \in Depth BY <1>5, <2>1, <2>2 DEF Depth
  <2>3. CASE k = Len(stack) + 1
    <3>1. Len(stack) \in Depth BY <1>2 DEF Depth
    <3>2. rep[Top] = rep[asked[looking]] BY <2>1, <3>1 DEF Top
    <3> QED BY <1>3, <1>4, <2>3, <3>2
  <2> QED BY <1>2, <1>4, <2>2, <2>3 DEF Depth
<1>10. StackInv' BY <1>6, <1>8 DEF StackInv, Descend
<1>11. CallInv' BY <1>9 DEF CallInv, Descend
<1> QED BY <1>10, <1>11

\* Returning from the innermost frame leaves the frames below it.
LEMMA PopFrames ==
  ASSUME IInv, stack # <<>>, stack' = Pop
  PROVE  /\ Top \in Made
         /\ Len(stack) \in Depth
         /\ \A k \in Depth' : /\ k \in Depth /\ k < Len(stack)
                              /\ stack'[k] = stack[k] /\ stack[k] \in Made
<1>1. stack \in Seq(Made) BY DEF IInv, TypeOK
<1>2. Len(stack) \in Nat \ {0} /\ Top \in Made
  BY <1>1, PushPop DEF Top
<1>3. Len(stack') = Len(stack) - 1 BY <1>1, PushPop DEF Pop
<1>4. \A k \in 1 .. Len(stack) - 1 : k \in 1 .. Len(stack) /\ stack'[k] = stack[k]
  BY <1>1, PushPop DEF Pop
<1>5. \A k \in Depth' : k \in 1 .. Len(stack) - 1 /\ k < Len(stack)
  BY <1>2, <1>3 DEF Depth
<1>6. \A k \in Depth : stack[k] \in Made BY <1>1, ElementOfSeq DEF Depth
<1> QED BY <1>2, <1>4, <1>5, <1>6 DEF Depth

LEMMA FoundRootKeeps ==
  ASSUME IInv, FoundRoot
  PROVE  StackInv' /\ CallInv'
<1> USE DEF IInv
<1>1. stack # <<>> /\ stack' = Pop /\ ret' = <<Top>> BY DEF FoundRoot, StackInv
<1>2. /\ Top \in Made /\ Len(stack) \in Depth
      /\ \A k \in Depth' : k \in Depth /\ k < Len(stack) /\ stack'[k] = stack[k]
  BY <1>1, PopFrames
<1>3. \A k \in Depth' : rank[stack'[k]] < rank[Top]
  BY <1>2 DEF StackInv, Top
<1>4. \A k, l \in Depth' : k < l => rank[stack'[k]] < rank[stack'[l]]
  BY <1>2 DEF StackInv
<1>5. StackInv'
  <2>1. rank' = rank /\ pc' = "unwind" /\ Made' = Made
    BY DEF FoundRoot, Made
  <2> QED BY <1>1, <1>2, <1>3, <1>4, <2>1 DEF StackInv
<1>6. rep[Top] = rep[asked[looking]] /\ rep[Top] = Top
  BY <1>2 DEF CallInv, RepInv, FoundRoot, Top
<1>7. CallInv' BY <1>1, <1>2, <1>6 DEF CallInv, FoundRoot
<1> QED BY <1>5, <1>7

LEMMA LookupDoneKeeps ==
  ASSUME IInv, LookupDone
  PROVE  StackInv' /\ CallInv'
<1> USE DEF IInv
<1>1. Len(stack') = 0 BY DEF LookupDone
<1>2. StackInv' BY <1>1 DEF StackInv, Depth, LookupDone
<1>3. \A n \in DOMAIN got' : got'[n] = rep[asked[n]]
  BY DEF LookupDone, CallInv
<1>4. CallInv' BY <1>3 DEF CallInv, LookupDone
<1> QED BY <1>2, <1>4

LEMMA ReadsKeepInv ==
  ASSUME IInv, Reads
  PROVE  IInv'
<1>1. TypeOK' /\ RankIncreases' /\ RepInv' BY ReadsKeepForest
<1>2. StackInv' /\ CallInv'
  BY CallsKeep, StartKeeps, DescendKeeps, FoundRootKeeps, LookupDoneKeeps DEF Reads
<1> QED BY <1>1, <1>2 DEF IInv

\* Pointing a frame's node at the root it is below moves it to no other set.
LEMMA CompressKeeps ==
  ASSUME IInv, Compress
  PROVE  IInv'
<1> USE DEF IInv
<1>1. /\ TypeOK' /\ Made' = Made /\ Top \in Made /\ ret[1] \in Made
      /\ \A z \in Made : parent'[z] = IF z = Top THEN ret[1] ELSE parent[z]
  BY CompressTypes
<1>2. stack # <<>> /\ stack' = Pop /\ rank' = rank /\ rep' = rep BY DEF Compress
<1>3. /\ Len(stack) \in Depth
      /\ \A k \in Depth' : k \in Depth /\ k < Len(stack) /\ stack'[k] = stack[k]
  BY <1>2, PopFrames
<1>4. rank[Top] < rank[ret[1]] BY <1>3 DEF StackInv, Compress, Top
<1>5. rep[Top] = rep[asked[looking]] /\ ret[1] = rep[asked[looking]]
  BY <1>3 DEF CallInv, Compress, Top
<1>6. rep[ret[1]] = ret[1] /\ rep[Top] = ret[1] BY <1>1, <1>5 DEF RepInv
<1>7. Top # ret[1] BY <1>1, <1>4 DEF TypeOK
<1>8. RankIncreases' BY <1>1, <1>2, <1>4 DEF RankIncreases
<1>9. RepInv'
  <2> SUFFICES ASSUME NEW z \in Made
               PROVE  /\ rep[parent'[z]] = rep[z]
                      /\ rep[rep[z]] = rep[z]
                      /\ parent'[rep[z]] = rep[z]
                      /\ parent'[z] = z => rep[z] = z
    BY <1>1, <1>2 DEF RepInv
  <2>1. rep[z] \in Made BY DEF TypeOK
  <2>2. rep[z] # Top
    BY <1>6, <1>7 DEF RepInv
  <2> QED BY <1>1, <1>6, <1>7, <2>1, <2>2 DEF RepInv
<1>10. StackInv'
  <2>1. pc' = "unwind" /\ pc = "unwind" /\ ret' = ret BY DEF Compress
  <2>2. \A k, l \in Depth' : k < l => rank[stack'[k]] < rank[stack'[l]]
    BY <1>3 DEF StackInv
  <2>3. \A k \in Depth' : rank[stack'[k]] < rank[ret[1]]
    BY <1>3, <2>1 DEF StackInv
  <2> QED BY <1>1, <1>2, <2>1, <2>2, <2>3 DEF StackInv
<1>11. CallInv' BY <1>2, <1>3 DEF CallInv, Compress
<1> QED BY <1>1, <1>8, <1>9, <1>10, <1>11

LEMMA LinkTypes ==
  ASSUME IInv, Link
  PROVE  TypeOK' /\ Made' = Made
<1>1. PICK top \in Made, low \in Made :
        /\ asked[1] \in Made /\ asked[2] \in Made
        /\ parent' = [parent EXCEPT ![low] = top]
        /\ rep' = Merged(rep, asked[1], asked[2], top)
        /\ rank' = IF rank[low] = rank[top]
                   THEN [rank EXCEPT ![top] = @ + 1] ELSE rank
  BY LinkEffect DEF IInv
<1>2. parent' \in [Made -> Made] /\ Made' = Made
  BY <1>1 DEF IInv, TypeOK, Made
<1>3. rep' \in [Made -> Made] BY <1>1 DEF IInv, TypeOK, Merged
<1>4. rank' \in [Made -> Nat] BY <1>1 DEF IInv, TypeOK
<1> QED BY <1>2, <1>3, <1>4 DEF IInv, TypeOK, Link, Leave

LEMMA LinkKeeps ==
  ASSUME IInv, Link
  PROVE  IInv'
<1> USE DEF IInv
<1>1. PICK top \in Made, low \in Made :
        /\ {top, low} = {rep[asked[1]], rep[asked[2]]}
        /\ parent' = [parent EXCEPT ![low] = top]
        /\ rep' = Merged(rep, asked[1], asked[2], top)
        /\ parent[top] = top /\ parent[low] = low
        /\ rank[low] <= rank[top]
        /\ rank' = IF rank[low] = rank[top]
                   THEN [rank EXCEPT ![top] = @ + 1] ELSE rank
  BY LinkEffect
<1>2. TypeOK' /\ Made' = Made BY LinkTypes
<1>3. \A z \in Made : parent'[z] = IF z = low THEN top ELSE parent[z]
  BY <1>1 DEF TypeOK
<1>4. \A z \in Made : rep'[z] = IF rep[z] \in {top, low} THEN top ELSE rep[z]
  BY <1>1 DEF TypeOK, Merged
<1>5. \A z \in Made : rep[z] \in Made /\ parent[z] \in Made /\ rank[z] \in Nat
  BY DEF TypeOK
<1>6. rep[top] = top /\ rep[low] = low BY <1>1 DEF RepInv
<1>7. \A z \in Made : z # top => rank'[z] = rank[z]
  BY <1>1 DEF TypeOK
<1>8. rank[top] <= rank'[top] /\ (low # top => rank[low] < rank'[top])
  <2>1. CASE rank[low] = rank[top]
    <3>1. rank'[top] = rank[top] + 1 BY <1>1, <2>1 DEF TypeOK
    <3> QED BY <1>5, <2>1, <3>1
  <2>2. CASE rank[low] # rank[top]
    BY <1>1, <1>5, <2>2
  <2> QED BY <2>1, <2>2
<1>9. RankIncreases'
  <2> SUFFICES ASSUME NEW z \in Made, parent'[z] # z
               PROVE  rank'[z] < rank'[parent'[z]]
    BY <1>2 DEF RankIncreases
  <2>1. z # top BY <1>1, <1>3
  <2>2. rank'[z] = rank[z] BY <1>7, <2>1
  <2>3. CASE z = low BY <1>3, <1>8, <2>1, <2>2, <2>3
  <2>4. CASE z # low
    <3>1. parent'[z] = parent[z] /\ rank[z] < rank[parent[z]]
      BY <1>3, <2>4 DEF RankIncreases
    <3>2. CASE parent[z] = top
      <4>1. rank'[top] \in Nat BY <1>2 DEF TypeOK
      <4> QED BY <1>5, <1>8, <2>2, <3>1, <3>2, <4>1
    <3>3. CASE parent[z] # top BY <1>5, <1>7, <2>2, <3>1, <3>3
    <3> QED BY <3>2, <3>3
  <2> QED BY <2>3, <2>4
<1>10. RepInv'
  <2> SUFFICES ASSUME NEW z \in Made
               PROVE  /\ rep'[parent'[z]] = rep'[z]
                      /\ rep'[rep'[z]] = rep'[z]
                      /\ parent'[rep'[z]] = rep'[z]
                      /\ parent'[z] = z => rep'[z] = z
    BY <1>2 DEF RepInv
  <2>1. rep[parent[z]] = rep[z] /\ rep[rep[z]] = rep[z] /\ parent[rep[z]] = rep[z]
    BY DEF RepInv
  <2>2. rep'[parent'[z]] = rep'[z]
    <3>1. CASE z = low BY <1>3, <1>4, <1>6, <3>1
    <3>2. CASE z # low BY <1>3, <1>4, <1>5, <2>1, <3>2
    <3> QED BY <3>1, <3>2
  <2>3. rep'[rep'[z]] = rep'[z] /\ parent'[rep'[z]] = rep'[z]
    <3>1. CASE rep[z] \in {top, low} BY <1>1, <1>3, <1>4, <1>6, <3>1
    <3>2. CASE rep[z] \notin {top, low} BY <1>3, <1>4, <1>5, <2>1, <3>2
    <3> QED BY <3>1, <3>2
  <2>4. parent'[z] = z => rep'[z] = z
    <3>1. CASE z = low BY <1>3, <1>4, <1>6, <3>1
    <3>2. CASE z # low BY <1>3, <1>4, <1>6, <3>2 DEF RepInv
    <3> QED BY <3>1, <3>2
  <2> QED BY <2>2, <2>3, <2>4
<1>11. stack' = <<>> /\ pc' = "idle" /\ asked' = <<>> /\ got' = <<>>
  BY DEF Link, Leave, Found, StackInv
<1>12. StackInv' BY <1>11 DEF StackInv, Depth
<1>13. CallInv' BY <1>11 DEF CallInv
<1> QED BY <1>2, <1>9, <1>10, <1>12, <1>13

LEMMA StutterKeeps ==
  ASSUME IInv, UNCHANGED vars
  PROVE  IInv'
BY DEF IInv, vars, TypeOK, RankIncreases, StackInv, RepInv, CallInv, Made, Depth

LEMMA Inductive == IInv /\ [Next]_vars => IInv'
BY StepCases, MakeSetKeeps, ReadsKeepInv, CompressKeeps, LinkKeeps, StutterKeeps

LEMMA Invariance == Spec => []IInv
<1> QED BY InitInv, Inductive, PTL DEF Spec

-----------------------------------------------------------------------------
\* Every node the forest, the stack and the answers name is one MakeSet made.
THEOREM TypeCorrect == Spec => []TypeOK
<1>1. IInv => TypeOK BY DEF IInv
<1> QED BY Invariance, <1>1, PTL

\* However lookups, compressions and unions follow one another, ranks grow
\* strictly along the parent pointers: there is no cycle for FindSet to walk.
THEOREM RanksIncrease == Spec => []RankIncreases
<1>1. IInv => RankIncreases BY DEF IInv
<1> QED BY Invariance, <1>1, PTL

\* DSetForest implements DisjointSets: a step of the forest enters a call or
\* leaves one with what it promises, or is seen by no caller.
LEMMA StepImplements ==
  ASSUME IInv, [Next]_vars
  PROVE  [DS!DSNext]_<<rep, asked, answer>>
<1> USE DEF IInv
<1>1. ASSUME NEW e \in Element, MakeSet(e) PROVE DS!DSMakeSet(e)
  BY <1>1 DEF MakeSet, DS!DSMakeSet, DS!WithSet, WithSet, CallInv
<1>2. ASSUME NEW e \in Element, CallGet(e) PROVE DS!DSAsk(e)
  BY <1>2 DEF CallGet, DS!DSAsk, CallInv, TypeOK
<1>3. ASSUME NEW a \in Element, NEW b \in Element, CallUnion(a, b)
      PROVE  DS!DSAskUnion(a, b)
  BY <1>3 DEF CallUnion, DS!DSAskUnion, CallInv, TypeOK
<1>4. CASE ReturnGet
  <2>1. DOMAIN got = {1} BY <1>4, Arguments DEF ReturnGet, Found
  <2>2. got[1] = rep[asked[1]] BY <2>1 DEF CallInv
  <2>3. DS!DSGetRepresentative
    BY <1>4, <2>2 DEF ReturnGet, Leave, DS!DSGetRepresentative
  <2> QED BY <2>3 DEF DS!DSNext
<1>5. CASE Link
  <2>1. PICK top \in Made, low \in Made :
          /\ {top, low} = {rep[asked[1]], rep[asked[2]]}
          /\ rep' = Merged(rep, asked[1], asked[2], top)
    BY <1>5, LinkEffect
  <2>2. rep' \in DS!Unions(rep, asked[1], asked[2])
    BY <2>1 DEF DS!Unions, DS!Merged, Merged
  <2>3. answer = <<>> BY <1>5 DEF Link, Found, CallInv
  <2>4. DS!DSUnion BY <1>5, <2>2, <2>3 DEF Link, Leave, DS!DSUnion
  <2> QED BY <2>4 DEF DS!DSNext
<1>6. CASE StartsOrSearches \/ Compress \/ UNCHANGED vars
  BY <1>6 DEF StartsOrSearches, StartLookup, Descend, FoundRoot, LookupDone, Compress, vars
<1> QED BY <1>1, <1>2, <1>3, <1>4, <1>5, <1>6, StepCases
        DEF DS!DSNext, Reads, StartsOrSearches

\* For every set of elements and every sequence of calls, GetRepresentative
\* answers for the element it was asked as the abstract sets do, and a Union
\* joins the sets of the two elements it was given.
THEOREM Implementation == Spec => Implements
<1>1. Init => DS!DSInit BY DEF Init, DS!DSInit
<1> QED BY <1>1, Invariance, StepImplements, PTL
        DEF Spec, Implements, DS!DSSpec, DS!dsVars
=============================================================================
