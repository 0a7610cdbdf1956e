------------------------ MODULE TableMessagesProofs -------------------------
EXTENDS Inference, PropagationProofs

(***************************************************************************)
(* Whole numbers.                                                          *)
(***************************************************************************)
LEMMA Carry ==
  ASSUME NEW a \in Nat, NEW b \in Nat, NEW c \in Nat \ {0}, NEW r \in Nat, r < c, a < b
  PROVE  a * c + r < b * c
OBVIOUS

LEMMA Cancel ==
  ASSUME NEW a \in Nat, NEW b \in Nat, NEW c \in Nat \ {0}, a * c = b * c
  PROVE  a = b
OBVIOUS

LEMMA DivTwice ==
  ASSUME NEW a \in Nat, NEW b \in Nat \ {0}, NEW c \in Nat \ {0}
  PROVE  a \div (b * c) = (a \div b) \div c
<1> DEFINE q == a \div b
           s == q \div c
           t == q % c
           r == a % b
<1>1. q \in Nat /\ r \in Nat /\ r < b /\ a = q * b + r BY DivMod
<1>2. s \in Nat /\ t \in Nat /\ t < c /\ q = s * c + t
  <2> HIDE DEF q
  <2> QED BY <1>1, DivMod
<1> HIDE DEF q, s, t, r
<1>3. (s * c + t) * b = s * (b * c) + t * b
  <2>1. (s * c + t) * b = (s * c) * b + t * b BY <1>1, <1>2
  <2>2. (s * c) * b = s * (b * c) BY <1>1, <1>2
  <2> QED BY <2>1, <2>2
<1>4. t * b + r < c * b BY <1>1, <1>2, Carry
<1>5. t * b + r \in Nat /\ b * c \in Nat \ {0} /\ c * b = b * c BY <1>1, <1>2
<1>6. a = s * (b * c) + (t * b + r)
  <2>1. s * (b * c) \in Nat /\ t * b \in Nat BY <1>1, <1>2
  <2> QED BY <1>1, <1>2, <1>3, <2>1
<1> DEFINE d == b * c
           u == t * b + r
<1>7. a \div d = s
  <2>1. d \in Nat \ {0} /\ u \in Nat /\ u < d /\ a = s * d + u BY <1>4, <1>5, <1>6
  <2> HIDE DEF d, u
  <2> QED BY <1>2, <2>1, DivUnique
<1> QED BY <1>7 DEF s, q

LEMMA CardFacts ==
  /\ Variables \subseteq Nat \ {0} /\ IsFiniteSet(Variables)
  /\ \A v \in Variables : Card[v] \in Nat \ {0}
<1>1. PICK n \in Nat : Card \in [1 .. n -> Nat \ {0}]
  <2>1. Len(Card) \in Nat /\ Card \in [1 .. Len(Card) -> Nat \ {0}] BY CardAssumption
  <2> QED BY <2>1
<1>2. Variables = 1 .. n BY <1>1 DEF Variables
<1>3. IsFiniteSet(1 .. n) BY FS_Interval
<1> QED BY <1>1, <1>2, <1>3

(***************************************************************************)
(* The size of a table.                                                    *)
(***************************************************************************)
Multiplying == [a \in Nat \ {0} |-> [b \in Nat \ {0} |-> a * b]]

LEMMA CardinalityIsFold ==
  ASSUME NEW g, FoldOf(g, Variables, Nat \ {0}, Multiplying, 1, Card),
         NEW S \in SUBSET Variables
  PROVE  GetCardinality(S) = g[S]
<1> DEFINE ch(s) == CHOOSE x \in s : TRUE
           Iter(i) == i = [s \in SUBSET S |-> IF s = {} THEN 1 ELSE Card[ch(s)] * i[s \ {ch(s)}]]
           iter == CHOOSE i : Iter(i)
           h == [s \in SUBSET S |-> g[s]]
           Q == {s \in SUBSET S : iter[s] = g[s]}
<1>0. GetCardinality(S) = iter[S]
  BY DEF GetCardinality, FoldFunctionOnSet, MapThenFoldSet
<1>1. ASSUME NEW s \in SUBSET S, s # {}
      PROVE  ch(s) \in s /\ Card[ch(s)] \in Nat \ {0} /\ g[s] = Card[ch(s)] * g[s \ {ch(s)}]
  <2>1. ch(s) \in s BY <1>1
  <2> HIDE DEF ch
  <2>2. g[s] = Op(Multiplying, Card[ch(s)], g[s \ {ch(s)}]) BY <2>1, CardFacts DEF FoldOf
  <2>3. Card[ch(s)] \in Nat \ {0} /\ g[s \ {ch(s)}] \in Nat \ {0} BY <2>1, CardFacts DEF FoldOf
  <2> QED BY <2>1, <2>2, <2>3 DEF Multiplying, Op
<1>2. Iter(h)
  <2> HIDE DEF ch
  <2>1. ASSUME NEW s \in SUBSET S
        PROVE  h[s] = IF s = {} THEN 1 ELSE Card[ch(s)] * h[s \ {ch(s)}]
    BY <1>1 DEF FoldOf
  <2> HIDE DEF h
  <2>2. h = [s \in SUBSET S |-> h[s]] BY DEF h
  <2> QED BY <2>1, <2>2
<1>3. Iter(iter)
  <2> HIDE DEF Iter
  <2> QED BY <1>2
<1>4. ASSUME NEW s \in SUBSET S
      PROVE  iter[s] = IF s = {} THEN 1 ELSE Card[ch(s)] * iter[s \ {ch(s)}]
  <2> HIDE DEF iter, ch
  <2> QED BY <1>3
<1>5. ASSUME NEW s \in SUBSET S, \A x \in s : s \ {x} \in Q PROVE s \in Q
  <2> HIDE DEF iter, ch
  <2> QED BY <1>1, <1>4, <1>5 DEF FoldOf
<1>6. \A s \in SUBSET S : s \in Q
  <2>1. IsFiniteSet(S) BY FS_Subset, CardFacts
  <2> HIDE DEF Q
  <2> QED BY <1>5, <2>1, FiniteInduction
<1> QED BY <1>0, <1>6

LEMMA CardinalityLaws ==
  ASSUME NEW S \in SUBSET Variables
  PROVE  /\ GetCardinality(S) \in Nat \ {0}
         /\ S = {} => GetCardinality(S) = 1
         /\ \A v \in S : GetCardinality(S) = Card[v] * GetCardinality(S \ {v})
<1>1. Monoid(Nat \ {0}, Multiplying)
  <2>1. ASSUME NEW a \in Nat \ {0}, NEW b \in Nat \ {0}
        PROVE  Op(Multiplying, a, b) = a * b /\ Op(Multiplying, b, a) = a * b /\ a * b \in Nat \ {0}
    BY DEF Op, Multiplying
  <2>2. ASSUME NEW a \in Nat \ {0}, NEW b \in Nat \ {0}, NEW c \in Nat \ {0}
        PROVE  Op(Multiplying, a, Op(Multiplying, b, c)) = Op(Multiplying, Op(Multiplying, a, b), c)
    <3>1. a * (b * c) = (a * b) * c OBVIOUS
    <3>2. b * c \in Nat \ {0} /\ a * b \in Nat \ {0} BY <2>1
    <3> QED BY <2>1, <3>1, <3>2
  <2>3. \A a, b \in Nat \ {0} :
          Op(Multiplying, a, b) \in Nat \ {0} /\ Op(Multiplying, a, b) = Op(Multiplying, b, a)
    BY <2>1
  <2> QED BY <2>2, <2>3 DEF Monoid
<1>2. PICK g : FoldOf(g, Variables, Nat \ {0}, Multiplying, 1, Card)
  <2>1. IsFiniteSet(Variables) /\ \A v \in Variables : Card[v] \in Nat \ {0} BY CardFacts
  <2>2. 1 \in Nat \ {0} OBVIOUS
  <2> QED BY <1>1, <2>1, <2>2, FoldExists
<1>3. ASSUME NEW R \in SUBSET Variables
      PROVE  GetCardinality(R) = g[R] /\ g[R] \in Nat \ {0}
  <2>1. GetCardinality(R) = g[R] BY <1>2, CardinalityIsFold
  <2> QED BY <1>2, <2>1 DEF FoldOf
<1>4. ASSUME NEW v \in S PROVE g[S] = Card[v] * g[S \ {v}]
  <2>1. g[S] = Op(Multiplying, Card[v], g[S \ {v}]) BY <1>2 DEF FoldOf
  <2>2. g[S \ {v}] \in Nat \ {0} BY <1>3
  <2> QED BY <2>1, <2>2, CardFacts DEF Multiplying, Op
<1> QED BY <1>2, <1>3, <1>4 DEF FoldOf

LEMMA Greatest ==
  ASSUME NEW S \in SUBSET Variables, S # {}
  PROVE  Max(S) \in S /\ \A w \in S : w <= Max(S)
<1> DEFINE Q == {R \in SUBSET Variables : R = {} \/ \E m \in R : \A w \in R : w <= m}
<1>1. ASSUME NEW R \in SUBSET Variables, \A x \in R : R \ {x} \in Q PROVE R \in Q
  <2> SUFFICES ASSUME NEW x \in R PROVE \E m \in R : \A w \in R : w <= m
    OBVIOUS
  <2>1. CASE R \ {x} = {}
    <3>1. \A w \in R : w = x BY <2>1
    <3> QED BY <3>1, CardFacts
  <2>2. CASE R \ {x} # {}
    <3>1. PICK m \in R \ {x} : \A w \in R \ {x} : w <= m BY <1>1, <2>2
    <3>2. m \in Nat /\ x \in Nat BY CardFacts
    <3>3. CASE m <= x
      <4>1. ASSUME NEW w \in R PROVE w <= x
        <5>1. w \in Nat /\ (w = x \/ w <= m) BY <3>1, CardFacts
        <5> QED BY <3>2, <3>3, <5>1
      <4> QED BY <4>1
    <3>4. CASE ~ (m <= x)
      <4>1. x <= m BY <3>2, <3>4
      <4> QED BY <3>1, <4>1
    <3> QED BY <3>3, <3>4
  <2> QED BY <2>1, <2>2
<1>2. \A R \in SUBSET Variables : R \in Q
  <2> HIDE DEF Q
  <2> QED BY <1>1, CardFacts, FiniteInduction
<1>3. PICK m \in S : \A w \in S : w <= m BY <1>2
<1>4. m \in S /\ \A w \in S : m >= w BY <1>3, CardFacts
<1>5. Max(S) \in S /\ \A w \in S : Max(S) >= w BY <1>4 DEF Max
<1> QED BY <1>5, CardFacts

\* What "offsetFactor" is, without the greatest variable.
LEMMA OffsetLaws ==
  ASSUME NEW S \in SUBSET Variables, NEW v \in S
  PROVE  /\ OffsetFactor(S, v) \in Nat \ {0}
         /\ v = Max(S) => OffsetFactor(S, v) = 1
         /\ v # Max(S) => /\ v \in S \ {Max(S)}
                          /\ OffsetFactor(S, v) = Card[Max(S)] * OffsetFactor(S \ {Max(S)}, v)
<1>1. /\ Max(S) \in S /\ Max(S) \in Nat /\ v \in Nat /\ v <= Max(S)
      /\ \A w \in S : w <= Max(S) /\ w \in Nat
  BY Greatest, CardFacts
<1>2. {w \in S : w > v} \in SUBSET Variables OBVIOUS
<1>3. OffsetFactor(S, v) \in Nat \ {0} BY <1>2, CardinalityLaws DEF OffsetFactor
<1>4. CASE v = Max(S)
  <2>1. ASSUME NEW w \in S PROVE ~ (w > v) BY <1>1, <1>4
  <2>2. OffsetFactor(S, v) = 1 BY <2>1, <1>2, CardinalityLaws DEF OffsetFactor
  <2> QED BY <1>3, <1>4, <2>2
<1>5. CASE v # Max(S)
  <2>1. Max(S) \in S /\ Max(S) > v BY <1>1, <1>5
  <2>2. {w \in S : w > v} \ {Max(S)} = {w \in S \ {Max(S)} : w > v} OBVIOUS
  <2>3. OffsetFactor(S, v) = Card[Max(S)] * OffsetFactor(S \ {Max(S)}, v)
    BY <1>2, <2>1, <2>2, CardinalityLaws DEF OffsetFactor
  <2> QED BY <1>3, <1>5, <2>3
<1> QED BY <1>4, <1>5

(***************************************************************************)
(* Sums.                                                                   *)
(***************************************************************************)
LEMMA SumSame ==
  ASSUME NEW D, IsFiniteSet(D), NEW f, NEW h, \A x \in D : f[x] \in Nat /\ h[x] = f[x]
  PROVE  SumFunctionOnSet(f, D) = SumFunctionOnSet(h, D)
<1> DEFINE Q == {R \in SUBSET D : SumFunctionOnSet(f, R) = SumFunctionOnSet(h, R)}
<1>1. ASSUME NEW R \in SUBSET D, \A x \in R : R \ {x} \in Q PROVE R \in Q
  <2>1. CASE R = {} 
    <3>1. SumFunctionOnSet(f, R) = 0 BY <2>1, SumLaws
    <3>2. SumFunctionOnSet(h, R) = 0 BY <2>1, SumLaws
    <3> QED BY <3>1, <3>2
  <2>2. CASE R # {}
    <3>1. PICK x \in R : TRUE BY <2>2
    <3>2. SumFunctionOnSet(f, R) = f[x] + SumFunctionOnSet(f, R \ {x}) BY SumLaws
    <3>3. SumFunctionOnSet(h, R) = h[x] + SumFunctionOnSet(h, R \ {x}) BY SumLaws
    <3> QED BY <1>1, <3>2, <3>3
  <2> QED BY <2>1, <2>2
<1>2. \A R \in SUBSET D : R \in Q
  <2> HIDE DEF Q
  <2> QED BY <1>1, FiniteInduction
<1> QED BY <1>2

LEMMA SumScaled ==
  ASSUME NEW D, IsFiniteSet(D), NEW f, NEW h, NEW k \in Nat,
         \A x \in D : f[x] \in Nat /\ h[x] = k * f[x]
  PROVE  SumFunctionOnSet(h, D) = k * SumFunctionOnSet(f, D)
<1> DEFINE Q == {R \in SUBSET D : SumFunctionOnSet(h, R) = k * SumFunctionOnSet(f, R)}
<1>0. ASSUME NEW x \in D PROVE f[x] \in Nat /\ h[x] \in Nat /\ h[x] = k * f[x]
  <2>1. f[x] \in Nat /\ h[x] = k * f[x] OBVIOUS
  <2> QED BY <2>1
<1>1. ASSUME NEW R \in SUBSET D, \A x \in R : R \ {x} \in Q PROVE R \in Q
  <2>1. CASE R = {} 
    <3>1. SumFunctionOnSet(f, R) = 0 BY <1>0, <2>1, SumLaws
    <3>2. SumFunctionOnSet(h, R) = 0 BY <1>0, <2>1, SumLaws
    <3> QED BY <3>1, <3>2
  <2>2. CASE R # {}
    <3>1. PICK x \in R : TRUE BY <2>2
    <3>2. SumFunctionOnSet(f, R) = f[x] + SumFunctionOnSet(f, R \ {x}) BY <1>0, SumLaws
    <3>3. SumFunctionOnSet(h, R) = h[x] + SumFunctionOnSet(h, R \ {x}) BY <1>0, SumLaws
    <3>4. SumFunctionOnSet(h, R \ {x}) = k * SumFunctionOnSet(f, R \ {x}) BY <1>1
    <3>5. f[x] \in Nat /\ h[x] = k * f[x] BY <1>0
    <3>6. SumFunctionOnSet(f, R \ {x}) \in Nat BY <1>0, SumLaws
    <3>7. k * (f[x] + SumFunctionOnSet(f, R \ {x}))
            = k * f[x] + k * SumFunctionOnSet(f, R \ {x})
      BY <3>5, <3>6
    <3>8. SumFunctionOnSet(h, R) = k * SumFunctionOnSet(f, R)
      BY <3>2, <3>3, <3>4, <3>5, <3>7
    <3> QED BY <3>8
  <2> QED BY <2>1, <2>2
<1>2. \A R \in SUBSET D : R \in Q
  <2> HIDE DEF Q
  <2> QED BY <1>1, FiniteInduction
<1> QED BY <1>2

\* The same summands in another order.
LEMMA SumReordered ==
  ASSUME NEW D, IsFiniteSet(D), NEW f, NEW F,
         \A x, y \in D : F[x] = F[y] => x = y,
         NEW h, \A x \in D : h[x] \in Nat /\ f[F[x]] = h[x]
  PROVE  SumFunctionOnSet(h, D) = SumFunctionOnSet(f, {F[x] : x \in D})
<1> DEFINE I(R) == {F[x] : x \in R}
           Q == {R \in SUBSET D : SumFunctionOnSet(h, R) = SumFunctionOnSet(f, I(R))}
<1>0. IsFiniteSet(I(D)) /\ \A y \in I(D) : f[y] \in Nat
  <2>1. [x \in D |-> F[x]] \in Surjection(D, I(D)) BY DEF Surjection
  <2>2. IsFiniteSet(I(D)) BY <2>1, FS_Surjection
  <2> QED BY <2>2
<1>1. ASSUME NEW R \in SUBSET D, \A x \in R : R \ {x} \in Q PROVE R \in Q
  <2>0. I(R) \in SUBSET I(D) OBVIOUS
  <2>1. CASE R = {} 
    <3>1. SumFunctionOnSet(h, R) = 0 BY <2>1, SumLaws
    <3>2. I(R) = {} BY <2>1
    <3> HIDE DEF I
    <3>3. SumFunctionOnSet(f, I(R)) = 0 BY <1>0, <2>0, <3>2, SumLaws
    <3> QED BY <3>1, <3>3 DEF I
  <2>2. CASE R # {}
    <3>1. PICK x \in R : TRUE BY <2>2
    <3>2. F[x] \in I(R) /\ I(R) \ {F[x]} = I(R \ {x}) OBVIOUS
    <3>3. SumFunctionOnSet(h, R) = h[x] + SumFunctionOnSet(h, R \ {x}) BY SumLaws
    <3>4. SumFunctionOnSet(h, R \ {x}) = SumFunctionOnSet(f, I(R \ {x})) BY <1>1
    <3> HIDE DEF I
    <3>5. SumFunctionOnSet(f, I(R)) = f[F[x]] + SumFunctionOnSet(f, I(R) \ {F[x]})
      BY <1>0, <2>0, <3>2, SumLaws
    <3>6. SumFunctionOnSet(h, R) = SumFunctionOnSet(f, I(R)) BY <3>2, <3>3, <3>4, <3>5
    <3> QED BY <3>6 DEF I
  <2> QED BY <2>1, <2>2
<1>2. \A R \in SUBSET D : R \in Q
  <2> HIDE DEF Q
  <2> QED BY <1>1, FiniteInduction
<1> QED BY <1>2

(***************************************************************************)
(* The numbering of values.                                                *)
(***************************************************************************)
Valued(S, x) == \A v \in S : x[v] \in 0 .. Card[v] - 1

Weighed(S, x) == [v \in S |-> OffsetFactor(S, v) * x[v]]
PlaceSum(S, x) == SumFunctionOnSet(Weighed(S, x), S)

LEMMA WeighedFacts ==
  ASSUME NEW S \in SUBSET Variables, NEW x, Valued(S, x)
  PROVE  /\ IsFiniteSet(S)
         /\ \A v \in S : x[v] \in Nat /\ x[v] < Card[v] /\ Card[v] \in Nat \ {0}
         /\ \A v \in S : Weighed(S, x)[v] \in Nat
<1>1. \A v \in S : x[v] \in Nat /\ x[v] < Card[v] /\ Card[v] \in Nat \ {0}
  BY CardFacts DEF Valued
<1>2. ASSUME NEW v \in S PROVE Weighed(S, x)[v] \in Nat
  <2>1. OffsetFactor(S, v) \in Nat /\ x[v] \in Nat BY <1>1, OffsetLaws
  <2> QED BY <2>1 DEF Weighed
<1> QED BY <1>1, <1>2, CardFacts, FS_Subset

LEMMA PlaceSumLaws ==
  ASSUME NEW S \in SUBSET Variables, NEW x, Valued(S, x)
  PROVE  /\ PlaceSum(S, x) \in Nat
         /\ S = {} => PlaceSum(S, x) = 0
         /\ S # {} => /\ Valued(S \ {Max(S)}, x)
                      /\ PlaceSum(S, x) = PlaceSum(S \ {Max(S)}, x) * Card[Max(S)] + x[Max(S)]
<1>1. /\ IsFiniteSet(S)
      /\ \A v \in S : x[v] \in Nat /\ x[v] < Card[v] /\ Card[v] \in Nat \ {0}
      /\ \A v \in S : Weighed(S, x)[v] \in Nat
  BY WeighedFacts
<1>2. PlaceSum(S, x) \in Nat /\ (S = {} => PlaceSum(S, x) = 0)
  BY <1>1, SumLaws DEF PlaceSum
<1>3. CASE S # {}
  <2> DEFINE m == Max(S)
             R == S \ {m}
  <2>1. m \in S BY <1>3, Greatest
  <2>2. R \in SUBSET Variables /\ R \in SUBSET S /\ Valued(R, x) BY DEF Valued
  <2>3. /\ IsFiniteSet(R)
        /\ \A v \in R : Weighed(R, x)[v] \in Nat
    <3> HIDE DEF R
    <3> QED BY <2>2, WeighedFacts
  <2>4. PlaceSum(S, x) = Weighed(S, x)[m] + SumFunctionOnSet(Weighed(S, x), R)
    <3> HIDE DEF m
    <3> QED BY <1>1, <2>1, SumLaws DEF PlaceSum
  <2>5. Weighed(S, x)[m] = x[m]
    <3>1. OffsetFactor(S, m) = 1 BY <2>1, OffsetLaws
    <3> HIDE DEF m
    <3> QED BY <1>1, <2>1, <3>1 DEF Weighed
  <2>6. ASSUME NEW v \in R PROVE Weighed(S, x)[v] = Card[m] * Weighed(R, x)[v]
    <3>1. v \in S /\ OffsetFactor(S, v) = Card[m] * OffsetFactor(R, v) BY OffsetLaws
    <3> HIDE DEF R, m
    <3>2. OffsetFactor(R, v) \in Nat BY <2>2, OffsetLaws
    <3>3. x[v] \in Nat /\ Card[m] \in Nat BY <1>1, <2>1, <2>2
    <3>4. (Card[m] * OffsetFactor(R, v)) * x[v] = Card[m] * (OffsetFactor(R, v) * x[v])
      BY <3>2, <3>3
    <3> QED BY <3>1, <3>4 DEF Weighed
  <2>7. SumFunctionOnSet(Weighed(S, x), R) = Card[m] * PlaceSum(R, x)
    <3>1. Card[m] \in Nat BY <1>1, <2>1
    <3> HIDE DEF R, m
    <3> QED BY <2>3, <2>6, <3>1, SumScaled DEF PlaceSum
  <2>8. PlaceSum(R, x) \in Nat
    <3> HIDE DEF R, m
    <3> QED BY <2>3, SumLaws DEF PlaceSum
  <2>9. PlaceSum(S, x) = PlaceSum(R, x) * Card[m] + x[m]
    <3>1. Card[m] \in Nat /\ x[m] \in Nat BY <1>1, <2>1
    <3> HIDE DEF R, m
    <3> QED BY <2>4, <2>5, <2>7, <2>8, <3>1
  <2> QED BY <1>2, <1>3, <2>2, <2>9
<1> QED BY <1>2, <1>3

LEMMA PlaceIsSum ==
  ASSUME NEW S \in SUBSET Variables, NEW x, Valued(S, x)
  PROVE  Place(S, x) = PlaceSum(S, x)
<1> DEFINE Iter(i) == i = [s \in SUBSET S |-> IF s = {} THEN 0
                                               ELSE i[s \ {Max(s)}] * Card[Max(s)] + x[Max(s)]]
           iter == CHOOSE i : Iter(i)
           h == [s \in SUBSET S |-> PlaceSum(s, x)]
           Q == {s \in SUBSET S : iter[s] = PlaceSum(s, x)}
<1>0. Place(S, x) = iter[S] BY DEF Place, MapThenFoldSet
<1>1. ASSUME NEW s \in SUBSET S
      PROVE  /\ s = {} => PlaceSum(s, x) = 0
             /\ s # {} => /\ Max(s) \in s
                          /\ PlaceSum(s, x) = PlaceSum(s \ {Max(s)}, x) * Card[Max(s)] + x[Max(s)]
  <2>1. Valued(s, x) BY DEF Valued
  <2> QED BY <2>1, PlaceSumLaws, Greatest
<1>2. Iter(h)
  <2>1. ASSUME NEW s \in SUBSET S
        PROVE  h[s] = IF s = {} THEN 0 ELSE h[s \ {Max(s)}] * Card[Max(s)] + x[Max(s)]
    BY <1>1
  <2>2. h = [s \in SUBSET S |-> h[s]] OBVIOUS
  <2> HIDE DEF h
  <2> QED BY <2>1, <2>2
<1>3. Iter(iter)
  <2> HIDE DEF Iter
  <2> QED BY <1>2
<1>4. ASSUME NEW s \in SUBSET S
      PROVE  iter[s] = IF s = {} THEN 0 ELSE iter[s \ {Max(s)}] * Card[Max(s)] + x[Max(s)]
  <2> HIDE DEF iter
  <2> QED BY <1>3
<1>5. ASSUME NEW s \in SUBSET S, \A v \in s : s \ {v} \in Q PROVE s \in Q
  <2> HIDE DEF iter
  <2> QED BY <1>1, <1>4, <1>5
<1>6. \A s \in SUBSET S : s \in Q
  <2>1. IsFiniteSet(S) BY FS_Subset, CardFacts
  <2> HIDE DEF Q
  <2> QED BY <1>5, <2>1, FiniteInduction
<1> QED BY <1>0, <1>6

(***************************************************************************)
(* Places count through the table, and EnumerateValues undoes them.        *)
(***************************************************************************)
LEMMA PlaceLaws ==
  ASSUME NEW S \in SUBSET Variables, NEW x, Valued(S, x)
  PROVE  /\ Place(S, x) \in Nat
         /\ S = {} => Place(S, x) = 0
         /\ S # {} => /\ Valued(S \ {Max(S)}, x)
                      /\ Place(S, x) = Place(S \ {Max(S)}, x) * Card[Max(S)] + x[Max(S)]
<1>1. S \ {Max(S)} \in SUBSET Variables OBVIOUS
<1> QED BY <1>1, PlaceSumLaws, PlaceIsSum

LEMMA PlaceBound ==
  ASSUME NEW S \in SUBSET Variables, NEW x, Valued(S, x)
  PROVE  Place(S, x) \in 0 .. GetCardinality(S) - 1
<1> DEFINE Q == {R \in SUBSET S : Place(R, x) < GetCardinality(R)}
<1>0. IsFiniteSet(S) /\ \A R \in SUBSET S : Valued(R, x) BY WeighedFacts DEF Valued
<1>1. ASSUME NEW R \in SUBSET S, \A v \in R : R \ {v} \in Q PROVE R \in Q
  <2>0. R \in SUBSET Variables /\ Valued(R, x) BY <1>0
  <2>1. CASE R = {}
    <3>1. Place(R, x) = 0 /\ GetCardinality(R) = 1 BY <2>0, <2>1, PlaceLaws, CardinalityLaws
    <3> QED BY <3>1
  <2>2. CASE R # {}
    <3> DEFINE m == Max(R)
               g == GetCardinality(R \ {m})
               k == Place(R \ {m}, x)
    <3>1. m \in R BY <2>0, <2>2, Greatest
    <3>2. GetCardinality(R) = Card[m] * g /\ g \in Nat \ {0}
      <4>1. R \ {m} \in SUBSET Variables OBVIOUS
      <4> HIDE DEF m
      <4> QED BY <2>0, <3>1, <4>1, CardinalityLaws
    <3>3. Place(R, x) = k * Card[m] + x[m] BY <2>0, <2>2, PlaceLaws
    <3>4. k \in Nat
      <4>1. R \ {m} \in SUBSET Variables /\ Valued(R \ {m}, x) BY DEF Valued
      <4> HIDE DEF m
      <4> QED BY <4>1, PlaceLaws
    <3>5. k < g BY <1>1, <3>1
    <3>6. x[m] \in Nat /\ x[m] < Card[m] /\ Card[m] \in Nat \ {0} BY <2>0, <3>1, WeighedFacts
    <3> HIDE DEF m, g, k
    <3>7. Place(R, x) < GetCardinality(R)
      <4>1. k * Card[m] + x[m] < g * Card[m] BY <3>2, <3>4, <3>5, <3>6, Carry
      <4>2. g * Card[m] = Card[m] * g BY <3>2, <3>6
      <4> QED BY <3>2, <3>3, <4>1, <4>2
    <3> QED BY <3>7
  <2> QED BY <2>1, <2>2
<1>2. \A R \in SUBSET S : R \in Q
  <2> HIDE DEF Q
  <2> QED BY <1>0, <1>1, FiniteInduction
<1>3. Place(S, x) \in Nat /\ GetCardinality(S) \in Nat BY PlaceLaws, CardinalityLaws
<1>4. Place(S, x) < GetCardinality(S) BY <1>2
<1> QED BY <1>3, <1>4

LEMMA PlaceDecoded ==
  ASSUME NEW S \in SUBSET Variables, NEW x, Valued(S, x), NEW v \in S
  PROVE  (Place(S, x) \div OffsetFactor(S, v)) % Card[v] = x[v]
<1> DEFINE Q == {R \in SUBSET S : \A w \in R :
                   (Place(R, x) \div OffsetFactor(R, w)) % Card[w] = x[w]}
<1>0. IsFiniteSet(S) /\ \A R \in SUBSET S : Valued(R, x) BY WeighedFacts DEF Valued
<1>1. ASSUME NEW R \in SUBSET S, \A w \in R : R \ {w} \in Q PROVE R \in Q
  <2>0. R \in SUBSET Variables /\ Valued(R, x) BY <1>0
  <2> SUFFICES ASSUME NEW w \in R
               PROVE  (Place(R, x) \div OffsetFactor(R, w)) % Card[w] = x[w]
    OBVIOUS
  <2> DEFINE m == Max(R)
             k == Place(R \ {m}, x)
             c == Card[m]
  <2>1. m \in R BY <2>0, Greatest
  <2>2. Place(R, x) = k * c + x[m] BY <2>0, PlaceLaws
  <2>3. k \in Nat
    <3>1. R \ {m} \in SUBSET Variables /\ Valued(R \ {m}, x) BY DEF Valued
    <3> HIDE DEF m
    <3> QED BY <3>1, PlaceLaws
  <2>4. x[m] \in Nat /\ x[m] < c /\ c \in Nat \ {0} BY <2>0, <2>1, WeighedFacts
  <2>5. k * c \in Nat /\ Place(R, x) \in Nat
        /\ Place(R, x) \div c = k /\ Place(R, x) % c = x[m]
    <3> HIDE DEF k, c, m
    <3>1. k * c \in Nat BY <2>3, <2>4
    <3>2. k * c + x[m] \in Nat BY <3>1, <2>4
    <3> QED BY <2>2, <2>3, <2>4, <3>1, <3>2, DivUnique
  <2>6. CASE w = m
    <3>1. OffsetFactor(R, m) = 1 BY <2>0, <2>1, OffsetLaws
    <3> HIDE DEF k, c, m
    <3>2. Place(R, x) \div 1 = Place(R, x) BY <2>5
    <3> QED BY <2>5, <2>6, <3>1, <3>2 DEF c
  <2>7. CASE w # m
    <3> DEFINE o == OffsetFactor(R \ {m}, w)
    <3>1. w \in R \ {m} /\ OffsetFactor(R, w) = c * o BY <2>0, <2>7, OffsetLaws
    <3>2. o \in Nat \ {0}
      <4>1. R \ {m} \in SUBSET Variables OBVIOUS
      <4> HIDE DEF m
      <4> QED BY <3>1, <4>1, OffsetLaws
    <3>3. (k \div o) % Card[w] = x[w] BY <1>1, <2>1, <3>1
    <3> HIDE DEF k, c, m, o
    <3>4. Place(R, x) \div (c * o) = (Place(R, x) \div c) \div o
      BY <2>4, <2>5, <3>2, DivTwice
    <3> QED BY <2>5, <3>1, <3>3, <3>4
  <2> QED BY <2>6, <2>7
<1>2. \A R \in SUBSET S : R \in Q
  <2> HIDE DEF Q
  <2> QED BY <1>0, <1>1, FiniteInduction
<1> QED BY <1>2

\* A place is that of values which agree, and of no others.
LEMMA PlaceSame ==
  ASSUME NEW S \in SUBSET Variables, NEW x, Valued(S, x), NEW y, \A v \in S : y[v] = x[v]
  PROVE  Valued(S, y) /\ Place(S, y) = Place(S, x)
<1>1. Valued(S, y) BY DEF Valued
<1>2. Weighed(S, y) = Weighed(S, x) BY DEF Weighed
<1>3. PlaceSum(S, y) = PlaceSum(S, x) BY <1>2 DEF PlaceSum
<1> QED BY <1>1, <1>3, PlaceIsSum

LEMMA PlaceOnce ==
  ASSUME NEW S \in SUBSET Variables, NEW x, Valued(S, x), NEW y, Valued(S, y),
         Place(S, x) = Place(S, y), NEW v \in S
  PROVE  x[v] = y[v]
<1>1. (Place(S, x) \div OffsetFactor(S, v)) % Card[v] = x[v] BY PlaceDecoded
<1>2. (Place(S, y) \div OffsetFactor(S, v)) % Card[v] = y[v] BY PlaceDecoded
<1> QED BY <1>1, <1>2

LEMMA PlaceOnto ==
  ASSUME NEW S \in SUBSET Variables, NEW i \in 0 .. GetCardinality(S) - 1
  PROVE  \E x : x \in [S -> Nat] /\ Valued(S, x) /\ Place(S, x) = i
<1> DEFINE Q == {R \in SUBSET Variables : \A k \in 0 .. GetCardinality(R) - 1 :
                   \E x : x \in [R -> Nat] /\ Valued(R, x) /\ Place(R, x) = k}
<1>1. ASSUME NEW R \in SUBSET Variables, \A v \in R : R \ {v} \in Q PROVE R \in Q
  <2> SUFFICES ASSUME NEW k \in 0 .. GetCardinality(R) - 1
               PROVE  \E x : x \in [R -> Nat] /\ Valued(R, x) /\ Place(R, x) = k
    OBVIOUS
  <2>1. CASE R = {}
    <3>1. GetCardinality(R) = 1 BY <2>1, CardinalityLaws
    <3> DEFINE x == [v \in R |-> 0]
    <3>2. x \in [R -> Nat] /\ Valued(R, x) BY <2>1 DEF Valued
    <3> HIDE DEF x
    <3>3. Place(R, x) = 0 BY <2>1, <3>2, PlaceLaws
    <3> QED BY <3>1, <3>2, <3>3
  <2>2. CASE R # {}
    <3> DEFINE m == Max(R)
               P == R \ {m}
               c == Card[m]
    <3>1. m \in R /\ P \in SUBSET Variables /\ c \in Nat \ {0} BY <2>2, Greatest, CardFacts
    <3>2. GetCardinality(R) = c * GetCardinality(P) /\ GetCardinality(P) \in Nat \ {0}
      <4> HIDE DEF m
      <4> QED BY <3>1, CardinalityLaws
    <3>3. k \in Nat /\ k < c * GetCardinality(P)
      <4> HIDE DEF c, P
      <4>1. GetCardinality(R) \in Nat BY CardinalityLaws
      <4> QED BY <3>2, <4>1
    <3>4. k \div c \in 0 .. GetCardinality(P) - 1 /\ k % c \in 0 .. c - 1
          /\ k = (k \div c) * c + (k % c)
      <4> DEFINE g == GetCardinality(P)
      <4> HIDE DEF c, g
      <4>1. g \in Nat \ {0} /\ k < c * g BY <3>2, <3>3 DEF g
      <4>2. k \div c \in Nat /\ k % c \in Nat /\ k % c < c /\ k = (k \div c) * c + (k % c)
        BY <3>1, <3>3, DivMod
      <4>3. k \div c < g BY <3>1, <3>3, <4>1, DivBound
      <4> QED BY <3>1, <4>1, <4>2, <4>3 DEF g
    <3>5. PICK y : y \in [P -> Nat] /\ Valued(P, y) /\ Place(P, y) = k \div c
      <4> HIDE DEF c
      <4> QED BY <1>1, <3>1, <3>4
    <3> DEFINE x == [v \in R |-> IF v = m THEN k % c ELSE y[v]]
    <3>6. \A v \in P : x[v] = y[v] /\ v \in R OBVIOUS
    <3>7. x[m] = k % c BY <3>1
    <3>8. x \in [R -> Nat]
      <4>1. k % c \in Nat BY <3>1, <3>4
      <4> HIDE DEF c, m
      <4> QED BY <3>5, <4>1
    <3>9. Valued(R, x)
      <4> SUFFICES ASSUME NEW v \in R PROVE x[v] \in 0 .. Card[v] - 1
        BY DEF Valued
      <4>1. CASE v = m BY <3>4, <3>7, <4>1
      <4>2. CASE v # m
        <5> HIDE DEF x, m
        <5> QED BY <3>5, <3>6, <4>2 DEF Valued
      <4> QED BY <4>1, <4>2
    <3> HIDE DEF x
    <3>10. Place(R, x) = Place(P, x) * c + x[m] BY <2>2, <3>9, PlaceLaws
    <3>11. Place(P, x) = Place(P, y)
      <4> HIDE DEF P
      <4> QED BY <3>1, <3>5, <3>6, PlaceSame
    <3>12. Place(R, x) = k BY <3>4, <3>5, <3>7, <3>10, <3>11
    <3> QED BY <3>8, <3>9, <3>12
  <2> QED BY <2>1, <2>2
<1>2. \A R \in SUBSET Variables : R \in Q
  <2> HIDE DEF Q
  <2> QED BY <1>1, CardFacts, FiniteInduction
<1> QED BY <1>2

(***************************************************************************)
(* A set of variables as a list.                                           *)
(***************************************************************************)
LEMMA PositionOnce ==
  ASSUME NEW S \in SUBSET Variables, NEW v \in S, NEW w \in S, v < w
  PROVE  Position(v, S) # Position(w, S)
<1> DEFINE A == {u \in S : u <= v}
           B == {u \in S : u <= w}
<1>1. \A u \in S : u \in Nat BY CardFacts
<1>2. A \in SUBSET B
  <2> SUFFICES ASSUME NEW u \in A PROVE u <= w
    OBVIOUS
  <2>1. u \in Nat /\ v \in Nat /\ w \in Nat /\ u <= v BY <1>1
  <2> QED BY <2>1
<1>3. w \in B /\ w \notin A BY <1>1
<1>4. IsFiniteSet(B)
  <2>1. B \in SUBSET Variables OBVIOUS
  <2> HIDE DEF B
  <2> QED BY <2>1, CardFacts, FS_Subset
<1>5. Cardinality(A) # Cardinality(B)
  <2> HIDE DEF A, B
  <2> QED BY <1>2, <1>3, <1>4, FS_Subset
<1> QED BY <1>5 DEF Position

LEMMA ListLaws ==
  ASSUME NEW S \in SUBSET Variables
  PROVE  /\ IsFiniteSet(S) /\ Cardinality(S) \in Nat
         /\ \A v \in S : Position(v, S) \in 1 .. Cardinality(S)
                         /\ VariableList(S)[Position(v, S)] = v
         /\ DOMAIN VariableList(S) = 1 .. Cardinality(S)
         /\ \A j \in 1 .. Cardinality(S) :
              VariableList(S)[j] \in S /\ Position(VariableList(S)[j], S) = j
<1> DEFINE n == Cardinality(S)
           f == [v \in S |-> Position(v, S)]
<1>1. IsFiniteSet(S) /\ n \in Nat BY CardFacts, FS_Subset, FS_CardinalityType
<1>2. ASSUME NEW v \in S PROVE Position(v, S) \in 1 .. n
  <2> DEFINE A == {u \in S : u <= v}
  <2>1. v \in A BY CardFacts
  <2>2. A \in SUBSET S OBVIOUS
  <2> HIDE DEF A
  <2>3. IsFiniteSet(A) /\ Cardinality(A) <= n /\ Cardinality(A) \in Nat
    BY <1>1, <2>2, FS_Subset, FS_CardinalityType
  <2>4. Cardinality(A) # 0 BY <2>1, <2>3, FS_EmptySet
  <2> QED BY <1>1, <2>3, <2>4 DEF A, Position
<1>3. ASSUME NEW v \in S, NEW w \in S, Position(v, S) = Position(w, S) PROVE v = w
  <2>1. v \in Nat /\ w \in Nat BY CardFacts
  <2>2. ~ (v < w) /\ ~ (w < v) BY <1>3, PositionOnce
  <2> QED BY <2>1, <2>2
<1>4. f \in Injection(S, 1 .. n)
  <2>1. \A v, w \in S : f[v] = f[w] => v = w BY <1>3
  <2>2. f \in [S -> 1 .. n] BY <1>2
  <2> HIDE DEF f, n
  <2> QED BY <2>1, <2>2 DEF Injection, IsInjective
<1>5. f \in Surjection(S, 1 .. n)
  <2>1. IsFiniteSet(1 .. n) /\ Cardinality(1 .. n) = n BY <1>1, FS_Interval
  <2> HIDE DEF f
  <2> QED BY <1>1, <1>4, <2>1, FS_Injection
<1>6. ASSUME NEW j \in 1 .. n
      PROVE  VariableList(S)[j] \in S /\ Position(VariableList(S)[j], S) = j
  <2>1. \E v \in S : Position(v, S) = j BY <1>5 DEF Surjection
  <2>2. VariableList(S)[j] = CHOOSE v \in S : Position(v, S) = j BY DEF VariableList
  <2> QED BY <2>1, <2>2
<1>7. \A v \in S : VariableList(S)[Position(v, S)] = v BY <1>2, <1>3, <1>6
<1>8. DOMAIN VariableList(S) = 1 .. n BY DEF VariableList
<1> QED BY <1>1, <1>2, <1>6, <1>7, <1>8

LEMMA ComputeIndexIsPlace ==
  ASSUME NEW S \in SUBSET Variables, NEW x, Valued(S, x),
         NEW values, \A j \in 1 .. Cardinality(S) : values[j] = x[VariableList(S)[j]]
  PROVE  ComputeIndex(S, values) = Place(S, x)
<1> DEFINE n == Cardinality(S)
           F == VariableList(S)
           h == [j \in 1 .. n |-> values[j] * OffsetFactor(S, F[j])]
           f == Weighed(S, x)
<1>1. /\ n \in Nat /\ \A j \in 1 .. n : F[j] \in S /\ Position(F[j], S) = j
      /\ \A v \in S : Position(v, S) \in 1 .. n /\ F[Position(v, S)] = v
  BY ListLaws
<1>2. {F[j] : j \in 1 .. n} = S
  <2> HIDE DEF F, n
  <2> QED BY <1>1
<1>3. ASSUME NEW j \in 1 .. n PROVE h[j] \in Nat /\ f[F[j]] = h[j]
  <2>1. F[j] \in S /\ values[j] = x[F[j]] BY <1>1
  <2>2. OffsetFactor(S, F[j]) \in Nat /\ x[F[j]] \in Nat /\ f[F[j]] \in Nat
    <3> HIDE DEF F, f
    <3>1. OffsetFactor(S, F[j]) \in Nat BY <2>1, OffsetLaws
    <3> QED BY <2>1, <3>1, WeighedFacts DEF f
  <2>3. f[F[j]] = OffsetFactor(S, F[j]) * x[F[j]]
    <3> HIDE DEF F
    <3> QED BY <2>1 DEF Weighed
  <2>4. h[j] = x[F[j]] * OffsetFactor(S, F[j]) BY <2>1
  <2> HIDE DEF F, f, h
  <2>5. x[F[j]] * OffsetFactor(S, F[j]) = OffsetFactor(S, F[j]) * x[F[j]] BY <2>2
  <2> QED BY <2>2, <2>3, <2>4, <2>5
<1>4. \A i, j \in 1 .. n : F[i] = F[j] => i = j
  <2> HIDE DEF F
  <2> QED BY <1>1
<1>5. IsFiniteSet(1 .. n) BY <1>1, FS_Interval
<1>6. SumFunctionOnSet(h, 1 .. n) = SumFunctionOnSet(f, S)
  <2> DEFINE D == 1 .. n
  <2>1. SumFunctionOnSet(h, D) = SumFunctionOnSet(f, {F[j] : j \in D})
    <3> HIDE DEF F, f, h, D, n
    <3>1. IsFiniteSet(D) BY <1>5 DEF D
    <3>2. \A i, j \in D : F[i] = F[j] => i = j BY <1>4 DEF D
    <3>3. \A j \in D : h[j] \in Nat /\ f[F[j]] = h[j] BY <1>3 DEF D
    <3> QED BY <3>1, <3>2, <3>3, SumReordered
  <2> QED BY <1>2, <2>1
<1>7. ComputeIndex(S, values) = SumFunctionOnSet(h, 1 .. n)
  BY DEF ComputeIndex, SumFunction
<1> QED BY <1>6, <1>7, PlaceIsSum DEF PlaceSum

(***************************************************************************)
(* Index tables: each entry of the larger table is found once, from the    *)
(* entry of the smaller one that agrees with it.                           *)
(***************************************************************************)
LEMMA EnumerateLaws ==
  ASSUME NEW S \in SUBSET Variables, S # {}
  PROVE  /\ DOMAIN EnumerateValues(S) = 0 .. GetCardinality(S) - 1
         /\ EnumerateValues(S) # <<>>
         /\ \A x : Valued(S, x) => \A j \in 1 .. Cardinality(S) :
              EnumerateValues(S)[Place(S, x)][j] = x[VariableList(S)[j]]
<1>1. DOMAIN EnumerateValues(S) = 0 .. GetCardinality(S) - 1 BY DEF EnumerateValues
<1>2. GetCardinality(S) \in Nat \ {0} BY CardinalityLaws
<1>3. 0 \in DOMAIN EnumerateValues(S) BY <1>1, <1>2
<1>4. EnumerateValues(S) # <<>> BY <1>3
<1>5. ASSUME NEW x, Valued(S, x), NEW j \in 1 .. Cardinality(S)
      PROVE  EnumerateValues(S)[Place(S, x)][j] = x[VariableList(S)[j]]
  <2> DEFINE v == VariableList(S)[j]
  <2>1. v \in S BY ListLaws
  <2>2. Place(S, x) \in 0 .. GetCardinality(S) - 1 BY <1>5, PlaceBound
  <2>3. EnumerateValues(S)[Place(S, x)][j] = (Place(S, x) \div OffsetFactor(S, v)) % Card[v]
    BY <2>2 DEF EnumerateValues
  <2> HIDE DEF v
  <2>4. (Place(S, x) \div OffsetFactor(S, v)) % Card[v] = x[v]
    BY <1>5, <2>1, PlaceDecoded
  <2> QED BY <2>3, <2>4 DEF v
<1> QED BY <1>1, <1>4, <1>5

LEMMA CrossLaws ==
  ASSUME NEW S \in SUBSET Variables, NEW R \in SUBSET Variables, NEW x,
         NEW values, \A j \in 1 .. Cardinality(S) : values[j] = x[VariableList(S)[j]],
         NEW rows, NEW i \in DOMAIN rows,
         \A j \in 1 .. Cardinality(R) : rows[i][j] = x[VariableList(R)[j]],
         NEW p \in 1 .. Cardinality(S \cup R)
  PROVE  IndexCross(S, values, R, rows)[i][p] = x[VariableList(S \cup R)[p]]
<1> DEFINE both == VariableList(S \cup R)
<1>1. S \cup R \in SUBSET Variables OBVIOUS
<1>2. both[p] \in S \cup R /\ DOMAIN both = 1 .. Cardinality(S \cup R) BY <1>1, ListLaws
<1>3. IndexCross(S, values, R, rows)[i][p]
        = IF both[p] \in S THEN values[Position(both[p], S)]
          ELSE rows[i][Position(both[p], R)]
  BY <1>2 DEF IndexCross
<1> HIDE DEF both
<1>4. CASE both[p] \in S
  <2>1. /\ Position(both[p], S) \in 1 .. Cardinality(S)
        /\ VariableList(S)[Position(both[p], S)] = both[p]
    BY <1>4, ListLaws
  <2> QED BY <1>3, <1>4, <2>1 DEF both
<1>5. CASE both[p] \notin S
  <2>0. both[p] \in R BY <1>2, <1>5
  <2>1. /\ Position(both[p], R) \in 1 .. Cardinality(R)
        /\ VariableList(R)[Position(both[p], R)] = both[p]
    BY <2>0, ListLaws
  <2> QED BY <1>3, <1>5, <2>1 DEF both
<1> QED BY <1>4, <1>5

LEMMA AgreeingLaws ==
  ASSUME NEW T \in SUBSET Variables, NEW S \in SUBSET T, S # {}, S # T
  PROVE  /\ DOMAIN AgreeingIndices(S, T) = 0 .. GetCardinality(S) - 1
         /\ \A i \in 0 .. GetCardinality(S) - 1 :
              DOMAIN AgreeingIndices(S, T)[i] = 0 .. GetCardinality(T \ S) - 1
         /\ \A x : Valued(T, x) =>
              AgreeingIndices(S, T)[Place(S, x)][Place(T \ S, x)] = Place(T, x)
<1> DEFINE R == T \ S
           fixed == EnumerateValues(S)
           free == EnumerateValues(R)
           crossed(i) == IndexCross(S, fixed[i], R, free)
<1>0. S \in SUBSET Variables /\ R \in SUBSET Variables /\ R # {} /\ S \cup R = T OBVIOUS
<1>1. SymDiff(S, T) = R BY DEF SymDiff
<1>2. AgreeingIndices(S, T)
        = [i \in DOMAIN fixed |-> [j \in DOMAIN free |-> ComputeIndex(T, crossed(i)[j])]]
  <2> HIDE DEF R
  <2> QED BY <1>1 DEF AgreeingIndices
<1>3. DOMAIN fixed = 0 .. GetCardinality(S) - 1 BY <1>0, EnumerateLaws
<1>4. DOMAIN free = 0 .. GetCardinality(R) - 1
  <2> HIDE DEF R
  <2> QED BY <1>0, EnumerateLaws
<1>5. ASSUME NEW x, Valued(T, x)
      PROVE  AgreeingIndices(S, T)[Place(S, x)][Place(R, x)] = Place(T, x)
  <2>1. Valued(S, x) /\ Valued(R, x) BY <1>5 DEF Valued
  <2> DEFINE i == Place(S, x)
             j == Place(R, x)
  <2> HIDE DEF R
  <2>2. i \in DOMAIN fixed /\ j \in DOMAIN free BY <1>0, <1>3, <1>4, <2>1, PlaceBound
  <2>3. \A k \in 1 .. Cardinality(S) : fixed[i][k] = x[VariableList(S)[k]]
    BY <1>0, <2>1, EnumerateLaws
  <2>4. \A k \in 1 .. Cardinality(R) : free[j][k] = x[VariableList(R)[k]]
    BY <1>0, <2>1, EnumerateLaws
  <2>5. AgreeingIndices(S, T)[i][j] = ComputeIndex(T, crossed(i)[j])
    <3> HIDE DEF crossed, i, j
    <3> QED BY <1>2, <2>2
  <2>6. \A k \in 1 .. Cardinality(T) : crossed(i)[j][k] = x[VariableList(T)[k]]
    <3> HIDE DEF i, j, fixed, free
    <3> QED BY <1>0, <2>2, <2>3, <2>4, CrossLaws
  <2>7. ComputeIndex(T, crossed(i)[j]) = Place(T, x)
    <3> HIDE DEF i, j, crossed
    <3> QED BY <1>5, <2>6, ComputeIndexIsPlace
  <2> QED BY <2>5, <2>7
<1>6. ASSUME NEW i \in 0 .. GetCardinality(S) - 1
      PROVE  DOMAIN AgreeingIndices(S, T)[i] = 0 .. GetCardinality(R) - 1
  <2> HIDE DEF R
  <2> QED BY <1>2, <1>3, <1>4
<1> QED BY <1>2, <1>3, <1>5, <1>6

\* Values over two sets of variables, from places in their tables.
Split(T, S, i, j, x) == Valued(T, x) /\ Place(S, x) = i /\ Place(T \ S, x) = j

LEMMA Combined ==
  ASSUME NEW T \in SUBSET Variables, NEW S \in SUBSET T,
         NEW i \in 0 .. GetCardinality(S) - 1, NEW j \in 0 .. GetCardinality(T \ S) - 1
  PROVE  \E x : Split(T, S, i, j, x)
<1> DEFINE R == T \ S
<1>0. S \in SUBSET Variables /\ R \in SUBSET Variables OBVIOUS
<1>1. PICK y : Valued(S, y) /\ Place(S, y) = i BY <1>0, PlaceOnto
<1>2. PICK z : Valued(R, z) /\ Place(R, z) = j
  <2>1. j \in 0 .. GetCardinality(R) - 1 OBVIOUS
  <2> HIDE DEF R
  <2> QED BY <1>0, <2>1, PlaceOnto
<1> DEFINE x == [v \in T |-> IF v \in S THEN y[v] ELSE z[v]]
<1>3. (\A v \in S : x[v] = y[v]) /\ (\A v \in R : x[v] = z[v]) OBVIOUS
<1>4. Valued(T, x) BY <1>1, <1>2 DEF Valued
<1> HIDE DEF x, R
<1>5. Place(S, x) = i BY <1>0, <1>1, <1>3, PlaceSame
<1>6. Place(R, x) = j BY <1>0, <1>2, <1>3, PlaceSame
<1> QED BY <1>4, <1>5, <1>6 DEF R, Split

LEMMA AgreeingRange ==
  ASSUME NEW T \in SUBSET Variables, NEW S \in SUBSET T, S # {}, S # T,
         NEW i \in 0 .. GetCardinality(S) - 1, NEW j \in 0 .. GetCardinality(T \ S) - 1
  PROVE  AgreeingIndices(S, T)[i][j] \in 0 .. GetCardinality(T) - 1
<1>1. PICK y : Valued(T, y) /\ Place(S, y) = i /\ Place(T \ S, y) = j
  <2>1. \E y : Split(T, S, i, j, y) BY Combined
  <2> QED BY <2>1 DEF Split
<1>2. AgreeingIndices(S, T)[i][j] = Place(T, y) BY <1>1, AgreeingLaws
<1> QED BY <1>1, <1>2, PlaceBound

LEMMA AgreeingOnce ==
  ASSUME NEW T \in SUBSET Variables, NEW S \in SUBSET T, S # {}, S # T,
         NEW i \in 0 .. GetCardinality(S) - 1, NEW j \in 0 .. GetCardinality(T \ S) - 1,
         NEW x, Valued(T, x), AgreeingIndices(S, T)[i][j] = Place(T, x)
  PROVE  Place(S, x) = i /\ Place(T \ S, x) = j
<1> DEFINE R == T \ S
<1>0. S \in SUBSET Variables /\ R \in SUBSET Variables OBVIOUS
<1>1. PICK y : Valued(T, y) /\ Place(S, y) = i /\ Place(T \ S, y) = j
  <2> HIDE DEF R
  <2>1. \E y : Split(T, S, i, j, y) BY Combined
  <2> QED BY <2>1 DEF Split
<1>2. AgreeingIndices(S, T)[i][j] = Place(T, y) BY <1>1, AgreeingLaws
<1>3. Place(T, x) = Place(T, y) BY <1>1, <1>2
<1>4. ASSUME NEW v \in T PROVE x[v] = y[v] BY <1>1, <1>3, PlaceOnce
<1>5. Valued(S, y) /\ Valued(R, y) BY <1>1 DEF Valued
<1>6. (\A v \in S : x[v] = y[v]) /\ (\A v \in R : x[v] = y[v]) BY <1>4
<1>7. Place(R, y) = j BY <1>1
<1> HIDE DEF R
<1>8. Place(S, x) = Place(S, y) /\ Place(R, x) = Place(R, y) BY <1>0, <1>5, <1>6, PlaceSame
<1> QED BY <1>1, <1>7, <1>8 DEF R

(***************************************************************************)
(* Numbers: fractions in lowest terms.                                     *)
(***************************************************************************)
LEMMA Least ==
  ASSUME NEW S \in SUBSET Nat, S # {}
  PROVE  Min(S) \in S /\ \A m \in S : Min(S) <= m
<1>1. PICK m \in S : \A k \in S : ~ (<<k, m>> \in OpToRel(<, Nat))
  BY WFMin, NatLessThanWellFounded
<1>2. \A k \in S : m <= k
  <2> SUFFICES ASSUME NEW k \in S PROVE m <= k
    OBVIOUS
  <2>1. m \in Nat /\ k \in Nat OBVIOUS
  <2>2. ~ (k < m) BY <1>1, <2>1 DEF OpToRel
  <2> QED BY <2>1, <2>2
<1> QED BY <1>2 DEF Min

LEMMA ReducedFacts ==
  ASSUME NEW n \in Nat, NEW d \in Nat \ {0}
  PROVE  /\ Reduced(n, d) \in Nat \X (Nat \ {0})
         /\ Reduced(n, d)[1] * d = n * Reduced(n, d)[2]
         /\ Reduced(n, d)[2] <= d
         /\ \A m \in 1 .. d : (n * m) % d = 0 => Reduced(n, d)[2] <= m
<1> DEFINE K == {m \in 1 .. d : (n * m) % d = 0}
           k == Min(K)
<1>1. (n * d) % d = 0
  <2>1. n * d \in Nat /\ n * d = n * d + 0 OBVIOUS
  <2> QED BY <2>1, DivUnique
<1>2. d \in K BY <1>1
<1>3. k \in K /\ \A m \in K : k <= m
  <2>1. \A m \in K : m \in Nat OBVIOUS
  <2> HIDE DEF K
  <2>2. K \in SUBSET Nat /\ K # {} BY <1>2, <2>1
  <2> QED BY <2>2, Least
<1>4. Reduced(n, d) = <<(n * k) \div d, k>> BY DEF Reduced
<1>5. k \in 1 .. d /\ (n * k) % d = 0 /\ \A m \in 1 .. d : (n * m) % d = 0 => k <= m
  BY <1>3
<1> HIDE DEF k, K
<1>6. n * k \in Nat BY <1>5
<1>7. (n * k) \div d \in Nat /\ ((n * k) \div d) * d = n * k
  <2> DEFINE a == n * k
  <2>1. a \in Nat /\ a % d = 0 BY <1>5, <1>6
  <2> HIDE DEF a
  <2>2. a \div d \in Nat /\ a = ((a \div d) * d) + (a % d) BY <2>1, DivMod
  <2>3. (a \div d) * d = a BY <2>1, <2>2
  <2> QED BY <2>2, <2>3 DEF a
<1> QED BY <1>4, <1>5, <1>7

\* The least denominator is no greater for another form of the same fraction.
LEMMA ReducedHalf ==
  ASSUME NEW n \in Nat, NEW d \in Nat \ {0}, NEW m \in Nat, NEW e \in Nat \ {0}, n * e = m * d
  PROVE  Reduced(m, e)[2] <= Reduced(n, d)[2]
<1> DEFINE a == Reduced(n, d)[1]
           k == Reduced(n, d)[2]
           j == Reduced(m, e)[2]
<1>1. a \in Nat /\ k \in Nat \ {0} /\ a * d = n * k BY ReducedFacts
<1>2. j \in Nat /\ j <= e /\ \A i \in 1 .. e : (m * i) % e = 0 => j <= i BY ReducedFacts
<1> HIDE DEF a, k, j
<1>3. m * k = a * e
  <2>1. (m * k) * d = (m * d) * k BY <1>1
  <2>2. (m * d) * k = (n * k) * e BY <1>1
  <2>3. (n * k) * e = (a * e) * d BY <1>1
  <2>4. (m * k) * d = (a * e) * d BY <2>1, <2>2, <2>3
  <2>5. m * k \in Nat /\ a * e \in Nat BY <1>1
  <2> QED BY <2>4, <2>5, Cancel
<1>4. (m * k) % e = 0
  <2>1. m * k \in Nat /\ m * k = a * e + 0 BY <1>1, <1>3
  <2> QED BY <1>1, <2>1, DivUnique
<1>5. CASE k <= e
  <2>1. k \in 1 .. e BY <1>1, <1>5
  <2> QED BY <1>2, <1>4, <2>1 DEF j, k
<1>6. CASE ~ (k <= e)
  <2>1. j <= k BY <1>1, <1>2, <1>6
  <2> QED BY <2>1 DEF j, k
<1> QED BY <1>5, <1>6

LEMMA ReducedSame ==
  ASSUME NEW n \in Nat, NEW d \in Nat \ {0}, NEW m \in Nat, NEW e \in Nat \ {0}, n * e = m * d
  PROVE  Reduced(n, d) = Reduced(m, e)
<1> DEFINE p == Reduced(n, d)
           q == Reduced(m, e)
<1>1. /\ p \in Nat \X (Nat \ {0}) /\ q \in Nat \X (Nat \ {0})
      /\ p[1] * d = n * p[2] /\ q[1] * e = m * q[2]
  BY ReducedFacts
<1>2. p[2] = q[2]
  <2>1. q[2] <= p[2] BY ReducedHalf
  <2>2. p[2] <= q[2] BY ReducedHalf
  <2> HIDE DEF p, q
  <2> QED BY <1>1, <2>1, <2>2
<1> HIDE DEF p, q
<1>3. p[1] = q[1]
  <2> DEFINE a == p[1]
             b == q[1]
             k == p[2]
  <2>1. a \in Nat /\ b \in Nat /\ k \in Nat /\ a * d = n * k /\ b * e = m * k BY <1>1, <1>2
  <2> HIDE DEF a, b, k
  <2>2. (a * d) * e = (n * k) * e /\ (b * e) * d = (m * k) * d BY <2>1
  <2>3. (n * k) * e = (n * e) * k /\ (m * k) * d = (m * d) * k BY <2>1
  <2>4. (a * d) * e = (b * e) * d BY <2>2, <2>3
  <2>5. (a * d) * e = a * (d * e) /\ (b * e) * d = b * (d * e) BY <2>1
  <2>6. d * e \in Nat \ {0} OBVIOUS
  <2>7. a * (d * e) = b * (d * e) BY <2>4, <2>5
  <2> DEFINE f == d * e
  <2>8. f \in Nat \ {0} /\ a * f = b * f BY <2>6, <2>7
  <2> HIDE DEF f
  <2>9. a = b BY <2>1, <2>8, Cancel
  <2> QED BY <2>9 DEF a, b
<1>4. p = <<p[1], p[2]>> /\ q = <<q[1], q[2]>> BY <1>1
<1>5. p = q BY <1>2, <1>3, <1>4
<1> QED BY <1>5 DEF p, q

\* p is the number n / d.
Stands(p, n, d) == p \in Number /\ n \in Nat /\ d \in Nat \ {0} /\ p[1] * d = n * p[2]

LEMMA ReducedStands ==
  ASSUME NEW n \in Nat, NEW d \in Nat \ {0}
  PROVE  Stands(Reduced(n, d), n, d)
<1> DEFINE p == Reduced(n, d)
<1>1. p \in Nat \X (Nat \ {0}) /\ p[1] * d = n * p[2] BY ReducedFacts
<1>2. p[1] \in Nat /\ p[2] \in Nat \ {0} BY <1>1
<1>3. Reduced(p[1], p[2]) = p
  <2> DEFINE a == p[1]
             b == p[2]
  <2>1. a \in Nat /\ b \in Nat \ {0} /\ a * d = n * b BY <1>1, <1>2
  <2> HIDE DEF a, b
  <2>2. Reduced(a, b) = p BY <2>1, ReducedSame
  <2> QED BY <2>2 DEF a, b
<1> HIDE DEF p
<1>4. Stands(p, n, d) BY <1>1, <1>3 DEF Stands, Number
<1> QED BY <1>4 DEF p

LEMMA NumberIs ==
  ASSUME NEW p \in Number
  PROVE  /\ p[1] \in Nat /\ p[2] \in Nat \ {0} /\ p = <<p[1], p[2]>>
         /\ Stands(p, p[1], p[2])
BY DEF Number, Stands

LEMMA ZeroStands == Zero \in Number /\ Stands(Zero, 0, 1)
<1> DEFINE p == Reduced(0, 1)
<1>1. Stands(p, 0, 1) /\ p[2] <= 1 BY ReducedStands, ReducedFacts
<1>2. p \in Nat \X (Nat \ {0}) /\ p[1] * 1 = 0 * p[2] BY <1>1 DEF Stands, Number
<1> HIDE DEF p
<1>3. p[2] = 1 /\ p[1] = 0 BY <1>1, <1>2
<1>4. p = Zero BY <1>2, <1>3 DEF Zero
<1> QED BY <1>1, <1>4 DEF Stands

LEMMA OneStands == One \in Number /\ Stands(One, 1, 1)
<1> DEFINE p == Reduced(1, 1)
<1>1. Stands(p, 1, 1) /\ p[2] <= 1 BY ReducedStands, ReducedFacts
<1>2. p \in Nat \X (Nat \ {0}) /\ p[1] * 1 = 1 * p[2] BY <1>1 DEF Stands, Number
<1> HIDE DEF p
<1>3. p[2] = 1 /\ p[1] = 1 BY <1>1, <1>2
<1>4. p = One BY <1>2, <1>3 DEF One
<1> QED BY <1>1, <1>4 DEF Stands

LEMMA StandsReduced ==
  ASSUME NEW p, NEW n, NEW d, Stands(p, n, d)
  PROVE  p = Reduced(n, d)
<1> DEFINE a == p[1]
           b == p[2]
<1>1. /\ a \in Nat /\ b \in Nat \ {0} /\ Reduced(a, b) = p
      /\ n \in Nat /\ d \in Nat \ {0} /\ a * d = n * b
  BY DEF Stands, Number
<1> HIDE DEF a, b
<1>2. Reduced(a, b) = Reduced(n, d) BY <1>1, ReducedSame
<1> QED BY <1>1, <1>2

LEMMA StandsAlone ==
  ASSUME NEW p, NEW n, NEW d, Stands(p, n, d), NEW q, NEW m, NEW e, Stands(q, m, e),
         n * e = m * d
  PROVE  p = q
<1>1. n \in Nat /\ d \in Nat \ {0} /\ m \in Nat /\ e \in Nat \ {0} BY DEF Stands
<1>2. Reduced(n, d) = Reduced(m, e) BY <1>1, ReducedSame
<1> QED BY <1>2, StandsReduced

LEMMA Cross ==
  ASSUME NEW a \in Nat, NEW b \in Nat, NEW c \in Nat, NEW d \in Nat,
         NEW f \in Nat, NEW g \in Nat, NEW h \in Nat, NEW i \in Nat, a * b = c * d, f * g = h * i
  PROVE  (a * f) * (b * g) = (c * h) * (d * i)
<1>1. (a * f) * (b * g) = (a * b) * (f * g) OBVIOUS
<1>2. (c * h) * (d * i) = (c * d) * (h * i) OBVIOUS
<1> QED BY <1>1, <1>2

\* One fraction in the form of another.
LEMMA ReducedOther ==
  ASSUME NEW a \in Nat, NEW b \in Nat \ {0}, NEW n \in Nat, NEW d \in Nat \ {0}, a * d = n * b
  PROVE  Stands(Reduced(a, b), n, d)
<1>1. Reduced(a, b) = Reduced(n, d) BY ReducedSame
<1> QED BY <1>1, ReducedStands

LEMMA TimesStands ==
  ASSUME NEW p, NEW n, NEW d, Stands(p, n, d), NEW q, NEW m, NEW e, Stands(q, m, e)
  PROVE  Stands(Times(p, q), n * m, d * e)
<1> DEFINE a == p[1]
           b == p[2]
           f == q[1]
           g == q[2]
<1>1. /\ a \in Nat /\ b \in Nat \ {0} /\ f \in Nat /\ g \in Nat \ {0}
      /\ n \in Nat /\ d \in Nat \ {0} /\ m \in Nat /\ e \in Nat \ {0}
      /\ a * d = n * b /\ f * e = m * g /\ Times(p, q) = Reduced(a * f, b * g)
  BY DEF Stands, Number, Times
<1> HIDE DEF a, b, f, g
<1>2. (a * f) * (d * e) = (n * m) * (b * g) BY <1>1, Cross
<1>3. a * f \in Nat /\ b * g \in Nat \ {0} /\ n * m \in Nat /\ d * e \in Nat \ {0} BY <1>1
<1>4. Stands(Reduced(a * f, b * g), n * m, d * e)
  <2> DEFINE u == a * f
             v == b * g
             w == n * m
             z == d * e
  <2>1. u \in Nat /\ v \in Nat \ {0} /\ w \in Nat /\ z \in Nat \ {0} /\ u * z = w * v
    BY <1>2, <1>3
  <2> HIDE DEF u, v, w, z
  <2>2. Stands(Reduced(u, v), w, z) BY <2>1, ReducedOther
  <2> QED BY <2>2 DEF u, v, w, z
<1> QED BY <1>1, <1>4

LEMMA PlusStands ==
  ASSUME NEW p, NEW n, NEW d, Stands(p, n, d), NEW q, NEW m, NEW e, Stands(q, m, e)
  PROVE  Stands(Plus(p, q), n * e + m * d, d * e)
<1> DEFINE a == p[1]
           b == p[2]
           f == q[1]
           g == q[2]
<1>1. /\ a \in Nat /\ b \in Nat \ {0} /\ f \in Nat /\ g \in Nat \ {0}
      /\ n \in Nat /\ d \in Nat \ {0} /\ m \in Nat /\ e \in Nat \ {0}
      /\ a * d = n * b /\ f * e = m * g /\ Plus(p, q) = Reduced(a * g + f * b, b * g)
  BY DEF Stands, Number, Plus
<1> HIDE DEF a, b, f, g
<1>2. (a * g) * (d * e) = (n * e) * (b * g)
  <2>1. g * e = e * g BY <1>1
  <2> QED BY <1>1, <2>1, Cross
<1>3. (f * b) * (d * e) = (m * d) * (b * g)
  <2>1. b * d = d * b BY <1>1
  <2>2. (f * b) * (e * d) = (m * d) * (g * b) BY <1>1, <2>1, Cross
  <2>3. e * d = d * e /\ g * b = b * g BY <1>1
  <2> QED BY <2>2, <2>3
<1>4. /\ a * g \in Nat /\ f * b \in Nat /\ b * g \in Nat \ {0}
      /\ n * e \in Nat /\ m * d \in Nat /\ d * e \in Nat \ {0}
  BY <1>1
<1>5. Stands(Reduced(a * g + f * b, b * g), n * e + m * d, d * e)
  <2> DEFINE u1 == a * g
             u2 == f * b
             v == b * g
             w1 == n * e
             w2 == m * d
             z == d * e
  <2>1. /\ u1 \in Nat /\ u2 \in Nat /\ v \in Nat \ {0} /\ w1 \in Nat /\ w2 \in Nat
        /\ z \in Nat \ {0} /\ u1 * z = w1 * v /\ u2 * z = w2 * v
    BY <1>2, <1>3, <1>4
  <2> HIDE DEF u1, u2, v, w1, w2, z
  <2>2. (u1 + u2) * z = (w1 + w2) * v
    <3>1. (u1 + u2) * z = u1 * z + u2 * z /\ (w1 + w2) * v = w1 * v + w2 * v BY <2>1
    <3> QED BY <2>1, <3>1
  <2> DEFINE u == u1 + u2
             w == w1 + w2
  <2>3. u \in Nat /\ w \in Nat /\ u * z = w * v BY <2>1, <2>2
  <2> HIDE DEF u, w
  <2>4. Stands(Reduced(u, v), w, z) BY <2>1, <2>3, ReducedOther
  <2> QED BY <2>4 DEF u, w, u1, u2, v, w1, w2, z
<1> QED BY <1>1, <1>5

LEMMA OverStands ==
  ASSUME NEW p, NEW n, NEW d, Stands(p, n, d), NEW q, NEW m, NEW e, Stands(q, m, e), q # Zero
  PROVE  m # 0 /\ Stands(Over(p, q), n * e, d * m)
<1> DEFINE a == p[1]
           b == p[2]
           f == q[1]
           g == q[2]
<1>1. /\ a \in Nat /\ b \in Nat \ {0} /\ f \in Nat /\ g \in Nat \ {0}
      /\ n \in Nat /\ d \in Nat \ {0} /\ m \in Nat /\ e \in Nat \ {0}
      /\ a * d = n * b /\ f * e = m * g /\ Over(p, q) = Reduced(a * g, b * f)
  BY DEF Stands, Number, Over
<1> HIDE DEF a, b, f, g
<1>2. m # 0 
  <2> SUFFICES ASSUME m = 0 PROVE FALSE
    OBVIOUS
  <2>1. Stands(Zero, 0, 1) BY ZeroStands
  <2>2. m * 1 = 0 * e BY <1>1
  <2>3. q = Zero BY <2>1, <2>2, StandsAlone
  <2> QED BY <2>3
<1>3. f # 0 BY <1>1, <1>2
<1>4. (a * g) * (d * m) = (n * e) * (b * f)
  <2>1. g * m = e * f BY <1>1
  <2> QED BY <1>1, <2>1, Cross
<1>5. a * g \in Nat /\ b * f \in Nat \ {0} /\ n * e \in Nat /\ d * m \in Nat \ {0}
  BY <1>1, <1>2, <1>3
<1>6. Stands(Reduced(a * g, b * f), n * e, d * m)
  <2> DEFINE u == a * g
             v == b * f
             w == n * e
             z == d * m
  <2>1. u \in Nat /\ v \in Nat \ {0} /\ w \in Nat /\ z \in Nat \ {0} /\ u * z = w * v
    BY <1>4, <1>5
  <2> HIDE DEF u, v, w, z
  <2>2. Stands(Reduced(u, v), w, z) BY <2>1, ReducedOther
  <2> QED BY <2>2 DEF u, v, w, z
<1> QED BY <1>1, <1>2, <1>6

LEMMA NumberStands ==
  ASSUME NEW p \in Number
  PROVE  \E n \in Nat, d \in Nat \ {0} : Stands(p, n, d)
<1>1. p[1] \in Nat /\ p[2] \in Nat \ {0} /\ Stands(p, p[1], p[2]) BY NumberIs
<1> QED BY <1>1

LEMMA TimesLaws ==
  ASSUME NEW p \in Number, NEW q \in Number
  PROVE  /\ Times(p, q) \in Number
         /\ Times(p, q) = Times(q, p)
         /\ Times(p, One) = p
         /\ Times(p, Zero) = Zero
         /\ Times(p, q) = Zero => p = Zero \/ q = Zero
<1>1. PICK a \in Nat, b \in Nat \ {0} : Stands(p, a, b) BY NumberStands
<1>2. PICK c \in Nat, d \in Nat \ {0} : Stands(q, c, d) BY NumberStands
<1>3. Stands(Times(p, q), a * c, b * d) /\ Stands(Times(q, p), c * a, d * b)
  BY <1>1, <1>2, TimesStands
<1>4. Times(p, q) = Times(q, p)
  <2>1. (a * c) * (d * b) = (c * a) * (b * d) OBVIOUS
  <2> QED BY <1>3, <2>1, StandsAlone
<1>5. Times(p, One) = p
  <2>1. Stands(Times(p, One), a * 1, b * 1) BY <1>1, OneStands, TimesStands
  <2>2. (a * 1) * b = a * (b * 1) OBVIOUS
  <2> QED BY <1>1, <2>1, <2>2, StandsAlone
<1>6. Times(p, Zero) = Zero
  <2>1. Stands(Times(p, Zero), a * 0, b * 1) BY <1>1, ZeroStands, TimesStands
  <2>2. (a * 0) * 1 = 0 * (b * 1) OBVIOUS
  <2> QED BY <2>1, <2>2, ZeroStands, StandsAlone
<1>7. ASSUME Times(p, q) = Zero PROVE p = Zero \/ q = Zero
  <2>0. Stands(Zero, a * c, b * d) BY <1>3, <1>7
  <2>1. 0 * (b * d) = (a * c) * 1
    <3>1. Zero[1] = 0 /\ Zero[2] = 1 BY DEF Zero
    <3> QED BY <2>0, <3>1 DEF Stands
  <2>2. a * c = 0 BY <2>1
  <2>3. a = 0 \/ c = 0 BY <2>2
  <2>4. CASE a = 0
    <3>1. a * 1 = 0 * b BY <2>4
    <3>2. p = Zero BY <1>1, <3>1, ZeroStands, StandsAlone
    <3> QED BY <3>2
  <2>5. CASE c = 0
    <3>1. c * 1 = 0 * d BY <2>5
    <3>2. q = Zero BY <1>2, <3>1, ZeroStands, StandsAlone
    <3> QED BY <3>2
  <2> QED BY <2>3, <2>4, <2>5
<1> QED BY <1>3, <1>4, <1>5, <1>6, <1>7 DEF Stands

LEMMA TimesAssociates ==
  ASSUME NEW p \in Number, NEW q \in Number, NEW r \in Number
  PROVE  Times(p, Times(q, r)) = Times(Times(p, q), r)
<1>1. PICK a \in Nat, b \in Nat \ {0} : Stands(p, a, b) BY NumberStands
<1>2. PICK c \in Nat, d \in Nat \ {0} : Stands(q, c, d) BY NumberStands
<1>3. PICK f \in Nat, g \in Nat \ {0} : Stands(r, f, g) BY NumberStands
<1>4. Stands(Times(p, Times(q, r)), a * (c * f), b * (d * g))
  BY <1>1, <1>2, <1>3, TimesStands
<1>5. Stands(Times(Times(p, q), r), (a * c) * f, (b * d) * g)
  BY <1>1, <1>2, <1>3, TimesStands
<1>6. (a * (c * f)) * ((b * d) * g) = ((a * c) * f) * (b * (d * g))
  <2>1. a * (c * f) = (a * c) * f /\ (b * d) * g = b * (d * g) OBVIOUS
  <2> QED BY <2>1
<1> QED BY <1>4, <1>5, <1>6, StandsAlone

LEMMA PlusLaws ==
  ASSUME NEW p \in Number, NEW q \in Number
  PROVE  /\ Plus(p, q) \in Number
         /\ Plus(p, q) = Plus(q, p)
         /\ Plus(p, Zero) = p
         /\ Plus(p, q) = Zero => p = Zero /\ q = Zero
<1>1. PICK a \in Nat, b \in Nat \ {0} : Stands(p, a, b) BY NumberStands
<1>2. PICK c \in Nat, d \in Nat \ {0} : Stands(q, c, d) BY NumberStands
<1>3. Stands(Plus(p, q), a * d + c * b, b * d) /\ Stands(Plus(q, p), c * b + a * d, d * b)
  BY <1>1, <1>2, PlusStands
<1>4. Plus(p, q) = Plus(q, p)
  <2>1. (a * d + c * b) * (d * b) = (c * b + a * d) * (b * d) OBVIOUS
  <2> QED BY <1>3, <2>1, StandsAlone
<1>5. Plus(p, Zero) = p
  <2>1. Stands(Plus(p, Zero), a * 1 + 0 * b, b * 1) BY <1>1, ZeroStands, PlusStands
  <2>2. (a * 1 + 0 * b) * b = a * (b * 1) OBVIOUS
  <2> QED BY <1>1, <2>1, <2>2, StandsAlone
<1>6. ASSUME Plus(p, q) = Zero PROVE p = Zero /\ q = Zero
  <2>0. Stands(Zero, a * d + c * b, b * d) BY <1>3, <1>6
  <2>1. 0 * (b * d) = (a * d + c * b) * 1
    <3>1. Zero[1] = 0 /\ Zero[2] = 1 BY DEF Zero
    <3> QED BY <2>0, <3>1 DEF Stands
  <2>2. a * d + c * b = 0 /\ a * d \in Nat /\ c * b \in Nat BY <2>1
  <2>3. a * d = 0 /\ c * b = 0 BY <2>2
  <2>4. a = 0 /\ c = 0 BY <2>3
  <2>5. a * 1 = 0 * b /\ c * 1 = 0 * d BY <2>4
  <2>6. p = Zero BY <1>1, <2>5, ZeroStands, StandsAlone
  <2>7. q = Zero BY <1>2, <2>5, ZeroStands, StandsAlone
  <2> QED BY <2>6, <2>7
<1> QED BY <1>3, <1>4, <1>5, <1>6 DEF Stands

LEMMA PlusAssociates ==
  ASSUME NEW p \in Number, NEW q \in Number, NEW r \in Number
  PROVE  Plus(p, Plus(q, r)) = Plus(Plus(p, q), r)
<1>1. PICK a \in Nat, b \in Nat \ {0} : Stands(p, a, b) BY NumberStands
<1>2. PICK c \in Nat, d \in Nat \ {0} : Stands(q, c, d) BY NumberStands
<1>3. PICK f \in Nat, g \in Nat \ {0} : Stands(r, f, g) BY NumberStands
<1>4. Stands(Plus(p, Plus(q, r)), a * (d * g) + (c * g + f * d) * b, b * (d * g))
  BY <1>1, <1>2, <1>3, PlusStands
<1>5. Stands(Plus(Plus(p, q), r), (a * d + c * b) * g + f * (b * d), (b * d) * g)
  BY <1>1, <1>2, <1>3, PlusStands
<1>6. (b * d) * g = b * (d * g) OBVIOUS
<1>7. a * (d * g) + (c * g + f * d) * b = (a * d + c * b) * g + f * (b * d)
  <2>1. a * (d * g) = (a * d) * g OBVIOUS
  <2>2. (c * g + f * d) * b = (c * g) * b + (f * d) * b OBVIOUS
  <2>3. (a * d + c * b) * g = (a * d) * g + (c * b) * g OBVIOUS
  <2>4. (c * g) * b = (c * b) * g /\ (f * d) * b = f * (b * d) OBVIOUS
  <2> QED BY <2>1, <2>2, <2>3, <2>4
<1> QED BY <1>4, <1>5, <1>6, <1>7, StandsAlone

LEMMA Distributes ==
  ASSUME NEW p \in Number, NEW q \in Number, NEW r \in Number
  PROVE  Times(p, Plus(q, r)) = Plus(Times(p, q), Times(p, r))
<1>1. PICK a \in Nat, b \in Nat \ {0} : Stands(p, a, b) BY NumberStands
<1>2. PICK c \in Nat, d \in Nat \ {0} : Stands(q, c, d) BY NumberStands
<1>3. PICK f \in Nat, g \in Nat \ {0} : Stands(r, f, g) BY NumberStands
<1>4. Stands(Times(p, Plus(q, r)), a * (c * g + f * d), b * (d * g))
  BY <1>1, <1>2, <1>3, TimesStands, PlusStands
<1>5. Stands(Plus(Times(p, q), Times(p, r)), (a * c) * (b * g) + (a * f) * (b * d),
             (b * d) * (b * g))
  BY <1>1, <1>2, <1>3, TimesStands, PlusStands
<1>6. (a * (c * g + f * d)) * ((b * d) * (b * g))
        = ((a * c) * (b * g) + (a * f) * (b * d)) * (b * (d * g))
  <2> DEFINE u == a * (c * g)
             w == a * (f * d)
             z == b * (d * g)
  <2>1. a * (c * g + f * d) = u + w OBVIOUS
  <2>2. (a * c) * (b * g) = b * u /\ (a * f) * (b * d) = b * w OBVIOUS
  <2>3. (b * d) * (b * g) = b * z OBVIOUS
  <2>4. u \in Nat /\ w \in Nat /\ z \in Nat OBVIOUS
  <2> HIDE DEF u, w, z
  <2>5. (u + w) * (b * z) = (b * u + b * w) * z
    <3>1. b * u + b * w = b * (u + w) BY <2>4
    <3>2. (u + w) * (b * z) = (b * (u + w)) * z BY <2>4
    <3> QED BY <3>1, <3>2
  <2>6. z = b * (d * g) BY DEF z
  <2> QED BY <2>1, <2>2, <2>3, <2>5, <2>6
<1> QED BY <1>4, <1>5, <1>6, StandsAlone

LEMMA OverLaws ==
  ASSUME NEW p \in Number, NEW q \in Number, q # Zero
  PROVE  Over(p, q) \in Number /\ Times(Over(p, q), q) = p
<1>1. PICK a \in Nat, b \in Nat \ {0} : Stands(p, a, b) BY NumberStands
<1>2. PICK c \in Nat, d \in Nat \ {0} : Stands(q, c, d) BY NumberStands
<1>3. c # 0 /\ Stands(Over(p, q), a * d, b * c) BY <1>1, <1>2, OverStands
<1>4. Stands(Times(Over(p, q), q), (a * d) * c, (b * c) * d) BY <1>2, <1>3, TimesStands
<1>5. ((a * d) * c) * b = a * ((b * c) * d) OBVIOUS
<1>6. Times(Over(p, q), q) = p BY <1>1, <1>4, <1>5, StandsAlone
<1> QED BY <1>3, <1>6 DEF Stands

(***************************************************************************)
(* Sums and products of numbers.                                           *)
(***************************************************************************)
PlusFunction == [p \in Number |-> [q \in Number |-> Plus(p, q)]]
TimesFunction == [p \in Number |-> [q \in Number |-> Times(p, q)]]

LEMMA Adds ==
  /\ Monoid(Number, PlusFunction) /\ Unit(Number, PlusFunction, Zero)
  /\ \A p, q \in Number : Op(PlusFunction, p, q) = Plus(p, q)
<1>1. \A p, q \in Number : Op(PlusFunction, p, q) = Plus(p, q) /\ Plus(p, q) \in Number
  BY PlusLaws DEF Op, PlusFunction
<1>2. ASSUME NEW p \in Number, NEW q \in Number
      PROVE  Op(PlusFunction, p, q) \in Number /\ Op(PlusFunction, p, q) = Op(PlusFunction, q, p)
  <2>1. Plus(p, q) = Plus(q, p) BY PlusLaws
  <2> QED BY <1>1, <2>1
<1>3. ASSUME NEW p \in Number, NEW q \in Number, NEW r \in Number
      PROVE  Op(PlusFunction, p, Op(PlusFunction, q, r)) = Op(PlusFunction, Op(PlusFunction, p, q), r)
  <2>1. Plus(p, Plus(q, r)) = Plus(Plus(p, q), r) BY PlusAssociates
  <2> QED BY <1>1, <2>1
<1>4. Zero \in Number /\ \A p \in Number : Op(PlusFunction, Zero, p) = p
  <2>1. ASSUME NEW p \in Number PROVE Plus(Zero, p) = p
    BY ZeroStands, PlusLaws
  <2> QED BY <1>1, <2>1, ZeroStands
<1>5. Monoid(Number, PlusFunction)
  BY <1>2, <1>3 DEF Monoid
<1> QED BY <1>1, <1>4, <1>5 DEF Unit

LEMMA Multiplies ==
  /\ Monoid(Number, TimesFunction) /\ Unit(Number, TimesFunction, One)
  /\ \A p, q \in Number : Op(TimesFunction, p, q) = Times(p, q)
<1>1. \A p, q \in Number : Op(TimesFunction, p, q) = Times(p, q) /\ Times(p, q) \in Number
  BY TimesLaws DEF Op, TimesFunction
<1>2. ASSUME NEW p \in Number, NEW q \in Number
      PROVE  Op(TimesFunction, p, q) \in Number /\ Op(TimesFunction, p, q) = Op(TimesFunction, q, p)
  <2>1. Times(p, q) = Times(q, p) BY TimesLaws
  <2> QED BY <1>1, <2>1
<1>3. ASSUME NEW p \in Number, NEW q \in Number, NEW r \in Number
      PROVE  Op(TimesFunction, p, Op(TimesFunction, q, r)) = Op(TimesFunction, Op(TimesFunction, p, q), r)
  <2>1. Times(p, Times(q, r)) = Times(Times(p, q), r) BY TimesAssociates
  <2> QED BY <1>1, <2>1
<1>4. One \in Number /\ \A p \in Number : Op(TimesFunction, One, p) = p
  <2>1. ASSUME NEW p \in Number PROVE Times(One, p) = p
    BY OneStands, TimesLaws
  <2> QED BY <1>1, <2>1, OneStands
<1>5. Monoid(Number, TimesFunction)
  BY <1>2, <1>3 DEF Monoid
<1> QED BY <1>1, <1>4, <1>5 DEF Unit

LEMMA SumOfIsFold ==
  ASSUME NEW D, IsFiniteSet(D), NEW f, \A x \in D : f[x] \in Number,
         NEW g, FoldOf(g, D, Number, PlusFunction, Zero, f),
         NEW S \in SUBSET D
  PROVE  SumOf(f, S) = g[S]
<1> DEFINE ch(s) == CHOOSE x \in s : TRUE
           Iter(i) == i = [s \in SUBSET S |-> IF s = {} THEN Zero ELSE Plus(f[ch(s)], i[s \ {ch(s)}])]
           iter == CHOOSE i : Iter(i)
           h == [s \in SUBSET S |-> g[s]]
           Q == {s \in SUBSET S : iter[s] = g[s]}
<1>0. SumOf(f, S) = iter[S]
  BY DEF SumOf, FoldFunctionOnSet, MapThenFoldSet
<1>1. ASSUME NEW s \in SUBSET S, s # {}
      PROVE  ch(s) \in s /\ f[ch(s)] \in Number /\ g[s] = Plus(f[ch(s)], g[s \ {ch(s)}])
  <2>1. ch(s) \in s BY <1>1
  <2> HIDE DEF ch
  <2>2. g[s] = Op(PlusFunction, f[ch(s)], g[s \ {ch(s)}]) BY <2>1 DEF FoldOf
  <2>3. f[ch(s)] \in Number /\ g[s \ {ch(s)}] \in Number BY <2>1 DEF FoldOf
  <2> QED BY <2>1, <2>2, <2>3 DEF PlusFunction, Op
<1>2. Iter(h)
  <2> HIDE DEF ch
  <2>1. ASSUME NEW s \in SUBSET S
        PROVE  h[s] = IF s = {} THEN Zero ELSE Plus(f[ch(s)], h[s \ {ch(s)}])
    BY <1>1 DEF FoldOf
  <2> HIDE DEF h
  <2>2. h = [s \in SUBSET S |-> h[s]] BY DEF h
  <2> QED BY <2>1, <2>2
<1>3. Iter(iter)
  <2> HIDE DEF Iter
  <2> QED BY <1>2
<1>4. ASSUME NEW s \in SUBSET S
      PROVE  iter[s] = IF s = {} THEN Zero ELSE Plus(f[ch(s)], iter[s \ {ch(s)}])
  <2> HIDE DEF iter, ch
  <2> QED BY <1>3
<1>5. ASSUME NEW s \in SUBSET S, \A x \in s : s \ {x} \in Q PROVE s \in Q
  <2> HIDE DEF iter, ch
  <2> QED BY <1>1, <1>4, <1>5 DEF FoldOf
<1>6. \A s \in SUBSET S : s \in Q
  <2>1. IsFiniteSet(S) BY FS_Subset
  <2> HIDE DEF Q
  <2> QED BY <1>5, <2>1, FiniteInduction
<1> QED BY <1>0, <1>6

LEMMA ProductOfIsFold ==
  ASSUME NEW D, IsFiniteSet(D), NEW f, \A x \in D : f[x] \in Number,
         NEW g, FoldOf(g, D, Number, TimesFunction, One, f),
         NEW S \in SUBSET D
  PROVE  ProductOf(f, S) = g[S]
<1> DEFINE ch(s) == CHOOSE x \in s : TRUE
           Iter(i) == i = [s \in SUBSET S |-> IF s = {} THEN One ELSE Times(f[ch(s)], i[s \ {ch(s)}])]
           iter == CHOOSE i : Iter(i)
           h == [s \in SUBSET S |-> g[s]]
           Q == {s \in SUBSET S : iter[s] = g[s]}
<1>0. ProductOf(f, S) = iter[S]
  BY DEF ProductOf, FoldFunctionOnSet, MapThenFoldSet
<1>1. ASSUME NEW s \in SUBSET S, s # {}
      PROVE  ch(s) \in s /\ f[ch(s)] \in Number /\ g[s] = Times(f[ch(s)], g[s \ {ch(s)}])
  <2>1. ch(s) \in s BY <1>1
  <2> HIDE DEF ch
  <2>2. g[s] = Op(TimesFunction, f[ch(s)], g[s \ {ch(s)}]) BY <2>1 DEF FoldOf
  <2>3. f[ch(s)] \in Number /\ g[s \ {ch(s)}] \in Number BY <2>1 DEF FoldOf
  <2> QED BY <2>1, <2>2, <2>3 DEF TimesFunction, Op
<1>2. Iter(h)
  <2> HIDE DEF ch
  <2>1. ASSUME NEW s \in SUBSET S
        PROVE  h[s] = IF s = {} THEN One ELSE Times(f[ch(s)], h[s \ {ch(s)}])
    BY <1>1 DEF FoldOf
  <2> HIDE DEF h
  <2>2. h = [s \in SUBSET S |-> h[s]] BY DEF h
  <2> QED BY <2>1, <2>2
<1>3. Iter(iter)
  <2> HIDE DEF Iter
  <2> QED BY <1>2
<1>4. ASSUME NEW s \in SUBSET S
      PROVE  iter[s] = IF s = {} THEN One ELSE Times(f[ch(s)], iter[s \ {ch(s)}])
  <2> HIDE DEF iter, ch
  <2> QED BY <1>3
<1>5. ASSUME NEW s \in SUBSET S, \A x \in s : s \ {x} \in Q PROVE s \in Q
  <2> HIDE DEF iter, ch
  <2> QED BY <1>1, <1>4, <1>5 DEF FoldOf
<1>6. \A s \in SUBSET S : s \in Q
  <2>1. IsFiniteSet(S) BY FS_Subset
  <2> HIDE DEF Q
  <2> QED BY <1>5, <2>1, FiniteInduction
<1> QED BY <1>0, <1>6

LEMMA SumIsTotal ==
  ASSUME NEW S, IsFiniteSet(S), NEW f, \A x \in S : f[x] \in Number
  PROVE  SumOf(f, S) = Total(Number, PlusFunction, Zero, f, S)
<1>1. Monoid(Number, PlusFunction) /\ Zero \in Number BY Adds, ZeroStands
<1>2. PICK g : FoldOf(g, S, Number, PlusFunction, Zero, f) BY <1>1, FoldExists
<1>3. SumOf(f, S) = g[S] BY <1>2, SumOfIsFold
<1>4. Total(Number, PlusFunction, Zero, f, S) = g[S] BY <1>1, <1>2, TotalIsFold
<1> QED BY <1>3, <1>4

LEMMA ProductIsTotal ==
  ASSUME NEW S, IsFiniteSet(S), NEW f, \A x \in S : f[x] \in Number
  PROVE  ProductOf(f, S) = Total(Number, TimesFunction, One, f, S)
<1>1. Monoid(Number, TimesFunction) /\ One \in Number BY Multiplies, OneStands
<1>2. PICK g : FoldOf(g, S, Number, TimesFunction, One, f) BY <1>1, FoldExists
<1>3. ProductOf(f, S) = g[S] BY <1>2, ProductOfIsFold
<1>4. Total(Number, TimesFunction, One, f, S) = g[S] BY <1>1, <1>2, TotalIsFold
<1> QED BY <1>3, <1>4

LEMMA SumOfLaws ==
  ASSUME NEW S, IsFiniteSet(S), NEW f, \A x \in S : f[x] \in Number
  PROVE  /\ SumOf(f, S) \in Number
         /\ S = {} => SumOf(f, S) = Zero
         /\ \A x \in S : /\ SumOf(f, S \ {x}) \in Number
                         /\ SumOf(f, S) = Plus(f[x], SumOf(f, S \ {x}))
<1>1. Monoid(Number, PlusFunction) /\ Zero \in Number BY Adds, ZeroStands
<1>2. SumOf(f, S) = Total(Number, PlusFunction, Zero, f, S) BY SumIsTotal
<1>3. Total(Number, PlusFunction, Zero, f, S) \in Number
      /\ (S = {} => Total(Number, PlusFunction, Zero, f, S) = Zero)
  BY <1>1, TotalLaws
<1>4. ASSUME NEW x \in S
      PROVE  SumOf(f, S \ {x}) \in Number /\ SumOf(f, S) = Plus(f[x], SumOf(f, S \ {x}))
  <2>1. IsFiniteSet(S \ {x}) BY FS_Subset
  <2>2. SumOf(f, S \ {x}) = Total(Number, PlusFunction, Zero, f, S \ {x}) BY <2>1, SumIsTotal
  <2>3. /\ Total(Number, PlusFunction, Zero, f, S \ {x}) \in Number
        /\ Total(Number, PlusFunction, Zero, f, S)
             = Op(PlusFunction, f[x], Total(Number, PlusFunction, Zero, f, S \ {x}))
    BY <1>1, TotalLaws
  <2> QED BY <1>2, <2>2, <2>3, Adds
<1> QED BY <1>2, <1>3, <1>4

LEMMA ProductOfLaws ==
  ASSUME NEW S, IsFiniteSet(S), NEW f, \A x \in S : f[x] \in Number
  PROVE  /\ ProductOf(f, S) \in Number
         /\ S = {} => ProductOf(f, S) = One
         /\ \A x \in S : /\ ProductOf(f, S \ {x}) \in Number
                         /\ ProductOf(f, S) = Times(f[x], ProductOf(f, S \ {x}))
<1>1. Monoid(Number, TimesFunction) /\ One \in Number BY Multiplies, OneStands
<1>2. ProductOf(f, S) = Total(Number, TimesFunction, One, f, S) BY ProductIsTotal
<1>3. Total(Number, TimesFunction, One, f, S) \in Number
      /\ (S = {} => Total(Number, TimesFunction, One, f, S) = One)
  BY <1>1, TotalLaws
<1>4. ASSUME NEW x \in S
      PROVE  ProductOf(f, S \ {x}) \in Number /\ ProductOf(f, S) = Times(f[x], ProductOf(f, S \ {x}))
  <2>1. IsFiniteSet(S \ {x}) BY FS_Subset
  <2>2. ProductOf(f, S \ {x}) = Total(Number, TimesFunction, One, f, S \ {x}) BY <2>1, ProductIsTotal
  <2>3. /\ Total(Number, TimesFunction, One, f, S \ {x}) \in Number
        /\ Total(Number, TimesFunction, One, f, S)
             = Op(TimesFunction, f[x], Total(Number, TimesFunction, One, f, S \ {x}))
    BY <1>1, TotalLaws
  <2> QED BY <1>2, <2>2, <2>3, Multiplies
<1> QED BY <1>2, <1>3, <1>4

(***************************************************************************)
(* The shape of potentials, separators and index tables.                   *)
(***************************************************************************)
LEMMA EnumerateDomain ==
  ASSUME NEW S \in SUBSET Variables
  PROVE  /\ IsFiniteSet(DOMAIN EnumerateValues(S))
         /\ DOMAIN EnumerateValues(S) \subseteq 0 .. GetCardinality(S) - 1
         /\ S = {} => DOMAIN EnumerateValues(S) = {}
<1>1. CASE S = {}
  <2>1. EnumerateValues(S) = <<>> BY <1>1 DEF EnumerateValues
  <2>2. DOMAIN EnumerateValues(S) = {} BY <2>1
  <2> QED BY <2>2, FS_EmptySet
<1>2. CASE S # {}
  <2>1. DOMAIN EnumerateValues(S) = 0 .. GetCardinality(S) - 1 BY <1>2, EnumerateLaws
  <2>2. GetCardinality(S) \in Nat BY CardinalityLaws
  <2>3. IsFiniteSet(0 .. GetCardinality(S) - 1) BY <2>2, FS_Interval
  <2> QED BY <1>2, <2>1, <2>3
<1> QED BY <1>1, <1>2

LEMMA IndexColumns ==
  ASSUME NEW T \in SUBSET Variables, NEW S \in SUBSET T, NEW i \in DOMAIN AgreeingIndices(S, T)
  PROVE  DOMAIN AgreeingIndices(S, T)[i] = DOMAIN EnumerateValues(T \ S)
<1>0. SymDiff(S, T) = T \ S BY DEF SymDiff
<1>1. DOMAIN AgreeingIndices(S, T) = DOMAIN EnumerateValues(S) BY DEF AgreeingIndices
<1> QED BY <1>0, <1>1 DEF AgreeingIndices

LEMMA IndexShape ==
  ASSUME NEW T \in SUBSET Variables, NEW S \in SUBSET T
  PROVE  /\ DOMAIN AgreeingIndices(S, T) = DOMAIN EnumerateValues(S)
         /\ \A i \in DOMAIN AgreeingIndices(S, T) :
              /\ DOMAIN AgreeingIndices(S, T)[i] = DOMAIN EnumerateValues(T \ S)
              /\ \A j \in DOMAIN AgreeingIndices(S, T)[i] :
                   AgreeingIndices(S, T)[i][j] \in 0 .. GetCardinality(T) - 1
<1>0. S \in SUBSET Variables /\ T \ S \in SUBSET Variables /\ SymDiff(S, T) = T \ S BY DEF SymDiff
<1>1. DOMAIN AgreeingIndices(S, T) = DOMAIN EnumerateValues(S) BY DEF AgreeingIndices
<1>2. ASSUME NEW i \in DOMAIN AgreeingIndices(S, T)
      PROVE  DOMAIN AgreeingIndices(S, T)[i] = DOMAIN EnumerateValues(T \ S)
  BY IndexColumns
<1>3. ASSUME NEW i \in DOMAIN AgreeingIndices(S, T), NEW j \in DOMAIN AgreeingIndices(S, T)[i]
      PROVE  AgreeingIndices(S, T)[i][j] \in 0 .. GetCardinality(T) - 1
  <2>1. i \in DOMAIN EnumerateValues(S) /\ j \in DOMAIN EnumerateValues(T \ S) BY <1>1, <1>2
  <2>2. S # {} /\ T \ S # {}
    <3>1. S = {} => DOMAIN EnumerateValues(S) = {} BY <1>0, EnumerateDomain
    <3>2. T \ S = {} => DOMAIN EnumerateValues(T \ S) = {} BY <1>0, EnumerateDomain
    <3> QED BY <2>1, <3>1, <3>2
  <2>3. i \in 0 .. GetCardinality(S) - 1 BY <1>0, <2>1, EnumerateDomain
  <2>4. j \in 0 .. GetCardinality(T \ S) - 1 BY <1>0, <2>1, EnumerateDomain
  <2>5. S # T BY <2>2
  <2> QED BY <2>2, <2>3, <2>4, <2>5, AgreeingRange
<1> QED BY <1>1, <1>2, <1>3

Shaped(p, S) == p = [vbls |-> S, data |-> p.data]

LEMMA ProductShaped ==
  ASSUME NEW S, NEW p, NEW q, Shaped(q, S), NEW mi
  PROVE  /\ Shaped(ProductTabular(p, q, mi), S)
         /\ DOMAIN ProductTabular(p, q, mi).data = DOMAIN q.data
<1> DEFINE new == IF mi = NULL THEN Entrywise(p, q) ELSE ByIndex(p, q, mi.indices)
<1>1. ProductTabular(p, q, mi) = [vbls |-> S, data |-> new]
  BY DEF ProductTabular, Shaped
<1>2. DOMAIN new = DOMAIN q.data BY DEF Entrywise, ByIndex
<1> HIDE DEF new
<1> QED BY <1>1, <1>2 DEF Shaped

LEMMA EdgeScope ==
  ASSUME IsTree(Clique, tree), NEW e \in tree
  PROVE  /\ Sepset(e) \in SUBSET Variables
         /\ \A c \in e : c \in Clique /\ c \in SUBSET Variables /\ Sepset(e) \in SUBSET c
<1>1. e \in Edges(Clique) BY DEF IsTree
<1>2. e \subseteq Clique BY <1>1 DEF Edges
<1> QED BY <1>2, ScopeAssumption DEF Sepset

MemoOK(memo, e) ==
  /\ DOMAIN memo \subseteq e
  /\ \A c \in DOMAIN memo : memo[c] = ComputeMulInd(Sepset(e), c)

LEMMA MemoizedOK ==
  ASSUME NEW e, NEW memo, MemoOK(memo, e), NEW target \in e
  PROVE  /\ MemoOK(Memoized(memo, Sepset(e), target), e)
         /\ target \in DOMAIN Memoized(memo, Sepset(e), target)
         /\ DOMAIN memo \subseteq DOMAIN Memoized(memo, Sepset(e), target)
BY DEF MemoOK, Memoized

TableInv ==
  /\ PotsInv
  /\ tables \in Networks /\ next \in 1 .. Len(tables) + 1
  /\ DOMAIN pot = Clique
  /\ \A c \in Clique : Shaped(pot[c], c) /\ DOMAIN pot[c].data = 0 .. GetCardinality(c) - 1
  /\ DOMAIN sepPot = tree /\ \A e \in tree : Shaped(sepPot[e], Sepset(e))
  /\ DOMAIN mulMemo = tree /\ \A e \in tree : MemoOK(mulMemo[e], e)

LEMMA InitTableInv == InitTables => TableInv
<1> SUFFICES ASSUME InitTables PROVE TableInv
  OBVIOUS
<1>1. PotsInv BY InitPots DEF InitTables
<1>2. tables \in Networks /\ next \in 1 .. Len(tables) + 1
  BY NetworksAssumption DEF InitTables
<1>3. /\ DOMAIN pot = Clique
      /\ \A c \in Clique : Shaped(pot[c], c) /\ DOMAIN pot[c].data = 0 .. GetCardinality(c) - 1
  BY DEF InitTables, TabularUnity, Shaped
<1>4. DOMAIN sepPot = tree /\ \A e \in tree : Shaped(sepPot[e], Sepset(e))
  BY DEF InitTables, TabularUnity, Shaped
<1>5. DOMAIN mulMemo = tree /\ \A e \in tree : MemoOK(mulMemo[e], e)
  BY DEF InitTables, MemoOK
<1> QED BY <1>1, <1>2, <1>3, <1>4, <1>5 DEF TableInv

LEMMA MultiplyTableInv == TableInv /\ MultiplyTable => TableInv'
<1> SUFFICES ASSUME TableInv, MultiplyTable PROVE TableInv'
  OBVIOUS
<1> USE DEF MultiplyTable
<1>1. PotsInv' 
  <2>1. UNCHANGED potVars OBVIOUS
  <2> QED BY <2>1, PotsKeep DEF TableInv
<1>2. tables' \in Networks /\ next' \in 1 .. Len(tables') + 1
  <2>1. Len(tables) \in Nat /\ tables \in Networks BY NetworksAssumption DEF TableInv
  <2>2. next \in 1 .. Len(tables) + 1 /\ next <= Len(tables) BY DEF TableInv
  <2>3. next + 1 \in 1 .. Len(tables) + 1 BY <2>1, <2>2
  <2> QED BY <2>1, <2>3
<1>3. /\ DOMAIN pot' = Clique
      /\ \A c \in Clique : Shaped(pot'[c], c) /\ DOMAIN pot'[c].data = 0 .. GetCardinality(c) - 1
  <2> DEFINE t == tables[next]
             d == cliquePots[Min(Containing(t.vbls))]
             new == ProductTabular(t, pot[d], ComputeMargInd(d, t.vbls))
  <2>1. pot' = pot \/ pot' = [pot EXCEPT ![d] = new] OBVIOUS
  <2>2. ASSUME d \in Clique
        PROVE  Shaped(new, d) /\ DOMAIN new.data = 0 .. GetCardinality(d) - 1
    <3>1. Shaped(pot[d], d) /\ DOMAIN pot[d].data = 0 .. GetCardinality(d) - 1
      BY <2>2 DEF TableInv
    <3> DEFINE q == pot[d]
               mi == ComputeMargInd(d, t.vbls)
    <3> HIDE DEF q, mi, d, t
    <3>2. Shaped(q, d) /\ DOMAIN q.data = 0 .. GetCardinality(d) - 1 BY <3>1 DEF q
    <3>3. LET n == ProductTabular(t, q, mi)
          IN Shaped(n, d) /\ DOMAIN n.data = 0 .. GetCardinality(d) - 1
      BY <3>2, ProductShaped
    <3> QED BY <3>3 DEF q, mi
  <2> HIDE DEF new, d
  <2> QED BY <2>1, <2>2 DEF TableInv
<1>4. /\ DOMAIN sepPot' = tree' /\ \A e \in tree' : Shaped(sepPot'[e], Sepset(e))
      /\ DOMAIN mulMemo' = tree' /\ \A e \in tree' : MemoOK(mulMemo'[e], e)
  BY DEF TableInv, potVars
<1> QED BY <1>1, <1>2, <1>3, <1>4 DEF TableInv, Sepset, MemoOK

LEMMA SendTableInv ==
  ASSUME TableInv, NEW r \in Clique, NEW c \in Clique, Send(r, c)
  PROVE  TableInv'
<1> DEFINE e == {r, c}
           memo == Memoized(Memoized(mulMemo[e], sepPot[e].vbls, c), sepPot[e].vbls, r)
           marg == SumMarginTabular(pot[c], memo[c])
           new == ProductTabular(UpdateRatioTabular(marg, sepPot[e]), pot[r], memo[r])
<1>1. PotsInv' /\ tree' = tree /\ e \in tree
  <2>1. MessagePass(r, c) BY DEF Send
  <2>2. PassAny BY <2>1 DEF PassAny
  <2> QED BY <2>1, <2>2, PotsKeep DEF TableInv, MessagePass
<1>2. tables' \in Networks /\ next' \in 1 .. Len(tables') + 1
  BY DEF TableInv, Send
<1>3. /\ pot' = [pot EXCEPT ![r] = new] /\ sepPot' = [sepPot EXCEPT ![e] = marg]
      /\ mulMemo' = [mulMemo EXCEPT ![e] = memo]
  BY DEF Send
<1>4. Shaped(pot[r], r) /\ DOMAIN pot[r].data = 0 .. GetCardinality(r) - 1 BY DEF TableInv
<1>5. Shaped(new, r) /\ DOMAIN new.data = 0 .. GetCardinality(r) - 1
  <2> DEFINE p == UpdateRatioTabular(marg, sepPot[e])
             q == pot[r]
             mi == memo[r]
  <2>1. Shaped(q, r) /\ DOMAIN q.data = 0 .. GetCardinality(r) - 1 BY <1>4
  <2> HIDE DEF p, q, mi
  <2>2. LET n == ProductTabular(p, q, mi)
        IN Shaped(n, r) /\ DOMAIN n.data = 0 .. GetCardinality(r) - 1
    BY <2>1, ProductShaped
  <2> QED BY <2>2 DEF p, q, mi
<1>6. sepPot[e].vbls = Sepset(e)
  <2>1. Shaped(sepPot[e], Sepset(e)) BY <1>1 DEF TableInv
  <2> QED BY <2>1 DEF Shaped
<1>7. MemoOK(memo, e) /\ c \in DOMAIN memo /\ r \in DOMAIN memo
  <2>1. MemoOK(mulMemo[e], e) BY <1>1 DEF TableInv
  <2>2. r \in e /\ c \in e OBVIOUS
  <2> HIDE DEF e
  <2> DEFINE m == Memoized(mulMemo[e], Sepset(e), c)
  <2>3. MemoOK(m, e) /\ c \in DOMAIN m BY <2>1, <2>2, MemoizedOK
  <2> HIDE DEF m
  <2>4. LET k == Memoized(m, Sepset(e), r)
        IN MemoOK(k, e) /\ r \in DOMAIN k /\ c \in DOMAIN k
    BY <2>2, <2>3, MemoizedOK
  <2> QED BY <1>6, <2>4 DEF m
<1>8. Shaped(marg, Sepset(e))
  <2> HIDE DEF memo
  <2>1. memo[c].vbls = Sepset(e) BY <1>7 DEF MemoOK, ComputeMulInd
  <2> QED BY <2>1 DEF Shaped, SumMarginTabular
<1> HIDE DEF new, marg, memo, e
<1>9. /\ DOMAIN pot' = Clique
      /\ \A d \in Clique : Shaped(pot'[d], d) /\ DOMAIN pot'[d].data = 0 .. GetCardinality(d) - 1
  BY <1>3, <1>5 DEF TableInv
<1>10. DOMAIN sepPot' = tree' /\ \A f \in tree' : Shaped(sepPot'[f], Sepset(f))
  BY <1>1, <1>3, <1>8 DEF TableInv
<1>11. DOMAIN mulMemo' = tree' /\ \A f \in tree' : MemoOK(mulMemo'[f], f)
  BY <1>1, <1>3, <1>7 DEF TableInv
<1> QED BY <1>1, <1>2, <1>9, <1>10, <1>11 DEF TableInv, Sepset, MemoOK

LEMMA TableInvKept == TableInv /\ [NextTables]_tableVars => TableInv'
<1>1. ASSUME TableInv, NextTables PROVE TableInv'
  BY <1>1, MultiplyTableInv, SendTableInv DEF NextTables
<1>2. ASSUME TableInv, UNCHANGED tableVars PROVE TableInv'
  <2>1. UNCHANGED potVars BY <1>2 DEF tableVars
  <2>2. PotsInv' BY <1>2, <2>1, PotsKeep DEF TableInv
  <2> QED BY <1>2, <2>1, <2>2 DEF tableVars, potVars, TableInv, Sepset, MemoOK
<1> QED BY <1>1, <1>2

LEMMA TableInvariance == SpecTables => []TableInv
BY InitTableInv, TableInvKept, PTL DEF SpecTables

\* The memo's entries are always those of the separator as it is.
THEOREM MemoStaysCurrent == SpecTables => []MemoCurrent
<1>1. TableInv => MemoCurrent
  <2> SUFFICES ASSUME TableInv, NEW e \in tree, NEW c \in DOMAIN mulMemo[e]
               PROVE  mulMemo[e][c] = ComputeMulInd(sepPot[e].vbls, c)
    BY DEF MemoCurrent
  <2>1. Shaped(sepPot[e], Sepset(e)) /\ MemoOK(mulMemo[e], e) BY DEF TableInv
  <2>2. sepPot[e].vbls = Sepset(e) BY <2>1 DEF Shaped
  <2> QED BY <2>1, <2>2 DEF MemoOK
<1> QED BY <1>1, TableInvariance, PTL

LEMMA TreeOfTables == TableInv => IsTree(Clique, tree)
BY TreeIsTree DEF TableInv, PotsInv, PotsTypeOK

\* Tables and index tables have the sizes they should have.
THEOREM TablesTypeCorrect == SpecTables => []TablesTypeOK
<1>1. TableInv => TablesTypeOK
  <2> SUFFICES ASSUME TableInv PROVE TablesTypeOK
    OBVIOUS
  <2>1. PotsTypeOK /\ next \in 1 .. Len(tables) + 1 BY DEF TableInv, PotsInv
  <2>2. \A c \in Clique : pot[c].vbls = c /\ DOMAIN pot[c].data = 0 .. GetCardinality(c) - 1
    <3> SUFFICES ASSUME NEW c \in Clique
                 PROVE  pot[c].vbls = c /\ DOMAIN pot[c].data = 0 .. GetCardinality(c) - 1
      OBVIOUS
    <3>1. Shaped(pot[c], c) /\ DOMAIN pot[c].data = 0 .. GetCardinality(c) - 1 BY DEF TableInv
    <3>2. pot[c].vbls = c BY <3>1 DEF Shaped
    <3> QED BY <3>1, <3>2
  <2>3. ASSUME NEW e \in tree, NEW c \in DOMAIN mulMemo[e]
        PROVE  /\ c \in e
               /\ DOMAIN mulMemo[e][c].indices = DOMAIN EnumerateValues(Sepset(e))
               /\ \A i \in DOMAIN mulMemo[e][c].indices :
                    Range(mulMemo[e][c].indices[i]) \subseteq 0 .. GetCardinality(c) - 1
    <3>1. MemoOK(mulMemo[e], e) BY DEF TableInv
    <3>2. c \in e /\ mulMemo[e][c] = ComputeMulInd(Sepset(e), c) BY <3>1 DEF MemoOK
    <3>3. mulMemo[e][c].indices = AgreeingIndices(Sepset(e), c) BY <3>2 DEF ComputeMulInd
    <3>4. c \in SUBSET Variables /\ Sepset(e) \in SUBSET c BY <3>2, TreeOfTables, EdgeScope
    <3>5. /\ DOMAIN AgreeingIndices(Sepset(e), c) = DOMAIN EnumerateValues(Sepset(e))
          /\ \A i \in DOMAIN AgreeingIndices(Sepset(e), c) :
               \A j \in DOMAIN AgreeingIndices(Sepset(e), c)[i] :
                 AgreeingIndices(Sepset(e), c)[i][j] \in 0 .. GetCardinality(c) - 1
      BY <3>4, IndexShape
    <3>6. ASSUME NEW i \in DOMAIN AgreeingIndices(Sepset(e), c)
          PROVE  Range(AgreeingIndices(Sepset(e), c)[i]) \subseteq 0 .. GetCardinality(c) - 1
      BY <3>5 DEF Range
    <3> QED BY <3>2, <3>3, <3>5, <3>6
  <2> QED BY <2>1, <2>2, <2>3 DEF TablesTypeOK
<1> QED BY <1>1, TableInvariance, PTL

(***************************************************************************)
(* What products, ratios and margins do to an entry.                       *)
(***************************************************************************)
Into(ind, k) ==
  {ij \in UNION {{i} \X DOMAIN ind[i] : i \in DOMAIN ind} : ind[ij[1]][ij[2]] = k}

LEMMA IntoPairs ==
  ASSUME NEW ind, NEW k
  PROVE  /\ \A ij \in Into(ind, k) : /\ ij = <<ij[1], ij[2]>> /\ ij[1] \in DOMAIN ind
                                     /\ ij[2] \in DOMAIN ind[ij[1]] /\ ind[ij[1]][ij[2]] = k
         /\ \A i \in DOMAIN ind : \A j \in DOMAIN ind[i] : ind[i][j] = k => <<i, j>> \in Into(ind, k)
BY DEF Into

LEMMA IntoNone ==
  ASSUME NEW T \in SUBSET Variables, NEW S \in SUBSET T, S = {} \/ S = T, NEW k
  PROVE  Into(AgreeingIndices(S, T), k) = {}
<1> SUFFICES ASSUME NEW ij \in Into(AgreeingIndices(S, T), k) PROVE FALSE
  OBVIOUS
<1>1. /\ ij[1] \in DOMAIN AgreeingIndices(S, T)
      /\ ij[2] \in DOMAIN AgreeingIndices(S, T)[ij[1]]
  BY IntoPairs
<1>2. ij[1] \in DOMAIN EnumerateValues(S) /\ ij[2] \in DOMAIN EnumerateValues(T \ S)
  <2>0. /\ DOMAIN AgreeingIndices(S, T) = DOMAIN EnumerateValues(S)
        /\ \A i \in DOMAIN AgreeingIndices(S, T) :
             DOMAIN AgreeingIndices(S, T)[i] = DOMAIN EnumerateValues(T \ S)
    BY IndexShape
  <2> DEFINE a == ij[1]
             b == ij[2]
  <2>1. a \in DOMAIN AgreeingIndices(S, T) /\ b \in DOMAIN AgreeingIndices(S, T)[a] BY <1>1
  <2> HIDE DEF a, b
  <2>2. a \in DOMAIN EnumerateValues(S)
    BY <2>0, <2>1
  <2>3. DOMAIN AgreeingIndices(S, T)[a] = DOMAIN EnumerateValues(T \ S)
    BY <2>0, <2>1
  <2> QED BY <2>1, <2>2, <2>3 DEF a, b
<1>3. S \in SUBSET Variables /\ T \ S \in SUBSET Variables /\ (S = {} \/ T \ S = {})
  OBVIOUS
<1> QED BY <1>2, <1>3, EnumerateDomain

LEMMA IntoOne ==
  ASSUME NEW T \in SUBSET Variables, NEW S \in SUBSET T, S # {}, S # T, NEW x, Valued(T, x)
  PROVE  Into(AgreeingIndices(S, T), Place(T, x)) = {<<Place(S, x), Place(T \ S, x)>>}
<1> DEFINE R == T \ S
           ind == AgreeingIndices(S, T)
           i == Place(S, x)
           j == Place(R, x)
           k == Place(T, x)
<1>0. S \in SUBSET Variables /\ R \in SUBSET Variables /\ Valued(S, x) /\ Valued(R, x)
  BY DEF Valued
<1>1. i \in 0 .. GetCardinality(S) - 1 BY <1>0, PlaceBound
<1>2. j \in 0 .. GetCardinality(R) - 1
  <2> HIDE DEF R
  <2> QED BY <1>0, PlaceBound
<1>3. /\ DOMAIN ind = 0 .. GetCardinality(S) - 1
      /\ \A a \in DOMAIN ind : DOMAIN ind[a] = 0 .. GetCardinality(R) - 1
      /\ ind[i][j] = k
  BY AgreeingLaws
<1>4. <<i, j>> \in Into(ind, k)
  <2> HIDE DEF i, j, k, ind, R
  <2>1. i \in DOMAIN ind /\ j \in DOMAIN ind[i] /\ ind[i][j] = k BY <1>1, <1>2, <1>3
  <2> QED BY <2>1, IntoPairs
<1>5. ASSUME NEW ij \in Into(ind, k) PROVE ij = <<i, j>>
  <2>1. ij = <<ij[1], ij[2]>> /\ ij[1] \in DOMAIN ind /\ ij[2] \in DOMAIN ind[ij[1]]
        /\ ind[ij[1]][ij[2]] = k
    <3> HIDE DEF ind, k
    <3> QED BY IntoPairs
  <2> DEFINE a == ij[1]
             b == ij[2]
  <2>2. a \in 0 .. GetCardinality(S) - 1 /\ b \in 0 .. GetCardinality(T \ S) - 1
    BY <1>3, <2>1
  <2>3. AgreeingIndices(S, T)[a][b] = Place(T, x) BY <2>1
  <2> HIDE DEF a, b, i, j, k, R, ind
  <2>4. Place(S, x) = a /\ Place(T \ S, x) = b BY <2>2, <2>3, AgreeingOnce
  <2> QED BY <2>1, <2>3, <2>4 DEF a, b, i, j, R
<1>6. Into(ind, k) = {<<i, j>>}
  <2> HIDE DEF i, j, k, ind
  <2> QED BY <1>4, <1>5
<1> QED BY <1>6

LEMMA ProductOfNone == ASSUME NEW f PROVE ProductOf(f, {}) = One
<1>1. IsFiniteSet({}) BY FS_EmptySet
<1>2. \A x \in {} : f[x] \in Number OBVIOUS
<1> QED BY <1>1, <1>2, ProductOfLaws

LEMMA ProductOfOne ==
  ASSUME NEW x, NEW f, f[x] \in Number
  PROVE  ProductOf(f, {x}) = f[x]
<1>1. IsFiniteSet({x}) BY FS_Singleton
<1>2. {x} \ {x} = {} OBVIOUS
<1>3. ProductOf(f, {x}) = Times(f[x], ProductOf(f, {x} \ {x})) BY <1>1, ProductOfLaws
<1>4. ProductOf(f, {x}) = Times(f[x], One) BY <1>2, <1>3, ProductOfNone
<1> QED BY <1>4, TimesLaws, OneStands

LEMMA ByIndexAt ==
  ASSUME NEW T \in SUBSET Variables, NEW S \in SUBSET T, NEW x, Valued(T, x),
         NEW p, NEW q, Place(T, x) \in DOMAIN q.data, q.data[Place(T, x)] \in Number,
         S # {} /\ S # T => Entry(p, Place(S, x)) \in Number
  PROVE  ByIndex(p, q, AgreeingIndices(S, T))[Place(T, x)]
           = IF S = {} \/ S = T THEN q.data[Place(T, x)]
             ELSE Times(Entry(p, Place(S, x)), q.data[Place(T, x)])
<1> DEFINE ind == AgreeingIndices(S, T)
           k == Place(T, x)
           into == Into(ind, k)
           f == [ij \in into |-> Entry(p, ij[1])]
<1>1. ByIndex(p, q, ind)[k] = Times(ProductOf(f, into), q.data[k])
  <2> HIDE DEF ind, k
  <2>1. k \in DOMAIN q.data BY DEF k
  <2> QED BY <2>1 DEF ByIndex, Into
<1>2. CASE S = {} \/ S = T
  <2>1. into = {} BY <1>2, IntoNone
  <2>2. ProductOf(f, into) = One BY <2>1, ProductOfNone
  <2>3. Times(One, q.data[k]) = q.data[k] BY TimesLaws, OneStands
  <2> QED BY <1>1, <1>2, <2>2, <2>3
<1>3. CASE S # {} /\ S # T
  <2> DEFINE ij == <<Place(S, x), Place(T \ S, x)>>
  <2>1. into = {ij} BY <1>3, IntoOne
  <2>2. f[ij] = Entry(p, Place(S, x)) BY <2>1
  <2>3. f[ij] \in Number BY <1>3, <2>2
  <2> HIDE DEF f, ij, into
  <2>4. ProductOf(f, into) = f[ij] BY <2>1, <2>3, ProductOfOne
  <2> QED BY <1>1, <1>3, <2>2, <2>4
<1> QED BY <1>2, <1>3

\* A table of numbers over S.
Full(p, S) ==
  /\ Shaped(p, S) /\ DOMAIN p.data = 0 .. GetCardinality(S) - 1
  /\ \A k \in DOMAIN p.data : p.data[k] \in Number

LEMMA FullAt ==
  ASSUME NEW S \in SUBSET Variables, NEW p, Full(p, S), NEW x, Valued(S, x)
  PROVE  /\ Place(S, x) \in DOMAIN p.data
         /\ At(p, x) = p.data[Place(S, x)] /\ At(p, x) \in Number
         /\ Entry(p, Place(S, x)) = At(p, x)
<1>1. Place(S, x) \in DOMAIN p.data BY PlaceBound DEF Full
<1>2. p.vbls = S BY DEF Full, Shaped
<1> QED BY <1>1, <1>2 DEF At, Entry, Full

\* What is so of every list of values is so of every entry.
LEMMA FullByPlaces ==
  ASSUME NEW S \in SUBSET Variables, NEW p, Shaped(p, S),
         DOMAIN p.data = 0 .. GetCardinality(S) - 1,
         \A x : Valued(S, x) => p.data[Place(S, x)] \in Number
  PROVE  Full(p, S)
<1>1. ASSUME NEW k \in DOMAIN p.data PROVE p.data[k] \in Number
  <2>1. PICK x : Valued(S, x) /\ Place(S, x) = k BY PlaceOnto
  <2> QED BY <2>1
<1> QED BY <1>1 DEF Full

LEMMA ProductData ==
  ASSUME NEW S, NEW p, NEW q, Shaped(q, S), NEW mi
  PROVE  ProductTabular(p, q, mi).data
           = IF mi = NULL THEN Entrywise(p, q) ELSE ByIndex(p, q, mi.indices)
BY DEF ProductTabular, Shaped

\* InitializePotentials multiplies in a table over some of the clique's
\* variables.
LEMMA MultiplyAt ==
  ASSUME NEW T \in SUBSET Variables, NEW S \in SUBSET T, S # {},
         NEW p, Full(p, S), NEW q, Full(q, T), NEW x, Valued(T, x)
  PROVE  At(ProductTabular(p, q, ComputeMargInd(T, S)), x) = Times(At(p, x), At(q, x))
<1> DEFINE mi == ComputeMargInd(T, S)
           new == ProductTabular(p, q, mi)
           k == Place(T, x)
<1>0. S \in SUBSET Variables /\ T \ S \in SUBSET Variables /\ Valued(S, x) BY DEF Valued
<1>1. /\ k \in DOMAIN q.data /\ At(q, x) = q.data[k] /\ At(q, x) \in Number
      /\ Shaped(q, T)
  BY FullAt DEF Full
<1>2. Entry(p, Place(S, x)) = At(p, x) /\ At(p, x) \in Number BY <1>0, FullAt
<1>3. Shaped(new, T)
  <2> HIDE DEF mi
  <2> QED BY <1>1, ProductShaped
<1>4. At(new, x) = new.data[k] BY <1>3 DEF At, Shaped
<1>5. new.data = IF mi = NULL THEN Entrywise(p, q) ELSE ByIndex(p, q, mi.indices)
  <2> HIDE DEF mi
  <2> QED BY <1>1, ProductData
<1>6. SymDiff(T, S) = T \ S /\ SymDiff(S, T) = T \ S BY DEF SymDiff
<1>7. CASE S = T
  <2>1. EnumerateValues(T \ S) = <<>> BY <1>7 DEF EnumerateValues
  <2>2. mi = NULL BY <1>6, <2>1 DEF ComputeMargInd
  <2>3. new.data[k] = Times(Entry(p, k), q.data[k])
    <3> HIDE DEF mi, new, k
    <3> QED BY <1>1, <1>5, <2>2 DEF Entrywise
  <2> QED BY <1>1, <1>2, <1>4, <1>7, <2>3
<1>8. CASE S # T
  <2>1. EnumerateValues(T \ S) # <<>>
    <3>1. T \ S # {} BY <1>8
    <3> QED BY <1>0, <3>1, EnumerateLaws
  <2>2. mi = [vbls |-> T \ S, indices |-> AgreeingIndices(S, T)]
    BY <1>6, <2>1 DEF ComputeMargInd
  <2>3. mi # NULL /\ mi.indices = AgreeingIndices(S, T) BY <2>2, NullAssumption
  <2>4. new.data[k] = ByIndex(p, q, AgreeingIndices(S, T))[k]
    <3> HIDE DEF mi, new, k
    <3> QED BY <1>5, <2>3
  <2>5. ByIndex(p, q, AgreeingIndices(S, T))[k] = Times(Entry(p, Place(S, x)), q.data[k])
    BY <1>1, <1>2, <1>8, ByIndexAt
  <2> QED BY <1>1, <1>2, <1>4, <2>4, <2>5
<1> QED BY <1>7, <1>8

\* A message multiplies the ratio in.
LEMMA PassAt ==
  ASSUME NEW T \in SUBSET Variables, NEW S \in SUBSET T,
         NEW p, S # {} => Full(p, S), NEW q, Full(q, T), NEW x, Valued(T, x)
  PROVE  At(ProductTabular(p, q, ComputeMulInd(S, T)), x)
           = IF S = {} \/ S = T THEN At(q, x) ELSE Times(At(p, x), At(q, x))
<1> DEFINE mi == ComputeMulInd(S, T)
           new == ProductTabular(p, q, mi)
           k == Place(T, x)
<1>0. S \in SUBSET Variables /\ Valued(S, x) BY DEF Valued
<1>1. /\ k \in DOMAIN q.data /\ At(q, x) = q.data[k] /\ At(q, x) \in Number
      /\ Shaped(q, T)
  BY FullAt DEF Full
<1>2. S # {} => Entry(p, Place(S, x)) = At(p, x) /\ At(p, x) \in Number BY <1>0, FullAt
<1>3. mi # NULL BY NullAssumption
<1>4. mi.indices = AgreeingIndices(S, T) BY DEF ComputeMulInd
<1> HIDE DEF mi
<1>5. Shaped(new, T) BY <1>1, ProductShaped
<1>6. At(new, x) = new.data[k] BY <1>5 DEF At, Shaped
<1>7. new.data = ByIndex(p, q, AgreeingIndices(S, T)) BY <1>1, <1>3, <1>4, ProductData
<1>8. ByIndex(p, q, AgreeingIndices(S, T))[k]
        = IF S = {} \/ S = T THEN q.data[k] ELSE Times(Entry(p, Place(S, x)), q.data[k])
  BY <1>1, <1>2, ByIndexAt
<1>9. At(new, x) = IF S = {} \/ S = T THEN At(q, x) ELSE Times(At(p, x), At(q, x))
  BY <1>1, <1>2, <1>6, <1>7, <1>8
<1> QED BY <1>9 DEF mi

\* The ratio of two tables, 0 where the old one is.
LEMMA RatioAt ==
  ASSUME ~ Log, NEW S \in SUBSET Variables, NEW p, Full(p, S), NEW q, Full(q, S)
  PROVE  /\ Full(UpdateRatioTabular(p, q), S)
         /\ \A x : Valued(S, x) =>
              At(UpdateRatioTabular(p, q), x)
                = IF At(q, x) = Zero THEN Zero ELSE Over(At(p, x), At(q, x))
<1> DEFINE new == UpdateRatioTabular(p, q)
<1>1. p.vbls = S BY DEF Full, Shaped
<1>2. Shaped(new, S) /\ DOMAIN new.data = 0 .. GetCardinality(S) - 1
  BY <1>1 DEF UpdateRatioTabular, Shaped
<1>3. \A k \in 0 .. GetCardinality(S) - 1 :
        new.data[k] = IF Entry(q, k) = Zero THEN Zero ELSE Over(Entry(p, k), Entry(q, k))
  BY <1>1 DEF UpdateRatioTabular
<1> HIDE DEF new
<1>4. ASSUME NEW x, Valued(S, x)
      PROVE  /\ new.data[Place(S, x)] \in Number
             /\ At(new, x) = IF At(q, x) = Zero THEN Zero ELSE Over(At(p, x), At(q, x))
  <2>1. Entry(p, Place(S, x)) = At(p, x) /\ At(p, x) \in Number BY <1>4, FullAt
  <2>2. Entry(q, Place(S, x)) = At(q, x) /\ At(q, x) \in Number BY <1>4, FullAt
  <2>3. At(new, x) = new.data[Place(S, x)] BY <1>2 DEF At, Shaped
  <2>4. Place(S, x) \in 0 .. GetCardinality(S) - 1 BY <1>4, PlaceBound
  <2> DEFINE a == At(p, x)
             b == At(q, x)
  <2>5. At(new, x) = IF b = Zero THEN Zero ELSE Over(a, b) BY <1>3, <2>1, <2>2, <2>3, <2>4
  <2>6. a \in Number /\ b \in Number BY <2>1, <2>2
  <2> HIDE DEF a, b
  <2>7. (IF b = Zero THEN Zero ELSE Over(a, b)) \in Number BY <2>6, OverLaws, ZeroStands
  <2> QED BY <2>3, <2>5, <2>7 DEF a, b
<1>5. Full(new, S) BY <1>2, <1>4, FullByPlaces
<1> QED BY <1>4, <1>5 DEF new

LEMMA SumOfZero ==
  ASSUME NEW D, IsFiniteSet(D), NEW f, \A y \in D : f[y] \in Number
  PROVE  SumOf(f, D) = Zero <=> \A y \in D : f[y] = Zero
<1>1. ASSUME SumOf(f, D) = Zero, NEW y \in D PROVE f[y] = Zero
  <2>1. SumOf(f, D \ {y}) \in Number /\ SumOf(f, D) = Plus(f[y], SumOf(f, D \ {y}))
    BY SumOfLaws
  <2>2. f[y] \in Number OBVIOUS
  <2> QED BY <1>1, <2>1, <2>2, PlusLaws
<1>2. ASSUME \A y \in D : f[y] = Zero PROVE SumOf(f, D) = Zero
  <2> DEFINE Q == {R \in SUBSET D : SumOf(f, R) = Zero}
  <2>1. ASSUME NEW R \in SUBSET D, \A y \in R : R \ {y} \in Q PROVE R \in Q
    <3>0. IsFiniteSet(R) /\ \A y \in R : f[y] \in Number BY FS_Subset
    <3>1. CASE R = {} BY <3>0, <3>1, SumOfLaws
    <3>2. CASE R # {}
      <4>1. PICK y \in R : TRUE BY <3>2
      <4>2. SumOf(f, R) = Plus(f[y], SumOf(f, R \ {y})) BY <3>0, SumOfLaws
      <4>3. f[y] = Zero /\ SumOf(f, R \ {y}) = Zero BY <1>2, <2>1
      <4> QED BY <4>2, <4>3, PlusLaws, ZeroStands
    <3> QED BY <3>1, <3>2
  <2>2. \A R \in SUBSET D : R \in Q
    <3> HIDE DEF Q
    <3> QED BY <2>1, FiniteInduction
  <2> QED BY <2>2
<1> QED BY <1>1, <1>2

\* The margin of a table, by the index table that multiplies it in.
Summands(p, S, T, i) ==
  [j \in DOMAIN AgreeingIndices(S, T)[i] |-> Entry(p, AgreeingIndices(S, T)[i][j])]

LEMMA MarginEntry ==
  ASSUME NEW T \in SUBSET Variables, NEW S \in SUBSET T, NEW p, Full(p, T),
         NEW i \in DOMAIN EnumerateValues(S)
  PROVE  /\ SumMarginTabular(p, ComputeMulInd(S, T)).data[i]
              = SumOf(Summands(p, S, T, i), DOMAIN EnumerateValues(T \ S))
         /\ \A j \in DOMAIN EnumerateValues(T \ S) : Summands(p, S, T, i)[j] \in Number
<1> DEFINE ind == AgreeingIndices(S, T)
<1>1. /\ DOMAIN ind = DOMAIN EnumerateValues(S)
      /\ \A a \in DOMAIN ind : DOMAIN ind[a] = DOMAIN EnumerateValues(T \ S)
  BY IndexShape, IndexColumns
<1>2. \A a \in DOMAIN ind : \A j \in DOMAIN ind[a] : ind[a][j] \in 0 .. GetCardinality(T) - 1
  BY IndexShape
<1>3. ASSUME NEW j \in DOMAIN EnumerateValues(T \ S) PROVE Summands(p, S, T, i)[j] \in Number
  <2>1. ind[i][j] \in 0 .. GetCardinality(T) - 1 BY <1>1, <1>2
  <2> DEFINE k == ind[i][j]
  <2>2. Summands(p, S, T, i)[j] = Entry(p, k) BY <1>1 DEF Summands
  <2>3. k \in DOMAIN p.data BY <2>1 DEF Full
  <2> HIDE DEF k
  <2> QED BY <2>2, <2>3 DEF Entry, Full
<1>4. SumMarginTabular(p, ComputeMulInd(S, T)).data[i]
        = SumOf(Summands(p, S, T, i), DOMAIN ind[i])
  BY <1>1 DEF SumMarginTabular, ComputeMulInd, Summands
<1> QED BY <1>1, <1>3, <1>4

LEMMA MarginAt ==
  ASSUME NEW T \in SUBSET Variables, NEW S \in SUBSET T, S # {}, NEW p, Full(p, T)
  PROVE  /\ Full(SumMarginTabular(p, ComputeMulInd(S, T)), S)
         /\ S # T => \A x : Valued(T, x) =>
              (At(SumMarginTabular(p, ComputeMulInd(S, T)), x) = Zero => At(p, x) = Zero)
<1> DEFINE new == SumMarginTabular(p, ComputeMulInd(S, T))
           R == T \ S
           D == DOMAIN EnumerateValues(R)
<1>0. S \in SUBSET Variables /\ R \in SUBSET Variables OBVIOUS
<1>1. DOMAIN EnumerateValues(S) = 0 .. GetCardinality(S) - 1 BY <1>0, EnumerateLaws
<1>2. IsFiniteSet(D)
  <2> HIDE DEF R
  <2> QED BY <1>0, EnumerateDomain
<1>3. Shaped(new, S) BY DEF Shaped, SumMarginTabular, ComputeMulInd
<1>4. DOMAIN new.data = 0 .. GetCardinality(S) - 1
  <2>1. DOMAIN new.data = DOMAIN AgreeingIndices(S, T) BY DEF SumMarginTabular, ComputeMulInd
  <2> HIDE DEF new
  <2> QED BY <1>1, <2>1, IndexShape
<1>5. ASSUME NEW i \in DOMAIN new.data
      PROVE  /\ new.data[i] = SumOf(Summands(p, S, T, i), D)
             /\ \A j \in D : Summands(p, S, T, i)[j] \in Number
  <2>1. i \in DOMAIN EnumerateValues(S) BY <1>1, <1>4
  <2> QED BY <2>1, MarginEntry
<1> HIDE DEF new, D
<1>6. \A i \in DOMAIN new.data : new.data[i] \in Number BY <1>2, <1>5, SumOfLaws
<1>7. Full(new, S) BY <1>3, <1>4, <1>6 DEF Full
<1>8. ASSUME S # T, NEW x, Valued(T, x), At(new, x) = Zero PROVE At(p, x) = Zero
  <2> DEFINE i == Place(S, x)
             j == Place(R, x)
  <2>1. Valued(S, x) /\ Valued(R, x) BY <1>8 DEF Valued
  <2>2. i \in DOMAIN new.data /\ new.data[i] = Zero BY <1>0, <1>7, <1>8, <2>1, FullAt
  <2>3. \A m \in D : Summands(p, S, T, i)[m] = Zero
    <3> HIDE DEF i
    <3> QED BY <1>2, <1>5, <2>2, SumOfZero
  <2>4. j \in D
    <3>1. R # {} BY <1>8
    <3> HIDE DEF R
    <3>2. j \in 0 .. GetCardinality(R) - 1 BY <1>0, <2>1, PlaceBound
    <3> QED BY <1>0, <3>1, <3>2, EnumerateLaws DEF D
  <2>5. AgreeingIndices(S, T)[i][j] = Place(T, x) BY <1>8, AgreeingLaws
  <2>6. DOMAIN AgreeingIndices(S, T)[i] = D
    <3>1. i \in DOMAIN AgreeingIndices(S, T) BY <1>1, <1>4, <2>2, IndexShape
    <3> HIDE DEF i
    <3> QED BY <3>1, IndexColumns DEF D
  <2>7. Summands(p, S, T, i)[j] = Entry(p, Place(T, x))
    <3> HIDE DEF i, j
    <3> QED BY <2>4, <2>5, <2>6 DEF Summands
  <2>8. Entry(p, Place(T, x)) = At(p, x) BY <1>8, FullAt
  <2> HIDE DEF i, j
  <2> QED BY <2>3, <2>4, <2>7, <2>8
<1> QED BY <1>7, <1>8 DEF new

(***************************************************************************)
(* The entries are numbers.                                                *)
(***************************************************************************)
LEMMA TabulatedFull ==
  ASSUME NEW t, Tabulated(t)
  PROVE  /\ t.vbls # {} /\ t.vbls \in SUBSET Variables /\ Full(t, t.vbls)
         /\ \E c \in Clique : t.vbls \subseteq c
<1>1. PICK c \in Clique : \E S \in (SUBSET c) \ {{}} :
        t \in [vbls : {S}, data : [0 .. GetCardinality(S) - 1 -> Number]]
  BY DEF Tabulated
<1>2. PICK S \in (SUBSET c) \ {{}} :
        t \in [vbls : {S}, data : [0 .. GetCardinality(S) - 1 -> Number]]
  BY <1>1
<1>3. t.vbls = S /\ t.data \in [0 .. GetCardinality(S) - 1 -> Number]
      /\ t = [vbls |-> t.vbls, data |-> t.data]
  BY <1>2
<1>4. S # {} /\ S \subseteq c /\ S \in SUBSET Variables BY <1>2, ScopeAssumption
<1>5. Shaped(t, t.vbls) BY <1>3 DEF Shaped
<1>6. DOMAIN t.data = 0 .. GetCardinality(t.vbls) - 1 /\ \A k \in DOMAIN t.data : t.data[k] \in Number
  BY <1>3
<1> QED BY <1>3, <1>4, <1>5, <1>6 DEF Full

LEMMA UnityAt ==
  ASSUME NEW S \in SUBSET Variables
  PROVE  /\ Full(TabularUnity(S), S)
         /\ \A x : Valued(S, x) => At(TabularUnity(S), x) = One
<1> DEFINE p == TabularUnity(S)
<1>1. Shaped(p, S) /\ DOMAIN p.data = 0 .. GetCardinality(S) - 1
      /\ \A k \in DOMAIN p.data : p.data[k] = One
  BY DEF TabularUnity, Shaped
<1> HIDE DEF p
<1>2. Full(p, S) BY <1>1, OneStands DEF Full
<1>3. ASSUME NEW x, Valued(S, x) PROVE At(p, x) = One
  <2>1. Place(S, x) \in DOMAIN p.data /\ At(p, x) = p.data[Place(S, x)] BY <1>2, <1>3, FullAt
  <2> QED BY <1>1, <2>1
<1> QED BY <1>2, <1>3 DEF p

\* The clique that takes a table, Min(Containing(...)) of them.
Host(t) == cliquePots[Min(Containing(t.vbls))]

LEMMA HostLaws ==
  ASSUME cliquePots \in Orders, NEW t, Tabulated(t)
  PROVE  Containing(t.vbls) # {} /\ Host(t) \in Clique /\ t.vbls \subseteq Host(t)
<1>1. cliquePots \in [1 .. Cardinality(Clique) -> Clique]
      /\ \A i, j \in 1 .. Cardinality(Clique) : i # j => cliquePots[i] # cliquePots[j]
  BY OrdersAssumption DEF SetToSeqs
<1>2. Cardinality(Clique) \in Nat /\ IsFiniteSet(Clique) BY CliqueAssumption, FS_CardinalityType
<1> DEFINE D == 1 .. Cardinality(Clique)
<1>3. IsFiniteSet(D) /\ Cardinality(D) = Cardinality(Clique) BY <1>2, FS_Interval
<1>4. cliquePots \in Injection(D, Clique) BY <1>1 DEF Injection, IsInjective
<1>5. cliquePots \in Surjection(D, Clique)
  <2> HIDE DEF D
  <2> QED BY <1>2, <1>3, <1>4, FS_Injection
<1>6. PICK c \in Clique : t.vbls \subseteq c BY TabulatedFull
<1>7. PICK i \in D : cliquePots[i] = c BY <1>5 DEF Surjection
<1>8. i \in Containing(t.vbls) BY <1>1, <1>6, <1>7 DEF Containing
<1>9. Containing(t.vbls) \in SUBSET Nat BY <1>1 DEF Containing
<1>10. Min(Containing(t.vbls)) \in Containing(t.vbls) BY <1>8, <1>9, Least
<1> QED BY <1>1, <1>8, <1>10 DEF Host, Containing

DataInv ==
  /\ TableInv
  /\ cliquePots \in Orders
  /\ \A c \in Clique : Full(pot[c], c)
  /\ \A e \in tree : Sepset(e) # {} => Full(sepPot[e], Sepset(e))

LEMMA InitDataInv == InitTables => DataInv
<1> SUFFICES ASSUME InitTables PROVE DataInv
  OBVIOUS
<1>1. TableInv /\ cliquePots \in Orders BY InitTableInv DEF InitTables
<1>2. ASSUME NEW c \in Clique PROVE Full(pot[c], c)
  <2>1. pot[c] = TabularUnity(c) /\ c \in SUBSET Variables BY ScopeAssumption DEF InitTables
  <2> QED BY <2>1, UnityAt
<1>3. ASSUME NEW e \in tree PROVE Full(sepPot[e], Sepset(e))
  <2>1. sepPot[e] = TabularUnity(Sepset(e)) BY DEF InitTables
  <2>2. Sepset(e) \in SUBSET Variables BY DEF Sepset
  <2> QED BY <2>1, <2>2, UnityAt
<1> QED BY <1>1, <1>2, <1>3 DEF DataInv

\* What MultiplyTable does to the clique that takes the table.
LEMMA Multiplied1 ==
  ASSUME DataInv, MultiplyTable
  PROVE  LET t == tables[next]
             d == Host(t)
             new == ProductTabular(t, pot[d], ComputeMargInd(d, t.vbls))
         IN /\ Tabulated(t) /\ d \in Clique /\ d \in SUBSET Variables /\ t.vbls \in SUBSET d
            /\ pot' = [pot EXCEPT ![d] = new]
            /\ Full(new, d)
            /\ \A x : Valued(d, x) => At(new, x) = Times(At(t, x), At(pot[d], x))
<1> DEFINE t == tables[next]
           d == Host(t)
           new == ProductTabular(t, pot[d], ComputeMargInd(d, t.vbls))
<1>1. Tabulated(t)
  <2>1. tables \in Networks /\ next \in 1 .. Len(tables) + 1 /\ next <= Len(tables)
    BY DEF DataInv, TableInv, MultiplyTable
  <2>2. next \in 1 .. Len(tables) BY <2>1, NetworksAssumption
  <2> QED BY <2>1, <2>2, NetworksAssumption
<1>2. Containing(t.vbls) # {} /\ d \in Clique /\ t.vbls \in SUBSET d
  <2> HIDE DEF t
  <2> QED BY <1>1, HostLaws DEF DataInv
<1>3. pot' = [pot EXCEPT ![d] = new] BY <1>2 DEF MultiplyTable, Host
<1>4. d \in SUBSET Variables BY <1>2, ScopeAssumption
<1>5. t.vbls # {} /\ Full(t, t.vbls)
  <2> HIDE DEF t
  <2> QED BY <1>1, TabulatedFull
<1>6. Full(pot[d], d) BY <1>2 DEF DataInv
<1>7. ASSUME NEW x, Valued(d, x) PROVE At(new, x) = Times(At(t, x), At(pot[d], x))
  <2> DEFINE q == pot[d]
             S == t.vbls
  <2>1. Full(q, d) /\ Full(t, S) /\ S \in SUBSET d /\ S # {} BY <1>2, <1>5, <1>6
  <2> HIDE DEF q, t, d, S
  <2>2. At(ProductTabular(t, q, ComputeMargInd(d, S)), x) = Times(At(t, x), At(q, x))
    BY <1>4, <1>7, <2>1, MultiplyAt
  <2> QED BY <2>2 DEF q, S
<1>8. Shaped(new, d) /\ DOMAIN new.data = 0 .. GetCardinality(d) - 1
  <2> DEFINE q == pot[d]
             mi == ComputeMargInd(d, t.vbls)
  <2>1. Shaped(q, d) /\ DOMAIN q.data = 0 .. GetCardinality(d) - 1 BY <1>6 DEF Full
  <2> HIDE DEF q, mi, t, d
  <2>2. LET n == ProductTabular(t, q, mi)
        IN Shaped(n, d) /\ DOMAIN n.data = 0 .. GetCardinality(d) - 1
    BY <2>1, ProductShaped
  <2> QED BY <2>2 DEF q, mi
<1>9. ASSUME NEW x, Valued(d, x) PROVE new.data[Place(d, x)] \in Number
  <2>1. At(new, x) = new.data[Place(d, x)] BY <1>8 DEF At, Shaped
  <2>2. At(pot[d], x) \in Number
    <3> HIDE DEF d
    <3> QED BY <1>4, <1>6, <1>9, FullAt
  <2>3. At(t, x) \in Number
    <3>1. t.vbls \in SUBSET Variables /\ Valued(t.vbls, x) BY <1>2, <1>4, <1>9 DEF Valued
    <3> HIDE DEF t
    <3> QED BY <1>5, <3>1, FullAt
  <2> HIDE DEF new, t, d
  <2> QED BY <1>7, <1>9, <2>1, <2>2, <2>3, TimesLaws
<1>10. Full(new, d)
  <2> HIDE DEF new, d
  <2> QED BY <1>4, <1>8, <1>9, FullByPlaces
<1> HIDE DEF new
<1> QED BY <1>1, <1>2, <1>3, <1>4, <1>7, <1>10 DEF new

\* What a message does to the receiver and to the separator.
Received(r, c) ==
  LET S == Sepset({r, c})
      marg == SumMarginTabular(pot[c], ComputeMulInd(S, c))
  IN ProductTabular(UpdateRatioTabular(marg, sepPot[{r, c}]), pot[r], ComputeMulInd(S, r))

Sent(r, c) == SumMarginTabular(pot[c], ComputeMulInd(Sepset({r, c}), c))

LEMMA SendIs ==
  ASSUME TableInv, NEW r \in Clique, NEW c \in Clique, Send(r, c)
  PROVE  /\ {r, c} \in tree
         /\ pot' = [pot EXCEPT ![r] = Received(r, c)]
         /\ sepPot' = [sepPot EXCEPT ![{r, c}] = Sent(r, c)]
<1> DEFINE e == {r, c}
           memo == Memoized(Memoized(mulMemo[e], sepPot[e].vbls, c), sepPot[e].vbls, r)
<1>1. /\ e \in tree
      /\ pot' = [pot EXCEPT ![r] = ProductTabular(UpdateRatioTabular(
                   SumMarginTabular(pot[c], memo[c]), sepPot[e]), pot[r], memo[r])]
      /\ sepPot' = [sepPot EXCEPT ![e] = SumMarginTabular(pot[c], memo[c])]
  BY DEF Send, MessagePass
<1>2. sepPot[e].vbls = Sepset(e)
  <2>1. Shaped(sepPot[e], Sepset(e)) BY <1>1 DEF TableInv
  <2> QED BY <2>1 DEF Shaped
<1>3. MemoOK(memo, e) /\ c \in DOMAIN memo /\ r \in DOMAIN memo
  <2>1. MemoOK(mulMemo[e], e) BY <1>1 DEF TableInv
  <2>2. r \in e /\ c \in e OBVIOUS
  <2> HIDE DEF e
  <2> DEFINE m == Memoized(mulMemo[e], Sepset(e), c)
  <2>3. MemoOK(m, e) /\ c \in DOMAIN m BY <2>1, <2>2, MemoizedOK
  <2> HIDE DEF m
  <2>4. LET k == Memoized(m, Sepset(e), r)
        IN MemoOK(k, e) /\ r \in DOMAIN k /\ c \in DOMAIN k
    BY <2>2, <2>3, MemoizedOK
  <2> QED BY <1>2, <2>4 DEF m
<1>4. memo[c] = ComputeMulInd(Sepset(e), c) /\ memo[r] = ComputeMulInd(Sepset(e), r)
  BY <1>3 DEF MemoOK
<1> QED BY <1>1, <1>4 DEF Received, Sent

Ratio(new, old) == IF old = Zero THEN Zero ELSE Over(new, old)

LEMMA RatioIsNumber ==
  ASSUME NEW p \in Number, NEW q \in Number
  PROVE  Ratio(p, q) \in Number
BY OverLaws, ZeroStands DEF Ratio

LEMMA SendAt ==
  ASSUME ~ Log, DataInv, NEW r \in Clique, NEW c \in Clique, {r, c} \in tree
  PROVE  LET S == Sepset({r, c})
         IN /\ S # {} => Full(Sent(r, c), S)
            /\ Full(Received(r, c), r)
            /\ \A x : Valued(r, x) =>
                 At(Received(r, c), x)
                   = IF S = {} \/ S = r THEN At(pot[r], x)
                     ELSE Times(Ratio(At(Sent(r, c), x), At(sepPot[{r, c}], x)), At(pot[r], x))
            /\ S # {} /\ S # c =>
                 \A x : Valued(c, x) => (At(Sent(r, c), x) = Zero => At(pot[c], x) = Zero)
<1> DEFINE S == Sepset({r, c})
           old == sepPot[{r, c}]
           marg == Sent(r, c)
           p == UpdateRatioTabular(marg, old)
           q == pot[r]
           new == ProductTabular(p, q, ComputeMulInd(S, r))
<1>1. /\ r \in SUBSET Variables /\ c \in SUBSET Variables
      /\ S \in SUBSET r /\ S \in SUBSET c /\ S \in SUBSET Variables
  BY TreeOfTables, EdgeScope DEF DataInv
<1>2. Full(pot[r], r) /\ Full(pot[c], c) /\ (S # {} => Full(old, S)) BY DEF DataInv
<1>3. /\ S # {} => Full(marg, S)
      /\ S # {} /\ S # c =>
           \A x : Valued(c, x) => (At(marg, x) = Zero => At(pot[c], x) = Zero)
  <2>1. marg = SumMarginTabular(pot[c], ComputeMulInd(S, c)) BY DEF Sent
  <2> DEFINE b == pot[c]
  <2>2. Full(b, c) BY <1>2
  <2> HIDE DEF S, b, marg
  <2>3. ASSUME S # {}
        PROVE  LET m == SumMarginTabular(b, ComputeMulInd(S, c))
               IN /\ Full(m, S)
                  /\ S # c => \A x : Valued(c, x) => (At(m, x) = Zero => At(b, x) = Zero)
    BY <1>1, <2>2, <2>3, MarginAt
  <2> QED BY <2>1, <2>3 DEF b
<1>4. Received(r, c) = new BY DEF Received, Sent
<1>5. S # {} => /\ Full(p, S)
                /\ \A x : Valued(S, x) => At(p, x) = Ratio(At(marg, x), At(old, x))
  <2> HIDE DEF S, marg, old
  <2>1. ASSUME S # {}
        PROVE  LET n == UpdateRatioTabular(marg, old)
               IN /\ Full(n, S)
                  /\ \A x : Valued(S, x) =>
                       At(n, x) = IF At(old, x) = Zero THEN Zero ELSE Over(At(marg, x), At(old, x))
    BY <1>1, <1>2, <1>3, <2>1, RatioAt, SMTT(30)
  <2> QED BY <2>1 DEF Ratio
<1>6. \A x : Valued(r, x) =>
        At(new, x) = IF S = {} \/ S = r THEN At(q, x) ELSE Times(At(p, x), At(q, x))
  <2>1. Full(q, r) BY <1>2
  <2> HIDE DEF S, p, q
  <2> QED BY <1>1, <1>5, <2>1, PassAt
<1>7. ASSUME NEW x, Valued(r, x)
      PROVE  /\ At(new, x) = IF S = {} \/ S = r THEN At(q, x)
                             ELSE Times(Ratio(At(marg, x), At(old, x)), At(q, x))
             /\ At(new, x) \in Number
  <2>1. Valued(S, x) BY <1>1, <1>7 DEF Valued
  <2>2. At(q, x) \in Number
    <3>1. Full(q, r) BY <1>2
    <3> HIDE DEF q
    <3> QED BY <1>1, <1>7, <3>1, FullAt
  <2>3. S # {} => At(p, x) \in Number
    <3> HIDE DEF p, S
    <3> QED BY <1>1, <1>5, <2>1, FullAt
  <2>4. /\ S # {} => At(p, x) = Ratio(At(marg, x), At(old, x))
        /\ At(new, x) = IF S = {} \/ S = r THEN At(q, x) ELSE Times(At(p, x), At(q, x))
    BY <1>5, <1>6, <1>7, <2>1
  <2> DEFINE a == At(p, x)
             d == At(q, x)
  <2>5. S # {} => Times(a, d) \in Number
    <3>1. d \in Number /\ (S # {} => a \in Number) BY <2>2, <2>3
    <3> HIDE DEF a, d, S
    <3> QED BY <3>1, TimesLaws
  <2> HIDE DEF new, S, p, q, marg, old
  <2> QED BY <2>2, <2>4, <2>5
<1>8. Full(new, r)
  <2>1. Shaped(q, r) /\ DOMAIN q.data = 0 .. GetCardinality(r) - 1 BY <1>2 DEF Full
  <2>2. Shaped(new, r) /\ DOMAIN new.data = 0 .. GetCardinality(r) - 1
    <3> DEFINE mi == ComputeMulInd(S, r)
    <3> HIDE DEF p, q, mi
    <3>1. LET n == ProductTabular(p, q, mi)
          IN Shaped(n, r) /\ DOMAIN n.data = 0 .. GetCardinality(r) - 1
      BY <2>1, ProductShaped
    <3> QED BY <3>1 DEF mi
  <2> HIDE DEF new
  <2>3. ASSUME NEW x, Valued(r, x) PROVE new.data[Place(r, x)] \in Number
    <3>1. At(new, x) = new.data[Place(r, x)] BY <2>2 DEF At, Shaped
    <3> QED BY <1>7, <2>3, <3>1
  <2> QED BY <1>1, <2>2, <2>3, FullByPlaces
<1> HIDE DEF new, p
<1> QED BY <1>3, <1>4, <1>7, <1>8

LEMMA DataInvKept == ~ Log /\ DataInv /\ [NextTables]_tableVars => DataInv'
<1> SUFFICES ASSUME ~ Log, DataInv, [NextTables]_tableVars PROVE DataInv'
  OBVIOUS
<1>0. TableInv /\ TableInv' BY TableInvKept DEF DataInv
<1>1. CASE MultiplyTable
  <2> DEFINE t == tables[next]
             d == Host(t)
             new == ProductTabular(t, pot[d], ComputeMargInd(d, t.vbls))
  <2>1. pot' = [pot EXCEPT ![d] = new] /\ Full(new, d) BY <1>1, Multiplied1
  <2> HIDE DEF new, d
  <2>2. \A c \in Clique : Full(pot'[c], c) BY <1>0, <2>1 DEF DataInv, TableInv
  <2> QED BY <1>0, <1>1, <2>2 DEF DataInv, MultiplyTable, potVars, Sepset
<1>2. ASSUME NEW r \in Clique, NEW c \in Clique, Send(r, c) PROVE DataInv'
  <2>1. /\ {r, c} \in tree
        /\ pot' = [pot EXCEPT ![r] = Received(r, c)]
        /\ sepPot' = [sepPot EXCEPT ![{r, c}] = Sent(r, c)]
    BY <1>0, <1>2, SendIs
  <2>2. /\ Sepset({r, c}) # {} => Full(Sent(r, c), Sepset({r, c}))
        /\ Full(Received(r, c), r)
    BY <2>1, SendAt
  <2>3. tree' = tree /\ cliquePots' = cliquePots BY <1>2 DEF Send, MessagePass
  <2>4. \A d \in Clique : Full(pot'[d], d)
    BY <1>0, <2>1, <2>2 DEF DataInv, TableInv
  <2>5. ASSUME NEW e \in tree, Sepset(e) # {} PROVE Full(sepPot'[e], Sepset(e))
    <3>1. DOMAIN sepPot = tree BY <1>0 DEF TableInv
    <3>2. CASE e = {r, c} BY <2>1, <2>2, <2>5, <3>1, <3>2
    <3>3. CASE e # {r, c} BY <2>1, <2>5, <3>1, <3>3 DEF DataInv
    <3> QED BY <3>2, <3>3
  <2> QED BY <1>0, <2>3, <2>4, <2>5 DEF DataInv, Sepset
<1>3. CASE UNCHANGED tableVars
  BY <1>0, <1>3 DEF DataInv, tableVars, potVars, Sepset
<1> QED BY <1>1, <1>2, <1>3 DEF NextTables

LEMMA DataInvariance == ~ Log => (SpecTables => []DataInv)
<1>1. ASSUME ~ Log PROVE InitTables /\ [][NextTables]_tableVars => []DataInv
  <2>1. DataInv /\ [NextTables]_tableVars => DataInv' BY <1>1, DataInvKept
  <2> QED BY <2>1, InitDataInv, PTL
<1> QED BY <1>1 DEF SpecTables

(***************************************************************************)
(* "Observations either 0 things out, or leave them unchanged"             *)
(* (JB_Inference.c:218): in the variants without logarithms no table       *)
(* multiplied in later and no message ever brings an entry that is zero    *)
(* back, although messages divide.                                         *)
(***************************************************************************)
THEOREM ZerosStay == ~ Log => (SpecTables => StaysZero)
<1> DEFINE Stay == \A c \in Clique : \A k \in DOMAIN pot[c].data :
                     pot[c].data[k] = Zero => pot'[c].data[k] = Zero
<1>1. ASSUME ~ Log, DataInv, [NextTables]_tableVars PROVE Stay
  <2>0. TableInv /\ DOMAIN pot = Clique BY <1>1 DEF DataInv, TableInv
  <2> SUFFICES ASSUME NEW c \in Clique, NEW k \in DOMAIN pot[c].data, pot[c].data[k] = Zero
               PROVE  pot'[c].data[k] = Zero
    OBVIOUS
  <2>1. Full(pot[c], c) /\ c \in SUBSET Variables BY <1>1, ScopeAssumption DEF DataInv
  <2>2. PICK x : Valued(c, x) /\ Place(c, x) = k
    <3>1. k \in 0 .. GetCardinality(c) - 1 BY <2>1 DEF Full
    <3> QED BY <2>1, <3>1, PlaceOnto
  <2>3. At(pot[c], x) = Zero
    <3> DEFINE q == pot[c]
    <3>1. Full(q, c) /\ q.data[k] = Zero BY <2>1
    <3> HIDE DEF q
    <3>2. At(q, x) = Zero BY <2>1, <2>2, <3>1, FullAt
    <3> QED BY <3>2 DEF q
  <2>4. ASSUME NEW new, Full(new, c), At(new, x) = Zero PROVE new.data[k] = Zero
    BY <2>1, <2>2, <2>4, FullAt
  <2>5. CASE MultiplyTable
    <3> DEFINE t == tables[next]
               d == Host(t)
               new == ProductTabular(t, pot[d], ComputeMargInd(d, t.vbls))
    <3>1. /\ Tabulated(t) /\ d \in Clique /\ d \in SUBSET Variables /\ t.vbls \in SUBSET d
          /\ pot' = [pot EXCEPT ![d] = new] /\ Full(new, d)
          /\ \A y : Valued(d, y) => At(new, y) = Times(At(t, y), At(pot[d], y))
      BY <1>1, <2>5, Multiplied1
    <3> HIDE DEF new, d, t
    <3>2. CASE c = d
      <4>1. At(t, x) \in Number
        <5>1. Full(t, t.vbls) /\ t.vbls \in SUBSET Variables /\ Valued(t.vbls, x)
          BY <2>2, <3>1, <3>2, TabulatedFull DEF Valued
        <5> QED BY <5>1, FullAt
      <4>2. At(new, x) = Times(At(t, x), Zero) BY <2>2, <2>3, <3>1, <3>2
      <4>3. Zero \in Number BY ZeroStands
      <4>4. At(new, x) = Zero BY <4>1, <4>2, <4>3, TimesLaws
      <4>5. new.data[k] = Zero BY <2>4, <3>1, <3>2, <4>4
      <4> QED BY <2>0, <3>1, <3>2, <4>5
    <3>3. CASE c # d BY <2>0, <3>1, <3>3
    <3> QED BY <3>2, <3>3
  <2>6. ASSUME NEW r \in Clique, NEW d \in Clique, Send(r, d)
        PROVE  pot'[c].data[k] = Zero
    <3>1. {r, d} \in tree /\ pot' = [pot EXCEPT ![r] = Received(r, d)] BY <2>0, <2>6, SendIs
    <3>2. CASE c = r
      <4> DEFINE S == Sepset({r, d})
                 p == Ratio(At(Sent(r, d), x), At(sepPot[{r, d}], x))
      <4>1. /\ S # {} => Full(Sent(r, d), S)
            /\ Full(Received(r, d), r)
            /\ At(Received(r, d), x) = IF S = {} \/ S = r THEN At(pot[r], x)
                                       ELSE Times(p, At(pot[r], x))
        BY <1>1, <2>2, <3>1, <3>2, SendAt, ZenonT(60)
      <4>2. S \in SUBSET r /\ S \in SUBSET Variables /\ Valued(S, x)
        <5>1. S \in SUBSET r /\ S \in SUBSET Variables
          BY <2>0, <3>1, TreeOfTables, EdgeScope
        <5> QED BY <2>2, <3>2, <5>1 DEF Valued
      <4>3. S # {} => p \in Number
        <5> DEFINE old == sepPot[{r, d}]
        <5>1. S # {} => Full(old, S) BY <1>1, <3>1 DEF DataInv
        <5> HIDE DEF S, old
        <5>2. S # {} => At(Sent(r, d), x) \in Number /\ At(old, x) \in Number
          BY <4>1, <4>2, <5>1, FullAt
        <5> DEFINE a == At(Sent(r, d), x)
                   b == At(old, x)
        <5>3. S # {} => Ratio(a, b) \in Number
          <6>1. S # {} => a \in Number /\ b \in Number BY <5>2
          <6> HIDE DEF a, b
          <6> QED BY <6>1, RatioIsNumber
        <5> QED BY <5>3 DEF old
      <4>4. At(Received(r, d), x) = Zero
        <5> HIDE DEF p, S
        <5>1. S # {} => Times(p, Zero) = Zero BY <4>3, TimesLaws, ZeroStands
        <5> QED BY <2>3, <3>2, <4>1, <5>1
      <4>5. Received(r, d).data[k] = Zero BY <2>4, <3>2, <4>1, <4>4
      <4> QED BY <2>0, <3>1, <3>2, <4>5
    <3>3. CASE c # r BY <2>0, <3>1, <3>3
    <3> QED BY <3>2, <3>3
  <2>7. CASE UNCHANGED tableVars BY <2>7 DEF tableVars
  <2> QED BY <1>1, <2>5, <2>6, <2>7 DEF NextTables
<1>2. ASSUME ~ Log PROVE SpecTables => StaysZero
  <2>1. DataInv /\ DataInv' /\ [NextTables]_tableVars => [Stay]_tableVars
    <3>1. DataInv /\ [NextTables]_tableVars => Stay BY <1>1, <1>2
    <3> QED BY <3>1
  <2>2. SpecTables => []DataInv BY <1>2, DataInvariance
  <2> QED BY <2>1, <2>2, PTL DEF SpecTables, StaysZero
<1> QED BY <1>2

(***************************************************************************)
(* Products over cliques, separators and tables.                           *)
(***************************************************************************)
LEMMA ProductSame ==
  ASSUME NEW S, IsFiniteSet(S), NEW f, NEW g, \A y \in S : f[y] \in Number /\ g[y] = f[y]
  PROVE  ProductOf(g, S) = ProductOf(f, S)
<1>1. Monoid(Number, TimesFunction) /\ One \in Number BY Multiplies, OneStands
<1>2. Total(Number, TimesFunction, One, g, S) = Total(Number, TimesFunction, One, f, S)
  BY <1>1, TotalSame
<1>3. \A y \in S : g[y] \in Number OBVIOUS
<1> QED BY <1>2, <1>3, ProductIsTotal

\* One factor is another: what is left of the product stays.
LEMMA ProductReplaced ==
  ASSUME NEW S, IsFiniteSet(S), NEW f, NEW g, \A y \in S : f[y] \in Number /\ g[y] \in Number,
         NEW d \in S, \A y \in S \ {d} : g[y] = f[y]
  PROVE  \E rest \in Number : ProductOf(f, S) = Times(f[d], rest)
                              /\ ProductOf(g, S) = Times(g[d], rest)
<1> DEFINE R == S \ {d}
<1>1. IsFiniteSet(R) BY FS_Subset
<1>2. ProductOf(f, R) \in Number /\ ProductOf(f, S) = Times(f[d], ProductOf(f, R))
  BY ProductOfLaws
<1>3. ProductOf(g, S) = Times(g[d], ProductOf(g, R)) BY ProductOfLaws
<1>4. ProductOf(g, R) = ProductOf(f, R) BY <1>1, ProductSame
<1> QED BY <1>2, <1>3, <1>4

LEMMA ProductScaled ==
  ASSUME NEW S, IsFiniteSet(S), NEW f, NEW g, \A y \in S : f[y] \in Number,
         NEW d \in S, \A y \in S \ {d} : g[y] = f[y], NEW a \in Number, g[d] = Times(a, f[d])
  PROVE  ProductOf(g, S) = Times(a, ProductOf(f, S))
<1>1. \A y \in S : g[y] \in Number BY TimesLaws
<1>2. PICK rest \in Number : ProductOf(f, S) = Times(f[d], rest)
                             /\ ProductOf(g, S) = Times(g[d], rest)
  BY <1>1, ProductReplaced
<1>3. f[d] \in Number OBVIOUS
<1> QED BY <1>2, <1>3, TimesAssociates

LEMMA ProductOfOnes ==
  ASSUME NEW S, IsFiniteSet(S), NEW f, \A y \in S : f[y] = One
  PROVE  ProductOf(f, S) = One
<1> DEFINE Q == {R \in SUBSET S : ProductOf(f, R) = One}
<1>1. ASSUME NEW R \in SUBSET S, \A y \in R : R \ {y} \in Q PROVE R \in Q
  <2>0. IsFiniteSet(R) /\ \A y \in R : f[y] \in Number BY FS_Subset, OneStands
  <2>1. CASE R = {} BY <2>0, <2>1, ProductOfLaws
  <2>2. CASE R # {}
    <3>1. PICK y \in R : TRUE BY <2>2
    <3>2. ProductOf(f, R) = Times(f[y], ProductOf(f, R \ {y})) BY <2>0, ProductOfLaws
    <3>3. f[y] = One /\ ProductOf(f, R \ {y}) = One BY <1>1
    <3> QED BY <3>2, <3>3, TimesLaws, OneStands
  <2> QED BY <2>1, <2>2
<1>2. \A R \in SUBSET S : R \in Q
  <2> HIDE DEF Q
  <2> QED BY <1>1, FiniteInduction
<1> QED BY <1>2

\* The margin is zero where all it sums is.
LEMMA MarginOfZeros ==
  ASSUME NEW T \in SUBSET Variables, NEW S \in SUBSET T, S # {}, NEW p, Full(p, T),
         NEW x, Valued(S, x),
         \A y : Valued(T, y) /\ Place(S, y) = Place(S, x) => At(p, y) = Zero
  PROVE  At(SumMarginTabular(p, ComputeMulInd(S, T)), x) = Zero
<1> DEFINE new == SumMarginTabular(p, ComputeMulInd(S, T))
           R == T \ S
           D == DOMAIN EnumerateValues(R)
           i == Place(S, x)
<1>0. S \in SUBSET Variables /\ R \in SUBSET Variables OBVIOUS
<1>1. DOMAIN EnumerateValues(S) = 0 .. GetCardinality(S) - 1 BY <1>0, EnumerateLaws
<1>2. IsFiniteSet(D)
  <2> HIDE DEF R
  <2> QED BY <1>0, EnumerateDomain
<1>3. i \in 0 .. GetCardinality(S) - 1 BY <1>0, PlaceBound
<1>4. i \in DOMAIN EnumerateValues(S) BY <1>1, <1>3
<1>5. /\ new.data[i] = SumOf(Summands(p, S, T, i), D)
      /\ \A j \in D : Summands(p, S, T, i)[j] \in Number
  <2> HIDE DEF i
  <2> QED BY <1>4, MarginEntry
<1>6. new.vbls = S BY DEF SumMarginTabular, ComputeMulInd
<1>7. At(new, x) = new.data[i] BY <1>6 DEF At
<1>8. ASSUME NEW j \in D PROVE Summands(p, S, T, i)[j] = Zero
  <2>1. R # {}
    <3>1. R = {} => DOMAIN EnumerateValues(R) = {}
      <4> HIDE DEF R
      <4> QED BY <1>0, EnumerateDomain
    <3> QED BY <1>8, <3>1
  <2>2. j \in 0 .. GetCardinality(R) - 1
    <3> HIDE DEF R
    <3> QED BY <1>0, <1>8, EnumerateDomain
  <2>3. \E y : Split(T, S, i, j, y)
    <3> HIDE DEF i
    <3> QED BY <1>3, <2>2, Combined
  <2>4. PICK y : Valued(T, y) /\ Place(S, y) = i /\ Place(R, y) = j BY <2>3 DEF Split
  <2>5. At(p, y) = Zero /\ Entry(p, Place(T, y)) = At(p, y) BY <2>4, FullAt
  <2>6. AgreeingIndices(S, T)[Place(S, y)][Place(R, y)] = Place(T, y)
    BY <2>1, <2>4, AgreeingLaws
  <2>7. DOMAIN AgreeingIndices(S, T)[i] = D
    <3>1. i \in DOMAIN AgreeingIndices(S, T) BY <1>4, IndexShape
    <3> HIDE DEF i
    <3> QED BY <3>1, IndexColumns DEF D
  <2>8. AgreeingIndices(S, T)[i][j] = Place(T, y) BY <2>4, <2>6
  <2>9. Summands(p, S, T, i)[j] = Entry(p, Place(T, y))
    <3> HIDE DEF i
    <3> QED BY <2>7, <2>8 DEF Summands
  <2> QED BY <2>5, <2>9
<1>9. SumOf(Summands(p, S, T, i), D) = Zero
  <2> HIDE DEF D, i
  <2> QED BY <1>2, <1>5, <1>8, SumOfZero
<1> HIDE DEF new
<1> QED BY <1>5, <1>7, <1>9 DEF new

(***************************************************************************)
(* The product of the whole tree.                                          *)
(***************************************************************************)

\* RemoveNonCliques leaves no clique whose variables another one has, except
\* where it compares too little: the run MCTableMessages_Nested has a tree of
\* the latter kind, where a message changes what the tree stands for.
NoneInside == \A E \in Trees : \A e \in E : \A c \in e : Sepset(e) # c

CliqueProduct(x) == ProductOf([c \in Clique |-> At(pot[c], x)], Clique)
SepProduct(x) == ProductOf([e \in Carrying |-> At(sepPot[e], x)], Carrying)

ZerosShared ==
  \A e \in tree : Sepset(e) # {} =>
    \A c \in e : \A x :
      Valued(c, x) => (At(sepPot[e], x) = Zero => At(pot[c], x) = Zero)

JointInv ==
  /\ DataInv
  /\ ZerosShared
  /\ \A x : Valued(Variables, x) =>
       CliqueProduct(x) = Times(JointOf(Multiplied, x), SepProduct(x))

LEMMA TreeFinite == IsTree(Clique, tree) => IsFiniteSet(tree) /\ IsFiniteSet(Carrying)
<1> SUFFICES ASSUME IsTree(Clique, tree) PROVE IsFiniteSet(tree) /\ IsFiniteSet(Carrying)
  OBVIOUS
<1>1. tree \in SUBSET (SUBSET Clique) BY DEF IsTree, Edges
<1>2. IsFiniteSet(SUBSET Clique) BY CliqueAssumption, FS_SUBSET
<1>3. IsFiniteSet(tree) BY <1>1, <1>2, FS_Subset
<1>4. Carrying \in SUBSET tree BY DEF Carrying
<1> QED BY <1>3, <1>4, FS_Subset

LEMMA Factors ==
  ASSUME DataInv, NEW x, Valued(Variables, x)
  PROVE  /\ \A c \in Clique : Valued(c, x) /\ At(pot[c], x) \in Number
         /\ \A e \in Carrying : Valued(Sepset(e), x) /\ At(sepPot[e], x) \in Number
         /\ \A i \in 1 .. Len(tables) : At(tables[i], x) \in Number
<1>1. ASSUME NEW c \in Clique PROVE Valued(c, x) /\ At(pot[c], x) \in Number
  <2>1. c \in SUBSET Variables /\ Valued(c, x) BY ScopeAssumption DEF Valued
  <2>2. Full(pot[c], c) BY DEF DataInv
  <2> QED BY <2>1, <2>2, FullAt
<1>2. ASSUME NEW e \in Carrying PROVE Valued(Sepset(e), x) /\ At(sepPot[e], x) \in Number
  <2>1. Sepset(e) \in SUBSET Variables /\ Valued(Sepset(e), x) BY DEF Valued, Sepset
  <2>2. Full(sepPot[e], Sepset(e)) BY DEF DataInv, Carrying
  <2> QED BY <2>1, <2>2, FullAt
<1>3. ASSUME NEW i \in 1 .. Len(tables) PROVE At(tables[i], x) \in Number
  <2> DEFINE t == tables[i]
  <2>1. Tabulated(t) BY NetworksAssumption DEF DataInv, TableInv
  <2> HIDE DEF t
  <2>2. t.vbls \in SUBSET Variables /\ Full(t, t.vbls) BY <2>1, TabulatedFull
  <2>3. Valued(t.vbls, x) BY <2>2 DEF Valued
  <2>4. At(t, x) \in Number BY <2>2, <2>3, FullAt
  <2> QED BY <2>4 DEF t
<1> QED BY <1>1, <1>2, <1>3

LEMMA Products ==
  ASSUME DataInv, NEW x, Valued(Variables, x)
  PROVE  /\ IsFiniteSet(Multiplied) /\ Multiplied \subseteq 1 .. Len(tables)
         /\ JointOf(Multiplied, x) \in Number
         /\ SepProduct(x) \in Number /\ CliqueProduct(x) \in Number
<1>1. next \in 1 .. Len(tables) + 1 /\ Len(tables) \in Nat
  BY NetworksAssumption DEF DataInv, TableInv
<1>2. IsFiniteSet(Multiplied) /\ Multiplied \subseteq 1 .. Len(tables)
  <2>1. next - 1 \in Nat /\ next - 1 <= Len(tables) BY <1>1
  <2>2. IsFiniteSet(1 .. next - 1) BY <2>1, FS_Interval
  <2> QED BY <1>1, <2>2 DEF Multiplied
<1>3. JointOf(Multiplied, x) \in Number
  <2> DEFINE f == [i \in Multiplied |-> At(tables[i], x)]
             D == Multiplied
  <2>1. \A i \in D : f[i] \in Number BY <1>2, Factors
  <2>2. IsFiniteSet(D) BY <1>2
  <2> HIDE DEF f, D
  <2>3. ProductOf(f, D) \in Number BY <2>1, <2>2, ProductOfLaws
  <2> QED BY <2>3 DEF JointOf, f, D
<1>4. SepProduct(x) \in Number
  <2> DEFINE f == [e \in Carrying |-> At(sepPot[e], x)]
  <2>1. \A e \in Carrying : f[e] \in Number BY Factors
  <2>2. IsFiniteSet(Carrying) BY TreeOfTables, TreeFinite DEF DataInv
  <2> HIDE DEF f
  <2>3. ProductOf(f, Carrying) \in Number BY <2>1, <2>2, ProductOfLaws
  <2> QED BY <2>3 DEF SepProduct, f
<1>5. CliqueProduct(x) \in Number
  <2> DEFINE f == [c \in Clique |-> At(pot[c], x)]
  <2>1. \A c \in Clique : f[c] \in Number BY Factors
  <2> HIDE DEF f
  <2>3. ProductOf(f, Clique) \in Number BY <2>1, CliqueAssumption, ProductOfLaws
  <2> QED BY <2>3 DEF CliqueProduct, f
<1> QED BY <1>2, <1>3, <1>4, <1>5

LEMMA InitJointInv == InitTables => JointInv
<1> SUFFICES ASSUME InitTables PROVE JointInv
  OBVIOUS
<1>1. DataInv BY InitDataInv
<1>2. ZerosShared
  <2> SUFFICES ASSUME NEW e \in tree, Sepset(e) # {}, NEW c \in e, NEW x, Valued(c, x)
               PROVE  At(sepPot[e], x) # Zero
    BY DEF ZerosShared
  <2>1. sepPot[e] = TabularUnity(Sepset(e)) BY DEF InitTables
  <2>2. Sepset(e) \in SUBSET Variables /\ Sepset(e) \in SUBSET c BY DEF Sepset
  <2>3. Valued(Sepset(e), x) BY <2>2 DEF Valued
  <2>4. At(sepPot[e], x) = One BY <2>1, <2>2, <2>3, UnityAt
  <2> QED BY <2>4 DEF One, Zero
<1>3. ASSUME NEW x, Valued(Variables, x)
      PROVE  CliqueProduct(x) = Times(JointOf(Multiplied, x), SepProduct(x))
  <2>1. CliqueProduct(x) = One
    <3> DEFINE f == [c \in Clique |-> At(pot[c], x)]
    <3>1. ASSUME NEW c \in Clique PROVE f[c] = One
      <4>1. c \in SUBSET Variables /\ Valued(c, x) BY <1>3, ScopeAssumption DEF Valued
      <4>2. pot[c] = TabularUnity(c) BY DEF InitTables
      <4> QED BY <4>1, <4>2, UnityAt
    <3> HIDE DEF f
    <3>2. ProductOf(f, Clique) = One BY <3>1, CliqueAssumption, ProductOfOnes
    <3> QED BY <3>2 DEF CliqueProduct, f
  <2>2. SepProduct(x) = One
    <3> DEFINE f == [e \in Carrying |-> At(sepPot[e], x)]
    <3>1. ASSUME NEW e \in Carrying PROVE f[e] = One
      <4>1. Sepset(e) \in SUBSET Variables /\ Valued(Sepset(e), x) BY <1>3 DEF Valued, Sepset
      <4>2. sepPot[e] = TabularUnity(Sepset(e)) BY DEF InitTables, Carrying
      <4> QED BY <4>1, <4>2, UnityAt
    <3>2. IsFiniteSet(Carrying) BY <1>1, TreeOfTables, TreeFinite DEF DataInv
    <3> HIDE DEF f
    <3>3. ProductOf(f, Carrying) = One BY <3>1, <3>2, ProductOfOnes
    <3> QED BY <3>3 DEF SepProduct, f
  <2>3. JointOf(Multiplied, x) = One
    <3>1. Multiplied = {} BY DEF Multiplied, InitTables
    <3> QED BY <3>1, ProductOfNone DEF JointOf
  <2> QED BY <2>1, <2>2, <2>3, TimesLaws, OneStands
<1> QED BY <1>1, <1>2, <1>3 DEF JointInv

LEMMA MultiplyJointInv == ~ Log /\ JointInv /\ MultiplyTable => JointInv'
<1> SUFFICES ASSUME ~ Log, JointInv, MultiplyTable PROVE JointInv'
  OBVIOUS
<1> DEFINE t == tables[next]
           d == Host(t)
           new == ProductTabular(t, pot[d], ComputeMargInd(d, t.vbls))
<1>1. DataInv /\ TableInv /\ DOMAIN pot = Clique BY DEF JointInv, DataInv, TableInv
<1>2. DataInv' BY <1>1, DataInvKept DEF NextTables
<1>3. /\ Tabulated(t) /\ d \in Clique /\ d \in SUBSET Variables /\ t.vbls \in SUBSET d
      /\ pot' = [pot EXCEPT ![d] = new] /\ Full(new, d)
      /\ \A y : Valued(d, y) => At(new, y) = Times(At(t, y), At(pot[d], y))
  BY <1>1, Multiplied1
<1>4. /\ tree' = tree /\ sepPot' = sepPot /\ tables' = tables /\ next' = next + 1
      /\ Carrying' = Carrying /\ \A e : Sepset(e)' = Sepset(e)
  BY DEF MultiplyTable, potVars, Carrying, Sepset
<1>5. pot'[d] = new /\ \A c \in Clique \ {d} : pot'[c] = pot[c] BY <1>1, <1>3
<1>6. t.vbls \in SUBSET Variables /\ Full(t, t.vbls)
  <2> HIDE DEF t
  <2> QED BY <1>3, TabulatedFull
<1>7. next \in 1 .. Len(tables) /\ next \in Nat
  <2>1. next \in 1 .. Len(tables) + 1 /\ next <= Len(tables) BY <1>1 DEF TableInv, MultiplyTable
  <2>2. Len(tables) \in Nat BY <1>1, NetworksAssumption DEF TableInv
  <2> QED BY <2>1, <2>2
<1> HIDE DEF new, d
<1>8. ASSUME NEW x, Valued(d, x) PROVE At(t, x) \in Number /\ At(pot[d], x) \in Number
  <2>1. Valued(t.vbls, x) BY <1>3, <1>8 DEF Valued
  <2>2. At(t, x) \in Number
    <3> HIDE DEF t
    <3> QED BY <1>6, <2>1, FullAt
  <2>3. Full(pot[d], d) BY <1>1, <1>3 DEF DataInv
  <2>4. At(pot[d], x) \in Number BY <1>3, <1>8, <2>3, FullAt
  <2> QED BY <2>2, <2>4
<1>9. ZerosShared'
  <2> SUFFICES ASSUME NEW e \in tree, Sepset(e) # {}, NEW c \in e, NEW x, Valued(c, x),
                      At(sepPot[e], x) = Zero
               PROVE  At(pot'[c], x) = Zero
    BY <1>4 DEF ZerosShared
  <2>1. c \in Clique BY <1>1, TreeOfTables, EdgeScope
  <2>2. At(pot[c], x) = Zero BY DEF JointInv, ZerosShared
  <2>3. CASE c = d
    <3>1. At(new, x) = Times(At(t, x), Zero) /\ At(t, x) \in Number BY <1>3, <1>8, <2>2, <2>3
    <3> HIDE DEF t
    <3>2. At(new, x) = Zero BY <3>1, TimesLaws, ZeroStands
    <3> QED BY <1>5, <2>3, <3>2
  <2>4. CASE c # d BY <1>5, <2>1, <2>2, <2>4
  <2> QED BY <2>3, <2>4
<1>10. ASSUME NEW x, Valued(Variables, x)
       PROVE  CliqueProduct(x)' = Times(JointOf(Multiplied, x)', SepProduct(x)')
  <2> DEFINE a == At(t, x)
             f == [c \in Clique |-> At(pot[c], x)]
             g == [c \in Clique |-> At(pot'[c], x)]
             j == [i \in Multiplied |-> At(tables[i], x)]
             k == [i \in Multiplied \cup {next} |-> At(tables[i], x)]
  <2>1. /\ \A c \in Clique : Valued(c, x) /\ f[c] \in Number
        /\ \A i \in 1 .. Len(tables) : At(tables[i], x) \in Number
    BY <1>1, <1>10, Factors
  <2>2. a \in Number BY <1>7, <2>1
  <2>3. CliqueProduct(x)' = Times(a, CliqueProduct(x))
    <3>1. g[d] = Times(a, f[d])
      <4>1. Valued(d, x) BY <1>3, <2>1
      <4>2. At(new, x) = Times(a, At(pot[d], x)) BY <1>3, <4>1
      <4>3. g[d] = At(new, x) BY <1>3, <1>5
      <4>4. f[d] = At(pot[d], x) BY <1>3
      <4> HIDE DEF f, g, a
      <4> QED BY <4>2, <4>3, <4>4
    <3>2. \A c \in Clique \ {d} : g[c] = f[c] BY <1>5
    <3>3. \A c \in Clique : f[c] \in Number BY <2>1
    <3> HIDE DEF f, g, a
    <3>4. ProductOf(g, Clique) = Times(a, ProductOf(f, Clique))
      BY <1>3, <2>2, <3>1, <3>2, <3>3, CliqueAssumption, ProductScaled
    <3> QED BY <3>4 DEF CliqueProduct, f, g
  <2>4. /\ IsFiniteSet(Multiplied) /\ Multiplied \subseteq 1 .. Len(tables)
        /\ JointOf(Multiplied, x) \in Number /\ SepProduct(x) \in Number
    BY <1>1, <1>10, Products
  <2>5. JointOf(Multiplied, x)' = Times(a, JointOf(Multiplied, x))
    <3> DEFINE D == Multiplied
               E == D \cup {next}
    <3>1. Multiplied' = E BY <1>4, <1>7 DEF Multiplied
    <3>2. next \notin D BY <1>7 DEF Multiplied
    <3>3. JointOf(Multiplied, x)' = ProductOf(k, E) BY <1>4, <3>1 DEF JointOf
    <3>4. IsFiniteSet(E) /\ IsFiniteSet(D) BY <2>4, FS_AddElement
    <3>5. /\ \A i \in E : k[i] \in Number
          /\ \A i \in D : j[i] \in Number /\ k[i] = j[i]
          /\ k[next] = a
      BY <1>7, <2>1, <2>4
    <3>6. next \in E /\ E \ {next} = D BY <3>2
    <3> HIDE DEF j, k, a, D, E
    <3>7. ProductOf(k, E) = Times(k[next], ProductOf(k, D)) BY <3>4, <3>5, <3>6, ProductOfLaws
    <3>8. ProductOf(k, D) = ProductOf(j, D) BY <3>4, <3>5, ProductSame
    <3>9. JointOf(Multiplied, x) = ProductOf(j, D) BY DEF JointOf, j, D
    <3> QED BY <3>3, <3>5, <3>7, <3>8, <3>9
  <2>6. SepProduct(x)' = SepProduct(x) BY <1>4 DEF SepProduct
  <2>7. CliqueProduct(x) = Times(JointOf(Multiplied, x), SepProduct(x))
    BY <1>10 DEF JointInv
  <2> HIDE DEF a
  <2> QED BY <2>2, <2>3, <2>4, <2>5, <2>6, <2>7, TimesAssociates
<1> QED BY <1>2, <1>9, <1>10 DEF JointInv

\* What a message does to the entries for x on its two tables.
LEMMA SendEntries ==
  ASSUME NoneInside, ~ Log, JointInv, NEW r \in Clique, NEW c \in Clique, {r, c} \in tree,
         Sepset({r, c}) # {}
  PROVE  LET S == Sepset({r, c})
             old == sepPot[{r, c}]
         IN /\ \A x : Valued(S, x) => At(Sent(r, c), x) \in Number /\ At(old, x) \in Number
                                      /\ (At(old, x) = Zero => At(Sent(r, c), x) = Zero)
            /\ \A x : Valued(r, x) =>
                 At(Received(r, c), x)
                   = Times(Ratio(At(Sent(r, c), x), At(old, x)), At(pot[r], x))
            /\ \A x : Valued(c, x) => (At(Sent(r, c), x) = Zero => At(pot[c], x) = Zero)
<1> DEFINE S == Sepset({r, c})
           old == sepPot[{r, c}]
<1>0. DataInv /\ ZerosShared /\ IsTree(Clique, tree) /\ tree \in Trees
  BY TreeOfTables DEF JointInv, DataInv, TableInv, PotsInv, PotsTypeOK
<1>1. S # r /\ S # c
  <2>1. \A d \in {r, c} : Sepset({r, c}) # d BY <1>0 DEF NoneInside
  <2> QED BY <2>1
<1>2. S \in SUBSET Variables /\ c \in SUBSET Variables /\ S \in SUBSET c
  BY <1>0, EdgeScope
<1>3. /\ Full(Sent(r, c), S) /\ Full(old, S) /\ Full(pot[c], c)
      /\ \A x : Valued(r, x) =>
           At(Received(r, c), x) = IF S = {} \/ S = r THEN At(pot[r], x)
                                   ELSE Times(Ratio(At(Sent(r, c), x), At(old, x)), At(pot[r], x))
      /\ S # {} /\ S # c =>
           \A x : Valued(c, x) => (At(Sent(r, c), x) = Zero => At(pot[c], x) = Zero)
  BY <1>0, SendAt DEF DataInv
<1>4. ASSUME NEW x, Valued(S, x)
      PROVE  At(Sent(r, c), x) \in Number /\ At(old, x) \in Number
  <2> HIDE DEF S, old
  <2> QED BY <1>2, <1>3, <1>4, FullAt
<1>5. ASSUME NEW x, Valued(S, x), At(old, x) = Zero PROVE At(Sent(r, c), x) = Zero
  <2>1. old.vbls = S
    <3>1. Full(old, S) BY <1>3
    <3> HIDE DEF S, old
    <3> QED BY <3>1 DEF Full, Shaped
  <2>2. ASSUME NEW y, Valued(c, y), Place(S, y) = Place(S, x) PROVE At(pot[c], y) = Zero
    <3>1. At(old, y) = At(old, x) BY <2>1, <2>2 DEF At
    <3>2. c \in {r, c} OBVIOUS
    <3> QED BY <1>0, <1>5, <2>2, <3>1, <3>2 DEF ZerosShared
  <2> DEFINE p == pot[c]
  <2>3. Full(p, c) /\ \A y : Valued(c, y) /\ Place(S, y) = Place(S, x) => At(p, y) = Zero
    BY <1>3, <2>2
  <2>4. S # {} OBVIOUS
  <2> HIDE DEF S, p
  <2>5. At(SumMarginTabular(p, ComputeMulInd(S, c)), x) = Zero
    BY <1>2, <1>5, <2>3, <2>4, MarginOfZeros
  <2> QED BY <2>5 DEF Sent, S, p
<1> QED BY <1>1, <1>3, <1>4, <1>5

LEMMA SendJointInv ==
  ASSUME NoneInside, ~ Log, JointInv, NEW r \in Clique, NEW c \in Clique, Send(r, c)
  PROVE  JointInv'
<1> DEFINE e == {r, c}
           S == Sepset(e)
<1>1. DataInv /\ TableInv /\ DOMAIN pot = Clique /\ DOMAIN sepPot = tree
      /\ IsTree(Clique, tree) /\ ZerosShared
  BY TreeOfTables DEF JointInv, DataInv, TableInv
<1>2. DataInv' BY <1>1, DataInvKept DEF NextTables
<1>3. /\ e \in tree
      /\ pot' = [pot EXCEPT ![r] = Received(r, c)]
      /\ sepPot' = [sepPot EXCEPT ![e] = Sent(r, c)]
  BY <1>1, SendIs
<1>4. /\ tree' = tree /\ tables' = tables /\ next' = next
      /\ Carrying' = Carrying /\ (\A f : Sepset(f)' = Sepset(f)) /\ Multiplied' = Multiplied
  BY DEF Send, MessagePass, Carrying, Sepset, Multiplied
<1>5. /\ pot'[r] = Received(r, c) /\ \A d \in Clique \ {r} : pot'[d] = pot[d]
      /\ sepPot'[e] = Sent(r, c) /\ \A f \in tree \ {e} : sepPot'[f] = sepPot[f]
  BY <1>1, <1>3
<1>6. /\ r # c /\ r \in SUBSET Variables
      /\ S \in SUBSET Variables /\ S \in SUBSET r /\ S \in SUBSET c
  <2>1. S \in SUBSET Variables /\ S \in SUBSET r /\ S \in SUBSET c /\ r \in SUBSET Variables
    BY <1>1, <1>3, EdgeScope
  <2>2. e \in Edges(Clique) BY <1>1, <1>3 DEF IsTree
  <2>3. r # c BY <2>2 DEF Edges
  <2> QED BY <2>1, <2>3
<1>7. CASE S = {}
  <2>1. \A x : Valued(r, x) => At(Received(r, c), x) = At(pot[r], x) BY <1>1, <1>3, <1>7, SendAt
  <2>2. \A d \in Clique : \A x : Valued(d, x) => At(pot'[d], x) = At(pot[d], x) BY <1>5, <2>1
  <2>3. \A f \in tree : Sepset(f) # {} => sepPot'[f] = sepPot[f] BY <1>5, <1>7
  <2>4. ZerosShared'
    <3> SUFFICES ASSUME NEW f \in tree, Sepset(f) # {}, NEW d \in f, NEW x, Valued(d, x),
                        At(sepPot'[f], x) = Zero
                 PROVE  At(pot'[d], x) = Zero
      BY <1>4 DEF ZerosShared
    <3>1. d \in Clique BY <1>1, EdgeScope
    <3>2. At(sepPot[f], x) = Zero BY <2>3
    <3> QED BY <1>1, <2>2, <3>1, <3>2 DEF ZerosShared
  <2>5. ASSUME NEW x, Valued(Variables, x)
        PROVE  CliqueProduct(x)' = Times(JointOf(Multiplied, x)', SepProduct(x)')
    <3>1. \A d \in Clique : Valued(d, x) BY <1>1, <2>5, Factors
    <3>2. [d \in Clique |-> At(pot'[d], x)] = [d \in Clique |-> At(pot[d], x)] BY <2>2, <3>1
    <3>3. [f \in Carrying |-> At(sepPot'[f], x)] = [f \in Carrying |-> At(sepPot[f], x)]
      BY <2>3 DEF Carrying
    <3>4. CliqueProduct(x)' = CliqueProduct(x) BY <3>2 DEF CliqueProduct
    <3>5. SepProduct(x)' = SepProduct(x) BY <1>4, <3>3 DEF SepProduct
    <3>6. JointOf(Multiplied, x)' = JointOf(Multiplied, x) BY <1>4 DEF JointOf
    <3> QED BY <2>5, <3>4, <3>5, <3>6 DEF JointInv
  <2> QED BY <1>2, <2>4, <2>5 DEF JointInv
<1>8. CASE S # {}
  <2>1. /\ \A x : Valued(S, x) =>
             At(Sent(r, c), x) \in Number /\ At(sepPot[e], x) \in Number
             /\ (At(sepPot[e], x) = Zero => At(Sent(r, c), x) = Zero)
        /\ \A x : Valued(r, x) =>
             At(Received(r, c), x)
               = Times(Ratio(At(Sent(r, c), x), At(sepPot[e], x)), At(pot[r], x))
        /\ \A x : Valued(c, x) => (At(Sent(r, c), x) = Zero => At(pot[c], x) = Zero)
    BY <1>3, <1>8, SendEntries
  <2>2. ASSUME NEW x, Valued(r, x)
        PROVE  LET m == At(Sent(r, c), x)
                   o == At(sepPot[e], x)
               IN /\ m \in Number /\ o \in Number /\ Ratio(m, o) \in Number
                  /\ At(pot[r], x) \in Number
                  /\ (o = Zero => m = Zero /\ At(pot[r], x) = Zero)
                  /\ At(pot'[r], x) = Times(Ratio(m, o), At(pot[r], x))
    <3> DEFINE m == At(Sent(r, c), x)
               o == At(sepPot[e], x)
    <3>1. Valued(S, x) BY <1>6, <2>2 DEF Valued
    <3>2. m \in Number /\ o \in Number /\ (o = Zero => m = Zero) BY <2>1, <3>1
    <3>3. Full(pot[r], r) BY <1>1 DEF DataInv
    <3>4. At(pot[r], x) \in Number BY <1>6, <2>2, <3>3, FullAt
    <3>5. o = Zero => At(pot[r], x) = Zero
      <4>1. r \in e OBVIOUS
      <4> QED BY <1>1, <1>3, <1>8, <2>2, <4>1 DEF ZerosShared
    <3>6. At(pot'[r], x) = Times(Ratio(m, o), At(pot[r], x)) BY <1>5, <2>1, <2>2
    <3> HIDE DEF m, o
    <3>7. Ratio(m, o) \in Number BY <3>2, RatioIsNumber
    <3> QED BY <3>2, <3>4, <3>5, <3>6, <3>7 DEF m, o
  <2>3. ZerosShared'
    <3> SUFFICES ASSUME NEW f \in tree, Sepset(f) # {}, NEW d \in f, NEW x, Valued(d, x),
                        At(sepPot'[f], x) = Zero
                 PROVE  At(pot'[d], x) = Zero
      BY <1>4 DEF ZerosShared
    <3>1. d \in Clique BY <1>1, EdgeScope
    <3>2. CASE d = r
      <4> DEFINE m == At(Sent(r, c), x)
                 o == At(sepPot[e], x)
                 a == At(pot[r], x)
      <4>1. /\ m \in Number /\ o \in Number /\ Ratio(m, o) \in Number /\ a \in Number
            /\ (o = Zero => m = Zero)
            /\ At(pot'[r], x) = Times(Ratio(m, o), a)
        BY <2>2, <3>2
      <4>2. CASE f = e
        <5>1. m = Zero BY <1>5, <4>2
        <5> HIDE DEF m, o, a
        <5>2. CASE o = Zero
          <6>1. Ratio(m, o) = Zero BY <5>2 DEF Ratio
          <6> QED BY <3>2, <4>1, <6>1, TimesLaws, ZeroStands
        <5>3. CASE o # Zero
          <6>1. Ratio(m, o) = Over(m, o) BY <5>3 DEF Ratio
          <6>2. Over(m, o) \in Number /\ Times(Over(m, o), o) = Zero BY <4>1, <5>1, <5>3, OverLaws
          <6>3. Ratio(m, o) = Zero BY <4>1, <5>3, <6>1, <6>2, TimesLaws
          <6> QED BY <3>2, <4>1, <6>3, TimesLaws, ZeroStands
        <5> QED BY <5>2, <5>3
      <4>3. CASE f # e
        <5>1. At(sepPot[f], x) = Zero BY <1>5, <4>3
        <5>2. a = Zero BY <1>1, <3>2, <5>1 DEF ZerosShared
        <5> HIDE DEF m, o, a
        <5> QED BY <3>2, <4>1, <5>2, TimesLaws, ZeroStands
      <4> QED BY <4>2, <4>3
    <3>3. CASE d # r
      <4>1. pot'[d] = pot[d] BY <1>5, <3>1, <3>3
      <4>2. CASE f = e
        <5>1. d = c BY <3>3, <4>2
        <5>2. At(Sent(r, c), x) = Zero BY <1>5, <4>2
        <5> QED BY <2>1, <4>1, <5>1, <5>2
      <4>3. CASE f # e
        <5>1. At(sepPot[f], x) = Zero BY <1>5, <4>3
        <5> QED BY <1>1, <4>1, <5>1 DEF ZerosShared
      <4> QED BY <4>2, <4>3
    <3> QED BY <3>2, <3>3
  <2>4. ASSUME NEW x, Valued(Variables, x)
        PROVE  CliqueProduct(x)' = Times(JointOf(Multiplied, x)', SepProduct(x)')
    <3> DEFINE m == At(Sent(r, c), x)
               o == At(sepPot[e], x)
               a == At(pot[r], x)
               f == [d \in Clique |-> At(pot[d], x)]
               g == [d \in Clique |-> At(pot'[d], x)]
               s == [b \in Carrying |-> At(sepPot[b], x)]
               z == [b \in Carrying |-> At(sepPot'[b], x)]
               J == JointOf(Multiplied, x)
    <3>0. /\ \A d \in Clique : Valued(d, x) /\ f[d] \in Number
          /\ \A b \in Carrying : s[b] \in Number
      BY <1>1, <2>4, Factors
    <3>1. /\ m \in Number /\ o \in Number /\ Ratio(m, o) \in Number /\ a \in Number
          /\ (o = Zero => m = Zero /\ a = Zero)
          /\ At(pot'[r], x) = Times(Ratio(m, o), a)
      BY <2>2, <3>0
    <3>2. CliqueProduct(x)' = Times(Ratio(m, o), CliqueProduct(x))
      <4>1. f[r] = a /\ g[r] = At(pot'[r], x) OBVIOUS
      <4>2. \A d \in Clique \ {r} : g[d] = f[d] BY <1>5
      <4>3. \A d \in Clique : f[d] \in Number BY <3>0
      <4> HIDE DEF f, g, m, o, a
      <4>4. ProductOf(g, Clique) = Times(Ratio(m, o), ProductOf(f, Clique))
        BY <3>1, <4>1, <4>2, <4>3, CliqueAssumption, ProductScaled
      <4> QED BY <4>4 DEF CliqueProduct, f, g
    <3>3. PICK rest \in Number : SepProduct(x) = Times(o, rest) /\ SepProduct(x)' = Times(m, rest)
      <4>1. e \in Carrying BY <1>3, <1>8 DEF Carrying
      <4>2. s[e] = o /\ z[e] = m BY <1>5, <4>1
      <4>3. \A b \in Carrying \ {e} : z[b] = s[b] BY <1>5 DEF Carrying
      <4>4. \A b \in Carrying : s[b] \in Number /\ z[b] \in Number
        <5>1. \A b \in Carrying : s[b] \in Number BY <3>0
        <5> HIDE DEF s, z, m, o
        <5> QED BY <3>1, <4>2, <4>3, <5>1
      <4>5. IsFiniteSet(Carrying) BY <1>1, TreeFinite
      <4>6. SepProduct(x) = ProductOf(s, Carrying) BY DEF SepProduct
      <4>7. SepProduct(x)' = ProductOf(z, Carrying) BY <1>4 DEF SepProduct
      <4> HIDE DEF s, z, m, o, e
      <4>8. \E rest \in Number : ProductOf(s, Carrying) = Times(s[e], rest)
                                 /\ ProductOf(z, Carrying) = Times(z[e], rest)
        BY <4>1, <4>3, <4>4, <4>5, ProductReplaced
      <4> QED BY <4>2, <4>6, <4>7, <4>8
    <3>4. J \in Number /\ CliqueProduct(x) = Times(J, Times(o, rest))
      <4>1. J \in Number BY <1>1, <2>4, Products
      <4>2. CliqueProduct(x) = Times(J, SepProduct(x)) BY <2>4 DEF JointInv
      <4> HIDE DEF J
      <4> QED BY <3>3, <4>1, <4>2
    <3>5. JointOf(Multiplied, x)' = J BY <1>4 DEF JointOf
    <3> DEFINE q == Ratio(m, o)
    <3>6. Times(q, Times(J, Times(o, rest))) = Times(J, Times(m, rest))
      <4>0. q \in Number BY <3>1
      <4>1. CASE o = Zero
        <5>1. q = Zero BY <4>1 DEF Ratio
        <5> HIDE DEF m, o, J, q
        <5>2. Times(o, rest) \in Number /\ Times(J, Times(o, rest)) \in Number
          BY <3>1, <3>4, TimesLaws
        <5>3. Times(q, Times(J, Times(o, rest))) = Zero BY <5>1, <5>2, TimesLaws, ZeroStands
        <5>4. Times(m, rest) = Zero BY <3>1, <4>1, TimesLaws, ZeroStands
        <5> QED BY <3>4, <5>3, <5>4, TimesLaws, ZeroStands
      <4>2. CASE o # Zero
        <5>1. q = Over(m, o) BY <4>2 DEF Ratio
        <5> HIDE DEF m, o, J, q
        <5>2. Times(q, o) = m BY <3>1, <4>2, <5>1, OverLaws
        <5>3. Times(o, rest) \in Number BY <3>1, TimesLaws
        <5>4. Times(q, Times(J, Times(o, rest))) = Times(Times(J, q), Times(o, rest))
          BY <3>4, <4>0, <5>3, TimesAssociates, TimesLaws
        <5>5. Times(Times(J, q), Times(o, rest)) = Times(J, Times(q, Times(o, rest)))
          BY <3>4, <4>0, <5>3, TimesAssociates
        <5>6. Times(q, Times(o, rest)) = Times(Times(q, o), rest)
          BY <3>1, <4>0, TimesAssociates
        <5> QED BY <5>2, <5>4, <5>5, <5>6
      <4> QED BY <4>1, <4>2
    <3> QED BY <3>2, <3>3, <3>4, <3>5, <3>6
  <2> QED BY <1>2, <2>3, <2>4 DEF JointInv
<1> QED BY <1>7, <1>8

LEMMA JointInvKept == NoneInside /\ ~ Log /\ JointInv /\ [NextTables]_tableVars => JointInv'
<1> SUFFICES ASSUME NoneInside, ~ Log, JointInv, [NextTables]_tableVars PROVE JointInv'
  OBVIOUS
<1>1. CASE NextTables BY <1>1, MultiplyJointInv, SendJointInv DEF NextTables
<1>2. CASE UNCHANGED tableVars
  <2>1. DataInv' BY DataInvKept DEF JointInv
  <2>2. ZerosShared' BY <1>2 DEF JointInv, ZerosShared, tableVars, potVars, Sepset
  <2>3. \A x : /\ CliqueProduct(x)' = CliqueProduct(x) /\ SepProduct(x)' = SepProduct(x)
               /\ JointOf(Multiplied, x)' = JointOf(Multiplied, x)
    BY <1>2 DEF CliqueProduct, SepProduct, JointOf, Multiplied, Carrying, tableVars, potVars, Sepset
  <2> QED BY <2>1, <2>2, <2>3 DEF JointInv
<1> QED BY <1>1, <1>2

(***************************************************************************)
(* "The charge over the junction tree" in numbers: whatever messages have  *)
(* been sent, in whatever order and however often, the product of the      *)
(* cliques' entries is that of the CPTs and observations times that of the *)
(* separators, with zeros among them; the division by an old separator     *)
(* that is 0 loses nothing.  Not for the log variants, and not where a     *)
(* clique lies inside a neighbour.                                         *)
(***************************************************************************)
THEOREM JointStays == NoneInside /\ ~ Log => (SpecTables => []JointKept)
<1>1. ASSUME NEW x \in Assignments[Variables] PROVE Valued(Variables, x)
  <2>1. /\ x \in [Variables -> UNION {0 .. Card[v] - 1 : v \in Variables}]
        /\ \A v \in Variables : x[v] < Card[v]
    BY DEF Assignments
  <2> SUFFICES ASSUME NEW v \in Variables PROVE x[v] \in 0 .. Card[v] - 1
    BY DEF Valued
  <2>2. PICK w \in Variables : x[v] \in 0 .. Card[w] - 1 BY <2>1
  <2>3. Card[v] \in Nat /\ Card[w] \in Nat /\ x[v] < Card[v] BY <2>1, CardFacts
  <2> QED BY <2>2, <2>3
<1>2. JointInv => JointKept
  BY <1>1 DEF JointInv, JointKept, CliqueProduct, SepProduct
<1>3. ASSUME NoneInside, ~ Log PROVE SpecTables => []JointKept
  <2>1. JointInv /\ [NextTables]_tableVars => JointInv' BY <1>3, JointInvKept
  <2> QED BY <1>2, <2>1, InitJointInv, PTL DEF SpecTables
<1> QED BY <1>3

(***************************************************************************)
(* Sums over all values of variables.                                      *)
(***************************************************************************)
LEMMA AssignmentsAre ==
  ASSUME NEW S \in SUBSET Variables
  PROVE  /\ \A x : x \in Assignments[S] <=> x \in [S -> Nat] /\ Valued(S, x)
         /\ IsFiniteSet(Assignments[S])
<1>1. Assignments[S] = {x \in [S -> UNION {0 .. Card[v] - 1 : v \in S}] :
                          \A v \in S : x[v] < Card[v]}
  BY DEF Assignments
<1>2. \A v \in S : Card[v] \in Nat BY CardFacts
<1>3. ASSUME NEW x \in Assignments[S] PROVE x \in [S -> Nat] /\ Valued(S, x)
  <2>1. x \in [S -> UNION {0 .. Card[v] - 1 : v \in S}] /\ \A v \in S : x[v] < Card[v]
    BY <1>1, <1>3
  <2>2. ASSUME NEW v \in S PROVE x[v] \in Nat /\ x[v] < Card[v]
    <3>1. PICK w \in S : x[v] \in 0 .. Card[w] - 1 BY <2>1
    <3> QED BY <1>2, <2>1, <3>1
  <2>3. x = [v \in S |-> x[v]] BY <2>1
  <2> QED BY <1>2, <2>2, <2>3 DEF Valued
<1>4. ASSUME NEW x \in [S -> Nat], Valued(S, x) PROVE x \in Assignments[S]
  <2>1. \A v \in S : x[v] \in 0 .. Card[v] - 1 BY <1>4 DEF Valued
  <2>2. \A v \in S : x[v] < Card[v] BY <1>2, <2>1
  <2>3. x \in [S -> UNION {0 .. Card[v] - 1 : v \in S}] BY <2>1
  <2> QED BY <1>1, <2>2, <2>3
<1>5. IsFiniteSet(Assignments[S])
  <2> DEFINE D == 0 .. GetCardinality(S) - 1
             f == [x \in Assignments[S] |-> Place(S, x)]
  <2>1. f \in [Assignments[S] -> D] BY <1>3, PlaceBound
  <2>2. ASSUME NEW x \in Assignments[S], NEW y \in Assignments[S], f[x] = f[y] PROVE x = y
    <3>1. Valued(S, x) /\ Valued(S, y) /\ x \in [S -> Nat] /\ y \in [S -> Nat] BY <1>3
    <3>2. Place(S, x) = Place(S, y) BY <2>2
    <3>3. \A v \in S : x[v] = y[v] BY <3>1, <3>2, PlaceOnce
    <3> QED BY <3>1, <3>3
  <2>3. f \in Injection(Assignments[S], D)
    <3>1. DOMAIN f = Assignments[S] OBVIOUS
    <3> HIDE DEF f
    <3> QED BY <2>1, <2>2, <3>1 DEF Injection, IsInjective
  <2>4. IsFiniteSet(D)
    <3>1. GetCardinality(S) \in Nat BY CardinalityLaws
    <3> QED BY <3>1, FS_Interval
  <2> HIDE DEF D, f
  <2> QED BY <2>3, <2>4, FS_Injection
<1> QED BY <1>3, <1>4, <1>5

LEMMA SumOfSame ==
  ASSUME NEW S, IsFiniteSet(S), NEW f, NEW g, \A y \in S : f[y] \in Number /\ g[y] = f[y]
  PROVE  SumOf(g, S) = SumOf(f, S)
<1>1. Monoid(Number, PlusFunction) /\ Zero \in Number BY Adds, ZeroStands
<1>2. Total(Number, PlusFunction, Zero, g, S) = Total(Number, PlusFunction, Zero, f, S)
  BY <1>1, TotalSame
<1>3. \A y \in S : g[y] \in Number OBVIOUS
<1> QED BY <1>2, <1>3, SumIsTotal

\* A common factor comes out of a sum.
LEMMA SumOfScaled ==
  ASSUME NEW S, IsFiniteSet(S), NEW a \in Number, NEW f, NEW g,
         \A y \in S : f[y] \in Number /\ g[y] = Times(a, f[y])
  PROVE  SumOf(g, S) = Times(a, SumOf(f, S))
<1> DEFINE Q == {R \in SUBSET S : SumOf(g, R) = Times(a, SumOf(f, R))}
<1>1. ASSUME NEW R \in SUBSET S, \A y \in R : R \ {y} \in Q PROVE R \in Q
  <2>0. /\ IsFiniteSet(R) /\ \A y \in R : f[y] \in Number
        /\ \A y \in R : g[y] \in Number
    BY FS_Subset, TimesLaws
  <2>1. CASE R = {}
    <3>1. SumOf(g, R) = Zero /\ SumOf(f, R) = Zero BY <2>0, <2>1, SumOfLaws
    <3> QED BY <3>1, TimesLaws, ZeroStands
  <2>2. CASE R # {}
    <3>1. PICK y \in R : TRUE BY <2>2
    <3>2. /\ SumOf(g, R) = Plus(g[y], SumOf(g, R \ {y}))
          /\ SumOf(f, R) = Plus(f[y], SumOf(f, R \ {y})) /\ SumOf(f, R \ {y}) \in Number
      BY <2>0, SumOfLaws
    <3>3. SumOf(g, R \ {y}) = Times(a, SumOf(f, R \ {y})) BY <1>1
    <3>4. g[y] = Times(a, f[y]) /\ f[y] \in Number OBVIOUS
    <3> QED BY <3>2, <3>3, <3>4, Distributes
  <2> QED BY <2>1, <2>2
<1>2. \A R \in SUBSET S : R \in Q
  <2> HIDE DEF Q
  <2> QED BY <1>1, FiniteInduction
<1> QED BY <1>2

LEMMA SumOfOne ==
  ASSUME NEW y, NEW f, f[y] \in Number
  PROVE  SumOf(f, {y}) = f[y]
<1>1. IsFiniteSet({y}) /\ IsFiniteSet({}) BY FS_EmptySet, FS_Singleton
<1>2. SumOf(f, {y}) = Plus(f[y], SumOf(f, {y} \ {y})) BY <1>1, SumOfLaws
<1>3. {y} \ {y} = {} OBVIOUS
<1>4. SumOf(f, {}) = Zero BY <1>1, SumOfLaws
<1> QED BY <1>2, <1>3, <1>4, PlusLaws, ZeroStands

\* Renaming what is summed over.
LEMMA SumOfReordered ==
  ASSUME NEW S, IsFiniteSet(S), NEW f, NEW F, \A x, y \in S : F[x] = F[y] => x = y,
         NEW h, \A x \in S : h[x] \in Number /\ f[F[x]] = h[x]
  PROVE  SumOf(h, S) = SumOf(f, {F[x] : x \in S})
<1> DEFINE I == {F[x] : x \in S}
<1>1. Monoid(Number, PlusFunction) /\ Zero \in Number BY Adds, ZeroStands
<1>2. Total(Number, PlusFunction, Zero, h, S) = Total(Number, PlusFunction, Zero, f, I)
  BY <1>1, TotalReordered
<1>3. IsFiniteSet(I) /\ \A y \in I : f[y] \in Number
  <2>1. [x \in S |-> F[x]] \in Surjection(S, I) BY DEF Surjection
  <2>2. IsFiniteSet(I)
    <3> HIDE DEF I
    <3> QED BY <2>1, FS_Surjection
  <2> QED BY <2>2
<1>4. SumOf(f, I) = Total(Number, PlusFunction, Zero, f, I)
  <2> HIDE DEF I
  <2> QED BY <1>3, SumIsTotal
<1> QED BY <1>2, <1>4, SumIsTotal

\* The values of P and R together.
Merge(P, R, y, z) == [v \in P \cup R |-> IF v \in P THEN y[v] ELSE z[v]]
Row(f, P, R, y) == [z \in Assignments[R] |-> f[Merge(P, R, y, z)]]

LEMMA MergeLaws ==
  ASSUME NEW P \in SUBSET Variables, NEW R \in SUBSET Variables, P \cap R = {}
  PROVE  /\ \A y \in Assignments[P], z \in Assignments[R] :
              Merge(P, R, y, z) \in Assignments[P \cup R]
         /\ \A y1, y2 \in Assignments[P], z1, z2 \in Assignments[R] :
              Merge(P, R, y1, z1) = Merge(P, R, y2, z2) => y1 = y2 /\ z1 = z2
         /\ \A w \in Assignments[P \cup R] :
              \E y \in Assignments[P], z \in Assignments[R] : w = Merge(P, R, y, z)
<1>1. ASSUME NEW y \in Assignments[P], NEW z \in Assignments[R]
      PROVE  Merge(P, R, y, z) \in Assignments[P \cup R]
  <2> DEFINE w == Merge(P, R, y, z)
  <2>1. y \in [P -> Nat] /\ Valued(P, y) /\ z \in [R -> Nat] /\ Valued(R, z)
    BY AssignmentsAre
  <2>2. w \in [P \cup R -> Nat] BY <2>1 DEF Merge
  <2>3. Valued(P \cup R, w) BY <2>1 DEF Valued, Merge
  <2> HIDE DEF w
  <2>4. P \cup R \in SUBSET Variables OBVIOUS
  <2>5. w \in Assignments[P \cup R] BY <2>2, <2>3, <2>4, AssignmentsAre
  <2> QED BY <2>5 DEF w
<1>2. ASSUME NEW y1 \in Assignments[P], NEW y2 \in Assignments[P],
             NEW z1 \in Assignments[R], NEW z2 \in Assignments[R],
             Merge(P, R, y1, z1) = Merge(P, R, y2, z2)
      PROVE  y1 = y2 /\ z1 = z2
  <2>1. y1 \in [P -> Nat] /\ y2 \in [P -> Nat] /\ z1 \in [R -> Nat] /\ z2 \in [R -> Nat]
    BY AssignmentsAre
  <2>2. ASSUME NEW v \in P PROVE y1[v] = y2[v]
    <3>1. Merge(P, R, y1, z1)[v] = y1[v] /\ Merge(P, R, y2, z2)[v] = y2[v] BY DEF Merge
    <3> QED BY <1>2, <3>1
  <2>3. ASSUME NEW v \in R PROVE z1[v] = z2[v]
    <3>1. Merge(P, R, y1, z1)[v] = z1[v] /\ Merge(P, R, y2, z2)[v] = z2[v] BY DEF Merge
    <3> QED BY <1>2, <3>1
  <2> QED BY <2>1, <2>2, <2>3
<1>3. ASSUME NEW w \in Assignments[P \cup R]
      PROVE  \E y \in Assignments[P], z \in Assignments[R] : w = Merge(P, R, y, z)
  <2> DEFINE y == [v \in P |-> w[v]]
             z == [v \in R |-> w[v]]
  <2>0. P \cup R \in SUBSET Variables OBVIOUS
  <2>1. w \in [P \cup R -> Nat] /\ Valued(P \cup R, w) BY <2>0, AssignmentsAre
  <2>2. y \in [P -> Nat] /\ Valued(P, y) BY <2>1 DEF Valued
  <2>3. z \in [R -> Nat] /\ Valued(R, z) BY <2>1 DEF Valued
  <2>4. w = Merge(P, R, y, z) BY <2>1 DEF Merge
  <2> HIDE DEF y, z
  <2>5. y \in Assignments[P] /\ z \in Assignments[R] BY <2>2, <2>3, AssignmentsAre
  <2> QED BY <2>4, <2>5
<1> QED BY <1>1, <1>2, <1>3

LEMMA SumTwice ==
  ASSUME NEW P \in SUBSET Variables, NEW R \in SUBSET Variables, P \cap R = {},
         NEW f, \A w \in Assignments[P \cup R] : f[w] \in Number
  PROVE  /\ \A y \in Assignments[P] : SumOf(Row(f, P, R, y), Assignments[R]) \in Number
         /\ SumOf(f, Assignments[P \cup R])
              = SumOf([y \in Assignments[P] |-> SumOf(Row(f, P, R, y), Assignments[R])],
                      Assignments[P])
<1> DEFINE J == Assignments[P]
           K == Assignments[R]
           W == Assignments[P \cup R]
           G(y, z) == Merge(P, R, y, z)
           sum(g, S) == Total(Number, PlusFunction, Zero, g, S)
           part == [y \in J |-> {G(y, z) : z \in K}]
           rows == [y \in J |-> SumOf(Row(f, P, R, y), K)]
<1>0. /\ Monoid(Number, PlusFunction) /\ Zero \in Number /\ Unit(Number, PlusFunction, Zero)
      /\ IsFiniteSet(J) /\ IsFiniteSet(K) /\ IsFiniteSet(W)
  <2>1. P \cup R \in SUBSET Variables OBVIOUS
  <2> QED BY <2>1, Adds, ZeroStands, AssignmentsAre
<1>a. \A y \in J, z \in K : G(y, z) \in W BY MergeLaws
<1>b. \A y1, y2 \in J, z1, z2 \in K : G(y1, z1) = G(y2, z2) => y1 = y2 /\ z1 = z2
  BY MergeLaws
<1>c. \A w \in W : \E y \in J, z \in K : w = G(y, z) BY MergeLaws
<1>d. \A y \in J, z \in K : Row(f, P, R, y)[z] = f[G(y, z)] BY DEF Row
<1>e. \A w \in W : f[w] \in Number OBVIOUS
<1> HIDE DEF G, W, J, K
<1>1. ASSUME NEW y \in J
      PROVE  /\ IsFiniteSet(part[y]) /\ \A w \in part[y] : f[w] \in Number
             /\ rows[y] = SumOf(f, part[y]) /\ rows[y] \in Number
  <2> DEFINE F == [z \in K |-> G(y, z)]
             h == Row(f, P, R, y)
             I == {F[z] : z \in K}
  <2>1. \A z \in K : h[z] \in Number /\ f[F[z]] = h[z]
    <3>1. ASSUME NEW z \in K PROVE h[z] \in Number /\ f[F[z]] = h[z]
      <4>1. G(y, z) \in W /\ h[z] = f[G(y, z)] BY <1>a, <1>d
      <4>2. f[G(y, z)] \in Number BY <4>1, <1>e
      <4> QED BY <4>1, <4>2
    <3> QED BY <3>1
  <2>2. \A z1, z2 \in K : F[z1] = F[z2] => z1 = z2 BY <1>b
  <2>3. part[y] = I OBVIOUS
  <2>4. F \in Surjection(K, I) BY DEF Surjection
  <2>5. \A w \in I : f[w] \in Number BY <2>1
  <2>6. rows[y] = SumOf(h, K) OBVIOUS
  <2> HIDE DEF F, h, part, rows
  <2>7. SumOf(h, K) = SumOf(f, I) /\ SumOf(h, K) \in Number
    BY <1>0, <2>1, <2>2, SumOfReordered, SumOfLaws
  <2>8. IsFiniteSet(I)
    <3> HIDE DEF I
    <3> QED BY <1>0, <2>4, FS_Surjection
  <2> QED BY <2>3, <2>5, <2>6, <2>7, <2>8
<1>2. ASSUME NEW y1 \in J, NEW y2 \in J, y1 # y2 PROVE part[y1] \cap part[y2] = {}
  <2>1. ASSUME NEW z1 \in K, NEW z2 \in K PROVE G(y1, z1) # G(y2, z2) BY <1>2, <1>b
  <2> QED BY <2>1
<1>3. UNION {part[y] : y \in J} = W
  <2>1. ASSUME NEW y \in J PROVE part[y] \subseteq W BY <1>a
  <2>2. ASSUME NEW w \in W PROVE \E y \in J : w \in part[y]
    <3>1. PICK y \in J, z \in K : w = G(y, z) BY <1>c
    <3> QED BY <3>1
  <2> HIDE DEF part
  <2> QED BY <2>1, <2>2
<1>4. \A y \in J : rows[y] \in Number BY <1>1
<1>5. ASSUME NEW y \in J PROVE rows[y] = sum(f, part[y])
  <2> HIDE DEF rows, part
  <2> QED BY <1>1, <1>5, SumIsTotal
<1> DEFINE all == UNION {part[y] : y \in J}
<1> HIDE DEF rows, part
<1>6. sum(f, all) = sum(rows, J) BY <1>0, <1>1, <1>2, <1>5, TotalParts
<1>7. SumOf(rows, J) = sum(rows, J) BY <1>0, <1>4, SumIsTotal
<1>8. SumOf(f, all) = sum(f, all)
  <2>1. all = W BY <1>3
  <2> HIDE DEF all
  <2> QED BY <2>1, <1>0, <1>e, SumIsTotal
<1>9. SumOf(f, W) = SumOf(rows, J) BY <1>3, <1>6, <1>7, <1>8
<1> QED BY <1>4, <1>9 DEF rows, J, K, W

(***************************************************************************)
(* The product of the tables that some cliques took.                       *)
(***************************************************************************)
Made(cs, x) == JointOf(TablesOf(cs), x)

LEMMA TablesOfLaws ==
  ASSUME DataInv, NEW cs \in SUBSET Clique
  PROVE  /\ TablesOf(cs) = {i \in Multiplied : Host(tables[i]) \in cs}
         /\ IsFiniteSet(TablesOf(cs))
         /\ \A i \in TablesOf(cs) :
              Tabulated(tables[i]) /\ tables[i].vbls \in SUBSET UNION cs
<1>1. next \in 1 .. Len(tables) + 1 /\ Len(tables) \in Nat /\ tables \in Networks
  BY NetworksAssumption DEF DataInv, TableInv
<1>2. IsFiniteSet(Multiplied) /\ Multiplied \subseteq 1 .. Len(tables)
  <2>1. next - 1 \in Nat /\ next - 1 <= Len(tables) BY <1>1
  <2>2. IsFiniteSet(1 .. next - 1) BY <2>1, FS_Interval
  <2> QED BY <1>1, <2>2 DEF Multiplied
<1>3. ASSUME NEW i \in Multiplied
      PROVE  /\ Tabulated(tables[i]) /\ Containing(tables[i].vbls) # {}
             /\ tables[i].vbls \subseteq Host(tables[i])
  <2> DEFINE t == tables[i]
  <2>1. Tabulated(t) BY <1>1, <1>2, NetworksAssumption
  <2>2. cliquePots \in Orders BY DEF DataInv
  <2> HIDE DEF t
  <2>3. Containing(t.vbls) # {} /\ t.vbls \subseteq Host(t) BY <2>1, <2>2, HostLaws
  <2> QED BY <2>1, <2>3 DEF t
<1>4. TablesOf(cs) = {i \in Multiplied : Host(tables[i]) \in cs}
  BY <1>3 DEF TablesOf, Host
<1>5. IsFiniteSet(TablesOf(cs)) BY <1>2, <1>4, FS_Subset
<1>6. ASSUME NEW i \in TablesOf(cs)
      PROVE  Tabulated(tables[i]) /\ tables[i].vbls \in SUBSET UNION cs
  <2>1. i \in Multiplied /\ Host(tables[i]) \in cs BY <1>4
  <2> QED BY <1>3, <2>1
<1> QED BY <1>4, <1>5, <1>6

LEMMA CliqueVariables == ASSUME NEW cs \in SUBSET Clique PROVE UNION cs \in SUBSET Variables
BY ScopeAssumption

LEMMA MadeLaws ==
  ASSUME DataInv, NEW cs \in SUBSET Clique, NEW x, Valued(UNION cs, x)
  PROVE  /\ \A i \in TablesOf(cs) : At(tables[i], x) \in Number
         /\ Made(cs, x) \in Number
         /\ \A y : (\A v \in UNION cs : y[v] = x[v]) => Made(cs, y) = Made(cs, x)
<1> DEFINE D == TablesOf(cs)
           f == [i \in D |-> At(tables[i], x)]
<1>1. IsFiniteSet(D) BY TablesOfLaws
<1>2. ASSUME NEW i \in D
      PROVE  /\ f[i] \in Number
             /\ \A y : (\A v \in UNION cs : y[v] = x[v]) => At(tables[i], y) = At(tables[i], x)
  <2> DEFINE t == tables[i]
  <2>1. Tabulated(t) /\ t.vbls \in SUBSET UNION cs BY TablesOfLaws
  <2>2. f[i] = At(t, x) OBVIOUS
  <2> HIDE DEF t, f, D
  <2>3. t.vbls \in SUBSET Variables /\ Full(t, t.vbls) BY <2>1, TabulatedFull
  <2>4. Valued(t.vbls, x) BY <2>1 DEF Valued
  <2>5. At(t, x) \in Number BY <2>3, <2>4, FullAt
  <2>6. ASSUME NEW y, \A v \in UNION cs : y[v] = x[v] PROVE At(t, y) = At(t, x)
    <3>1. \A v \in t.vbls : y[v] = x[v] BY <2>1, <2>6
    <3>2. Place(t.vbls, y) = Place(t.vbls, x) BY <2>3, <2>4, <3>1, PlaceSame
    <3> QED BY <3>2 DEF At
  <2> QED BY <2>2, <2>5, <2>6 DEF t
<1>3. \A i \in D : f[i] \in Number BY <1>2
<1>4. Made(cs, x) = ProductOf(f, D) BY DEF Made, JointOf
<1>5. ProductOf(f, D) \in Number
  <2> HIDE DEF f, D
  <2> QED BY <1>1, <1>3, ProductOfLaws
<1>6. ASSUME NEW y, \A v \in UNION cs : y[v] = x[v] PROVE Made(cs, y) = Made(cs, x)
  <2>1. [i \in D |-> At(tables[i], y)] = f BY <1>2, <1>6
  <2> QED BY <1>4, <2>1 DEF Made, JointOf
<1> QED BY <1>3, <1>4, <1>5, <1>6

LEMMA MadeApart ==
  ASSUME DataInv, NEW A \in SUBSET Clique, NEW B \in SUBSET Clique, A \cap B = {},
         NEW x, Valued(UNION (A \cup B), x)
  PROVE  Made(A \cup B, x) = Times(Made(A, x), Made(B, x))
<1> DEFINE D == TablesOf(A)
           E == TablesOf(B)
           f == [i \in D \cup E |-> At(tables[i], x)]
           product(g, S) == Total(Number, TimesFunction, One, g, S)
<1>0. A \cup B \in SUBSET Clique /\ Valued(UNION A, x) /\ Valued(UNION B, x) BY DEF Valued
<1>1. TablesOf(A \cup B) = D \cup E /\ D \cap E = {} BY <1>0, TablesOfLaws
<1>2. IsFiniteSet(D) /\ IsFiniteSet(E) BY TablesOfLaws
<1>3. \A i \in D \cup E : f[i] \in Number BY <1>0, MadeLaws
<1>4. Made(A \cup B, x) = ProductOf(f, D \cup E) BY <1>1 DEF Made, JointOf
<1>5. Made(A, x) = ProductOf([i \in D |-> f[i]], D)
  <2>1. [i \in D |-> f[i]] = [i \in D |-> At(tables[i], x)] OBVIOUS
  <2> QED BY <2>1 DEF Made, JointOf
<1>6. Made(B, x) = ProductOf([i \in E |-> f[i]], E)
  <2>1. [i \in E |-> f[i]] = [i \in E |-> At(tables[i], x)] OBVIOUS
  <2> QED BY <2>1 DEF Made, JointOf
<1> HIDE DEF D, E, f
<1>7. /\ ProductOf([i \in D |-> f[i]], D) = ProductOf(f, D)
      /\ ProductOf([i \in E |-> f[i]], E) = ProductOf(f, E)
  BY <1>2, <1>3, ProductSame
<1>8. /\ Monoid(Number, TimesFunction) /\ Unit(Number, TimesFunction, One) /\ One \in Number
  BY Multiplies, OneStands
<1>9. product(f, D \cup E) = Op(TimesFunction, product(f, D), product(f, E))
  BY <1>1, <1>2, <1>3, <1>8, TotalUnion
<1>10. /\ ProductOf(f, D) = product(f, D) /\ ProductOf(f, E) = product(f, E)
       /\ ProductOf(f, D \cup E) = product(f, D \cup E)
       /\ ProductOf(f, D) \in Number /\ ProductOf(f, E) \in Number
  <2>1. IsFiniteSet(D \cup E) BY <1>2, FS_Union
  <2> QED BY <1>2, <1>3, <2>1, ProductIsTotal, ProductOfLaws
<1>11. Op(TimesFunction, ProductOf(f, D), ProductOf(f, E))
         = Times(ProductOf(f, D), ProductOf(f, E))
  BY <1>10 DEF Op, TimesFunction
<1> QED BY <1>4, <1>5, <1>6, <1>7, <1>9, <1>10, <1>11

(***************************************************************************)
(* Margins of the product of some cliques' tables.                         *)
(***************************************************************************)
Joined(S, x, y) == [v \in Variables |-> IF v \in S THEN x[v] ELSE y[v]]
Rest(cs, S) == Assignments[(UNION cs) \ S]
Terms(cs, S, x) == [y \in Rest(cs, S) |-> Made(cs, Joined(S, x, y))]
Margin(cs, S, x) == SumOf(Terms(cs, S, x), Rest(cs, S))

LEMMA JoinedValued ==
  ASSUME NEW cs \in SUBSET Clique, NEW S \in SUBSET Variables, NEW x, Valued(S, x),
         NEW y \in Rest(cs, S)
  PROVE  Valued(UNION cs, Joined(S, x, y))
<1>1. UNION cs \in SUBSET Variables BY CliqueVariables
<1>2. Valued((UNION cs) \ S, y)
  <2> DEFINE R == (UNION cs) \ S
  <2>1. R \in SUBSET Variables /\ y \in Assignments[R] BY <1>1 DEF Rest
  <2> HIDE DEF R
  <2>2. Valued(R, y) BY <2>1, AssignmentsAre
  <2> QED BY <2>2 DEF R
<1>3. ASSUME NEW v \in UNION cs PROVE Joined(S, x, y)[v] \in 0 .. Card[v] - 1
  <2>1. Joined(S, x, y)[v] = IF v \in S THEN x[v] ELSE y[v] BY <1>1 DEF Joined
  <2> QED BY <1>2, <2>1 DEF Valued
<1> QED BY <1>3 DEF Valued

LEMMA RestFinite ==
  ASSUME NEW cs \in SUBSET Clique, NEW S
  PROVE  IsFiniteSet(Rest(cs, S))
<1> DEFINE R == (UNION cs) \ S
<1>1. R \in SUBSET Variables BY CliqueVariables
<1> HIDE DEF R
<1>2. IsFiniteSet(Assignments[R]) BY <1>1, AssignmentsAre
<1> QED BY <1>2 DEF Rest, R

LEMMA MarginIsNumber ==
  ASSUME DataInv, NEW cs \in SUBSET Clique, NEW S \in SUBSET Variables, NEW x, Valued(S, x)
  PROVE  /\ \A y \in Rest(cs, S) : Terms(cs, S, x)[y] \in Number
         /\ Margin(cs, S, x) \in Number
<1>1. ASSUME NEW y \in Rest(cs, S) PROVE Terms(cs, S, x)[y] \in Number
  <2>1. Valued(UNION cs, Joined(S, x, y)) BY JoinedValued
  <2>2. Made(cs, Joined(S, x, y)) \in Number BY <2>1, MadeLaws
  <2> QED BY <2>2 DEF Terms
<1>2. IsFiniteSet(Rest(cs, S)) BY RestFinite
<1>3. SumOf(Terms(cs, S, x), Rest(cs, S)) \in Number BY <1>1, <1>2, SumOfLaws
<1> QED BY <1>1, <1>3 DEF Margin

\* Only the values that the cliques' own variables have matter.
LEMMA MarginSame ==
  ASSUME DataInv, NEW cs \in SUBSET Clique,
         NEW S \in SUBSET Variables, NEW x, Valued(S, x), NEW T \in SUBSET Variables, NEW y,
         \A v \in UNION cs : (v \in S <=> v \in T) /\ (v \in S => y[v] = x[v])
  PROVE  Margin(cs, T, y) = Margin(cs, S, x)
<1>1. Rest(cs, T) = Rest(cs, S)
  <2>1. (UNION cs) \ T = (UNION cs) \ S OBVIOUS
  <2> QED BY <2>1 DEF Rest
<1>2. ASSUME NEW z \in Rest(cs, S) PROVE Terms(cs, T, y)[z] = Terms(cs, S, x)[z]
  <2>1. Valued(UNION cs, Joined(S, x, z)) BY JoinedValued
  <2>2. \A v \in UNION cs : Joined(T, y, z)[v] = Joined(S, x, z)[v]
    BY CliqueVariables DEF Joined
  <2>3. Made(cs, Joined(T, y, z)) = Made(cs, Joined(S, x, z)) BY <2>1, <2>2, MadeLaws
  <2> QED BY <1>1, <2>3 DEF Terms
<1>3. \A z \in Rest(cs, S) : Terms(cs, S, x)[z] \in Number BY MarginIsNumber
<1>4. IsFiniteSet(Rest(cs, S)) BY RestFinite
<1>5. SumOf(Terms(cs, T, y), Rest(cs, S)) = SumOf(Terms(cs, S, x), Rest(cs, S))
  BY <1>2, <1>3, <1>4, SumOfSame
<1> QED BY <1>1, <1>5 DEF Margin

\* Cliques that have no variables in common but those of S have nothing to
\* do with each other once these are given.
LEMMA MarginApart ==
  ASSUME DataInv, NEW A \in SUBSET Clique, NEW B \in SUBSET Clique, A \cap B = {},
         NEW S \in SUBSET Variables, (UNION A) \cap (UNION B) \subseteq S,
         NEW x, Valued(S, x)
  PROVE  Margin(A \cup B, S, x) = Times(Margin(A, S, x), Margin(B, S, x))
<1> DEFINE P == (UNION A) \ S
           R == (UNION B) \ S
           f == Terms(A \cup B, S, x)
           g == Terms(A, S, x)
           h == Terms(B, S, x)
           J == Rest(A, S)
           K == Rest(B, S)
           a == Margin(A, S, x)
           b == Margin(B, S, x)
<1>0. /\ A \cup B \in SUBSET Clique /\ UNION (A \cup B) = (UNION A) \cup (UNION B)
      /\ UNION A \in SUBSET Variables /\ UNION B \in SUBSET Variables
  BY CliqueVariables
<1>1. P \in SUBSET Variables /\ R \in SUBSET Variables /\ P \cap R = {} BY <1>0
<1>2. Rest(A \cup B, S) = Assignments[P \cup R]
  <2>1. (UNION (A \cup B)) \ S = P \cup R BY <1>0
  <2> QED BY <2>1 DEF Rest
<1>3. J = Assignments[P] /\ K = Assignments[R] BY DEF Rest
<1>4. /\ \A w \in Assignments[P \cup R] : f[w] \in Number
      /\ \A y \in J : g[y] \in Number
      /\ \A z \in K : h[z] \in Number
      /\ a \in Number /\ b \in Number
  <2>1. \A w \in Rest(A \cup B, S) : f[w] \in Number BY <1>0, MarginIsNumber
  <2> QED BY <1>2, <2>1, MarginIsNumber
<1>5. IsFiniteSet(J) /\ IsFiniteSet(K) BY RestFinite
<1>6. a = SumOf(g, J) /\ b = SumOf(h, K) /\ Margin(A \cup B, S, x) = SumOf(f, Assignments[P \cup R])
  BY <1>2 DEF Margin
<1>7. ASSUME NEW y \in J, NEW z \in K PROVE f[Merge(P, R, y, z)] = Times(g[y], h[z])
  <2> DEFINE w == Merge(P, R, y, z)
             q == Joined(S, x, w)
  <2>1. w \in Assignments[P \cup R]
    <3>1. \A u \in Assignments[P], t \in Assignments[R] : Merge(P, R, u, t) \in Assignments[P \cup R]
      <4> HIDE DEF P, R
      <4> QED BY <1>1, MergeLaws
    <3> QED BY <1>3, <3>1
  <2>2. f[w] = Made(A \cup B, q) BY <1>2, <2>1 DEF Terms
  <2>3. Valued(UNION (A \cup B), q) BY <1>0, <1>2, <2>1, JoinedValued
  <2>4. g[y] = Made(A, Joined(S, x, y)) /\ h[z] = Made(B, Joined(S, x, z)) BY DEF Terms
  <2>5. Valued(UNION A, Joined(S, x, y)) /\ Valued(UNION B, Joined(S, x, z)) BY JoinedValued
  <2>6. \A v \in UNION A : q[v] = Joined(S, x, y)[v] BY <1>0 DEF Joined, Merge
  <2>7. \A v \in UNION B : q[v] = Joined(S, x, z)[v] BY <1>0, <1>1 DEF Joined, Merge
  <2> HIDE DEF q, w
  <2>8. Made(A, q) = Made(A, Joined(S, x, y)) BY <2>5, <2>6, MadeLaws
  <2>9. Made(B, q) = Made(B, Joined(S, x, z)) BY <2>5, <2>7, MadeLaws
  <2>10. Made(A \cup B, q) = Times(Made(A, q), Made(B, q)) BY <2>3, MadeApart
  <2> QED BY <2>2, <2>4, <2>8, <2>9, <2>10 DEF w
<1> DEFINE rows == [y \in J |-> SumOf(Row(f, P, R, y), K)]
<1>8. SumOf(f, Assignments[P \cup R]) = SumOf(rows, J)
  <2> HIDE DEF f, P, R, rows, J, K
  <2>1. SumOf(f, Assignments[P \cup R])
          = SumOf([y \in Assignments[P] |-> SumOf(Row(f, P, R, y), Assignments[R])],
                  Assignments[P])
    BY <1>1, <1>4, SumTwice
  <2> QED BY <1>3, <2>1 DEF rows
<1>9. ASSUME NEW y \in J PROVE rows[y] = Times(b, g[y])
  <2> DEFINE row == Row(f, P, R, y)
  <2>1. \A z \in K : row[z] = Times(g[y], h[z]) BY <1>3, <1>7 DEF Row
  <2>2. rows[y] = SumOf(row, K) OBVIOUS
  <2> HIDE DEF row, rows, J, K, g, h, a, b
  <2>3. g[y] \in Number BY <1>4
  <2>4. SumOf(row, K) = Times(g[y], SumOf(h, K)) BY <1>4, <1>5, <2>1, <2>3, SumOfScaled
  <2>5. SumOf(row, K) = Times(g[y], b) BY <1>6, <2>4
  <2> QED BY <1>4, <2>2, <2>3, <2>5, TimesLaws
<1>10. SumOf(rows, J) = Times(b, SumOf(g, J))
  <2> HIDE DEF rows, J, K, g, h, a, b
  <2> QED BY <1>4, <1>5, <1>9, SumOfScaled
<1> HIDE DEF rows, f, g, h, J, K, a, b
<1>11. Margin(A \cup B, S, x) = Times(b, a) BY <1>6, <1>8, <1>10
<1>12. Times(b, a) = Times(a, b) BY <1>4, TimesLaws
<1> QED BY <1>11, <1>12 DEF a, b

\* A margin over fewer variables sums one over more of them.
Slices(cs, T, S, x) == [z \in Assignments[T \ S] |-> Margin(cs, T, Joined(S, x, z))]

Covered(T, cs) == T \subseteq UNION cs
Sliced(cs, T, S, x) ==
  /\ \A z \in Assignments[T \ S] : Margin(cs, T, Joined(S, x, z)) \in Number
  /\ Margin(cs, S, x) = SumOf(Slices(cs, T, S, x), Assignments[T \ S])

LEMMA MarginWithin ==
  ASSUME DataInv, NEW cs \in SUBSET Clique, NEW T, Covered(T, cs), NEW S \in SUBSET T,
         NEW x, Valued(S, x)
  PROVE  Sliced(cs, T, S, x)
<1> DEFINE P == T \ S
           R == (UNION cs) \ T
           f == Terms(cs, S, x)
           J == Assignments[P]
           K == Assignments[R]
<1>0. UNION cs \in SUBSET Variables BY CliqueVariables
<1>1. /\ P \in SUBSET Variables /\ R \in SUBSET Variables /\ P \cap R = {}
      /\ T \in SUBSET Variables /\ S \in SUBSET Variables
  BY <1>0 DEF Covered
<1>2. Rest(cs, S) = Assignments[P \cup R] /\ Rest(cs, T) = K
  <2>1. (UNION cs) \ S = P \cup R BY DEF Covered
  <2> QED BY <2>1 DEF Rest
<1>3. \A w \in Assignments[P \cup R] : f[w] \in Number BY <1>1, <1>2, MarginIsNumber
<1>4. Margin(cs, S, x) = SumOf(f, Assignments[P \cup R]) BY <1>2 DEF Margin
<1>5. ASSUME NEW z \in J
      PROVE  Valued(T, Joined(S, x, z)) /\ Row(f, P, R, z) = Terms(cs, T, Joined(S, x, z))
  <2> DEFINE q == Joined(S, x, z)
  <2>1. Valued(T, q)
    <3>1. Valued(P, z)
      <4> HIDE DEF P
      <4> QED BY <1>1, AssignmentsAre
    <3>2. ASSUME NEW v \in T PROVE q[v] \in 0 .. Card[v] - 1
      <4>1. q[v] = IF v \in S THEN x[v] ELSE z[v] BY <1>1 DEF Joined
      <4> QED BY <3>1, <4>1 DEF Valued
    <3> QED BY <3>2 DEF Valued
  <2>2. ASSUME NEW y \in K PROVE Row(f, P, R, z)[y] = Terms(cs, T, q)[y]
    <3> DEFINE w == Merge(P, R, z, y)
    <3>1. w \in Assignments[P \cup R]
      <4>1. \A u \in Assignments[P], t \in Assignments[R] :
              Merge(P, R, u, t) \in Assignments[P \cup R]
        <5> HIDE DEF P, R
        <5> QED BY <1>1, MergeLaws
      <4> QED BY <4>1
    <3>2. Row(f, P, R, z)[y] = Made(cs, Joined(S, x, w)) BY <1>2, <3>1 DEF Row, Terms
    <3>3. Terms(cs, T, q)[y] = Made(cs, Joined(T, q, y)) BY <1>2 DEF Terms
    <3>4. \A v \in UNION cs : Joined(S, x, w)[v] = Joined(T, q, y)[v]
      BY <1>0, <1>1 DEF Joined, Merge
    <3>5. Valued(UNION cs, Joined(T, q, y))
      <4> HIDE DEF q
      <4> QED BY <1>1, <1>2, <2>1, JoinedValued
    <3> HIDE DEF w, q
    <3>6. Made(cs, Joined(S, x, w)) = Made(cs, Joined(T, q, y)) BY <3>4, <3>5, MadeLaws
    <3> QED BY <3>2, <3>3, <3>6
  <2>3. Row(f, P, R, z) = Terms(cs, T, q) BY <1>2, <2>2 DEF Row, Terms
  <2> QED BY <2>1, <2>3
<1> DEFINE rows == [z \in J |-> SumOf(Row(f, P, R, z), K)]
<1>6. SumOf(f, Assignments[P \cup R]) = SumOf(rows, J)
  <2> HIDE DEF f, P, R
  <2> QED BY <1>1, <1>3, SumTwice
<1>7. rows = Slices(cs, T, S, x) BY <1>2, <1>5 DEF Margin, Slices
<1>8. \A z \in J : Margin(cs, T, Joined(S, x, z)) \in Number BY <1>1, <1>5, MarginIsNumber
<1> QED BY <1>4, <1>6, <1>7, <1>8 DEF Sliced

\* The margin of a table is the sum over the values of the other variables.
Fibre(p, T, S, x) == [z \in Assignments[T \ S] |-> At(p, Joined(S, x, z))]

LEMMA MarginTotal ==
  ASSUME NEW T \in SUBSET Variables, NEW S \in SUBSET T, S # {}, S # T, NEW p, Full(p, T),
         NEW x, Valued(S, x)
  PROVE  /\ \A z \in Assignments[T \ S] :
              Valued(T, Joined(S, x, z)) /\ At(p, Joined(S, x, z)) \in Number
         /\ At(SumMarginTabular(p, ComputeMulInd(S, T)), x)
              = SumOf(Fibre(p, T, S, x), Assignments[T \ S])
<1> DEFINE new == SumMarginTabular(p, ComputeMulInd(S, T))
           R == T \ S
           D == DOMAIN EnumerateValues(R)
           i == Place(S, x)
           J == Assignments[R]
           f == Summands(p, S, T, i)
           h == [z \in J |-> At(p, Joined(S, x, z))]
           F == [z \in J |-> Place(R, z)]
<1>0. S \in SUBSET Variables /\ R \in SUBSET Variables /\ R # {} OBVIOUS
<1>1. DOMAIN EnumerateValues(S) = 0 .. GetCardinality(S) - 1 BY <1>0, EnumerateLaws
<1>2. D = 0 .. GetCardinality(R) - 1
  <2> HIDE DEF R
  <2> QED BY <1>0, EnumerateLaws
<1>3. i \in DOMAIN EnumerateValues(S) BY <1>0, <1>1, PlaceBound
<1>4. new.data[i] = SumOf(f, D)
  <2> HIDE DEF i
  <2> QED BY <1>3, MarginEntry
<1>5. At(new, x) = new.data[i]
  <2>1. new.vbls = S BY DEF SumMarginTabular, ComputeMulInd
  <2> QED BY <2>1 DEF At
<1>6. /\ \A z : z \in J <=> z \in [R -> Nat] /\ Valued(R, z)
      /\ IsFiniteSet(J)
  <2> HIDE DEF R
  <2> QED BY <1>0, AssignmentsAre
<1>7. ASSUME NEW z \in J
      PROVE  LET y == Joined(S, x, z)
             IN /\ Valued(T, y) /\ Place(S, y) = i /\ Place(R, y) = Place(R, z)
                /\ Valued(R, z)
  <2> DEFINE y == Joined(S, x, z)
  <2>1. Valued(R, z) BY <1>6
  <2>2. \A v \in S : y[v] = x[v] BY <1>0 DEF Joined
  <2>3. \A v \in R : y[v] = z[v] BY <1>0 DEF Joined
  <2>4. Valued(T, y)
    <3>1. ASSUME NEW v \in T PROVE y[v] \in 0 .. Card[v] - 1
      <4>1. CASE v \in S BY <2>2, <4>1 DEF Valued
      <4>2. CASE v \in R BY <2>1, <2>3, <4>2 DEF Valued
      <4> QED BY <4>1, <4>2
    <3> HIDE DEF y
    <3> QED BY <3>1 DEF Valued
  <2> HIDE DEF y, R
  <2>5. Place(S, y) = i BY <1>0, <2>2, PlaceSame
  <2>6. Place(R, y) = Place(R, z) BY <1>0, <2>1, <2>3, PlaceSame
  <2> QED BY <2>1, <2>4, <2>5, <2>6 DEF y
<1>8. ASSUME NEW z \in J
      PROVE  /\ Valued(T, Joined(S, x, z)) /\ h[z] \in Number
             /\ F[z] \in D /\ f[F[z]] = h[z]
  <2> DEFINE y == Joined(S, x, z)
             j == Place(R, z)
  <2>1. Valued(T, y) /\ Place(S, y) = i /\ Place(R, y) = j /\ Valued(R, z) BY <1>7
  <2>2. h[z] = At(p, y) /\ F[z] = j OBVIOUS
  <2>3. At(p, y) \in Number /\ Entry(p, Place(T, y)) = At(p, y)
    <3> HIDE DEF y
    <3> QED BY <2>1, FullAt
  <2>4. AgreeingIndices(S, T)[i][j] = Place(T, y)
    <3>1. AgreeingIndices(S, T)[Place(S, y)][Place(R, y)] = Place(T, y)
      <4> HIDE DEF y
      <4> QED BY <1>0, <2>1, AgreeingLaws
    <3> QED BY <2>1, <3>1
  <2>5. j \in D
    <3> HIDE DEF R, D
    <3> QED BY <1>0, <1>2, <2>1, PlaceBound
  <2>6. DOMAIN AgreeingIndices(S, T)[i] = D
    <3>1. i \in DOMAIN AgreeingIndices(S, T) BY <1>3, IndexShape
    <3> HIDE DEF i
    <3> QED BY <3>1, IndexColumns DEF D
  <2>7. f[j] = Entry(p, Place(T, y))
    <3> HIDE DEF i, j, y
    <3> QED BY <2>4, <2>5, <2>6 DEF Summands
  <2> HIDE DEF y, j, h, F, f, D
  <2> QED BY <2>1, <2>2, <2>3, <2>5, <2>7 DEF y
<1>9. \A y, z \in J : F[y] = F[z] => y = z
  <2> SUFFICES ASSUME NEW y \in J, NEW z \in J, F[y] = F[z] PROVE y = z
    OBVIOUS
  <2>1. y \in [R -> Nat] /\ z \in [R -> Nat] /\ Valued(R, y) /\ Valued(R, z) BY <1>6
  <2>2. Place(R, y) = Place(R, z) OBVIOUS
  <2> HIDE DEF R
  <2>3. \A v \in R : y[v] = z[v] BY <1>0, <2>1, <2>2, PlaceOnce
  <2> QED BY <2>1, <2>3
<1>10. {F[z] : z \in J} = D
  <2>1. ASSUME NEW k \in D PROVE \E z \in J : F[z] = k
    <3>1. \E z : z \in [R -> Nat] /\ Valued(R, z) /\ Place(R, z) = k
      <4> HIDE DEF R, D
      <4> QED BY <1>0, <1>2, PlaceOnto
    <3> QED BY <1>6, <3>1
  <2>2. \A z \in J : F[z] \in D BY <1>8
  <2> HIDE DEF F, D, J
  <2> QED BY <2>1, <2>2
<1>11. SumOf(h, J) = SumOf(f, {F[z] : z \in J})
  <2>1. \A z \in J : h[z] \in Number /\ f[F[z]] = h[z] BY <1>8
  <2> HIDE DEF F, h, f, J
  <2> QED BY <1>6, <1>9, <2>1, SumOfReordered
<1>12. At(new, x) = SumOf(h, J) BY <1>4, <1>5, <1>10, <1>11
<1> QED BY <1>8, <1>12 DEF Fibre

\* A factor of zero leaves nothing.
LEMMA MarginMore ==
  ASSUME DataInv, NEW B \in SUBSET Clique, NEW A \in SUBSET B,
         NEW S \in SUBSET Variables, NEW x, Valued(S, x), Margin(A, S, x) = Zero
  PROVE  Margin(B, S, x) = Zero
<1> DEFINE C == B \ A
           P == (UNION A) \ S
<1>0. /\ A \in SUBSET Clique /\ C \in SUBSET Clique /\ A \cup C = B /\ A \cap C = {}
      /\ UNION A \in SUBSET UNION B /\ UNION B \in SUBSET Variables
  BY CliqueVariables
<1>1. \A z \in Rest(A, S) : Terms(A, S, x)[z] = Zero
  <2>1. \A z \in Rest(A, S) : Terms(A, S, x)[z] \in Number BY <1>0, MarginIsNumber
  <2>2. IsFiniteSet(Rest(A, S)) BY <1>0, RestFinite
  <2> QED BY <2>1, <2>2, SumOfZero DEF Margin
<1>2. ASSUME NEW y \in Rest(B, S) PROVE Terms(B, S, x)[y] = Zero
  <2> DEFINE q == Joined(S, x, y)
             z == [v \in P |-> y[v]]
             R == (UNION B) \ S
  <2>1. y \in [R -> Nat] /\ Valued(R, y)
    <3>1. R \in SUBSET Variables /\ y \in Assignments[R] BY <1>0 DEF Rest
    <3> HIDE DEF R
    <3> QED BY <3>1, AssignmentsAre
  <2>2. P \in SUBSET R /\ P \in SUBSET Variables BY <1>0
  <2>3. z \in [P -> Nat] /\ Valued(P, z) BY <2>1, <2>2 DEF Valued
  <2>4. z \in Rest(A, S)
    <3> HIDE DEF z, P
    <3>1. z \in Assignments[P] BY <2>2, <2>3, AssignmentsAre
    <3> QED BY <3>1 DEF Rest, P
  <2>5. Terms(A, S, x)[z] = Made(A, Joined(S, x, z)) BY <2>4 DEF Terms
  <2>6. Valued(UNION A, Joined(S, x, z))
    <3> HIDE DEF z
    <3> QED BY <1>0, <2>4, JoinedValued
  <2>7. \A v \in UNION A : q[v] = Joined(S, x, z)[v] BY <1>0 DEF Joined
  <2>8. Valued(UNION B, q) BY JoinedValued
  <2>9. Terms(B, S, x)[y] = Made(B, q) BY DEF Terms
  <2> HIDE DEF q, z
  <2>10. Made(A, q) = Zero
    <3>1. Made(A, q) = Made(A, Joined(S, x, z)) BY <1>0, <2>6, <2>7, MadeLaws
    <3> QED BY <1>1, <2>4, <2>5, <3>1
  <2>11. Valued(UNION (A \cup C), q) /\ Valued(UNION C, q) BY <2>8 DEF Valued
  <2> HIDE DEF C
  <2>12. Made(A \cup C, q) = Times(Made(A, q), Made(C, q)) BY <1>0, <2>11, MadeApart
  <2>13. Made(C, q) \in Number BY <1>0, <2>11, MadeLaws
  <2>14. Made(B, q) = Times(Zero, Made(C, q)) BY <1>0, <2>10, <2>12
  <2> QED BY <2>9, <2>13, <2>14, TimesLaws, ZeroStands
<1>3. \A y \in Rest(B, S) : Terms(B, S, x)[y] \in Number BY MarginIsNumber
<1>4. IsFiniteSet(Rest(B, S)) BY RestFinite
<1> QED BY <1>2, <1>3, <1>4, SumOfZero DEF Margin

\* No cliques, no other variables: nothing is summed.
LEMMA MarginOfNone == ASSUME NEW S, NEW x PROVE Margin({}, S, x) = One
<1>1. Rest({}, S) = Assignments[{}]
  <2>1. (UNION {}) \ S = {} OBVIOUS
  <2> QED BY <2>1 DEF Rest
<1>2. Assignments[{}] = {[v \in {} |-> 0]}
  <2>1. {} \in SUBSET Variables OBVIOUS
  <2>2. \A z : z \in Assignments[{}] <=> z \in [{} -> Nat] /\ Valued({}, z)
    BY <2>1, AssignmentsAre
  <2>3. \A z : Valued({}, z) BY DEF Valued
  <2> QED BY <2>2, <2>3
<1> DEFINE y == [v \in {} |-> 0]
<1>3. Terms({}, S, x)[y] = One
  <2>1. TablesOf({}) = {} BY DEF TablesOf
  <2>2. Made({}, Joined(S, x, y)) = One BY <2>1, ProductOfNone DEF Made, JointOf
  <2> QED BY <1>1, <1>2, <2>2 DEF Terms
<1> HIDE DEF y
<1>4. SumOf(Terms({}, S, x), {y}) = One BY <1>3, OneStands, SumOfOne
<1> QED BY <1>1, <1>2, <1>4 DEF Margin, y

LEMMA MarginOfOne ==
  ASSUME DataInv, NEW c \in Clique, NEW x, Valued(c, x)
  PROVE  Margin({c}, c, x) = Made({c}, x)
<1>0. {c} \in SUBSET Clique /\ UNION {c} = c /\ c \in SUBSET Variables BY ScopeAssumption
<1>1. Rest({c}, c) = Assignments[{}]
  <2>1. (UNION {c}) \ c = {} OBVIOUS
  <2> QED BY <2>1 DEF Rest
<1>2. Assignments[{}] = {[v \in {} |-> 0]}
  <2>1. {} \in SUBSET Variables OBVIOUS
  <2>2. \A z : z \in Assignments[{}] <=> z \in [{} -> Nat] /\ Valued({}, z)
    BY <2>1, AssignmentsAre
  <2>3. \A z : Valued({}, z) BY DEF Valued
  <2> QED BY <2>2, <2>3
<1> DEFINE y == [v \in {} |-> 0]
<1>3. Terms({c}, c, x)[y] = Made({c}, x) /\ Made({c}, x) \in Number
  <2>1. \A v \in UNION {c} : Joined(c, x, y)[v] = x[v] BY <1>0 DEF Joined
  <2>2. Valued(UNION {c}, x) BY <1>0
  <2> HIDE DEF y
  <2>3. Made({c}, Joined(c, x, y)) = Made({c}, x) /\ Made({c}, x) \in Number
    BY <1>0, <2>1, <2>2, MadeLaws
  <2> QED BY <1>1, <1>2, <2>3 DEF Terms, y
<1> HIDE DEF y
<1>4. SumOf(Terms({c}, c, x), {y}) = Made({c}, x) BY <1>3, SumOfOne
<1> QED BY <1>1, <1>2, <1>4 DEF Margin, y

LEMMA TimesCancels ==
  ASSUME NEW p \in Number, NEW q \in Number, NEW b \in Number, b # Zero,
         Times(p, b) = Times(q, b)
  PROVE  p = q
<1> DEFINE i == Over(One, b)
<1>1. i \in Number /\ Times(i, b) = One BY OneStands, OverLaws
<1> HIDE DEF i
<1>2. Times(b, i) = One BY <1>1, TimesLaws
<1>3. p = Times(Times(p, b), i)
  <2>1. p = Times(p, Times(b, i)) BY <1>2, TimesLaws
  <2> QED BY <1>1, <2>1, TimesAssociates
<1>4. q = Times(Times(q, b), i)
  <2>1. q = Times(q, Times(b, i)) BY <1>2, TimesLaws
  <2> QED BY <1>1, <2>1, TimesAssociates
<1> QED BY <1>3, <1>4

\* What a message does, in numbers: p, what the receiver had from the other
\* side, gives way to a, what the caller has of its own.  The division by 0
\* loses nothing, if what had been sent is part of what is still there.
LEMMA RatioExact ==
  ASSUME NEW a \in Number, NEW b \in Number, NEW p \in Number, NEW q \in Number,
         p = Zero => a = Zero, b = Zero => q = Zero
  PROVE  Times(Ratio(Times(a, b), Times(p, b)), Times(q, p)) = Times(q, a)
<1> DEFINE new == Times(a, b)
           old == Times(p, b)
           t == Ratio(new, old)
<1>1. new \in Number /\ old \in Number /\ Times(q, p) \in Number /\ Times(q, a) \in Number
  BY TimesLaws
<1>2. CASE old = Zero
  <2>1. t = Zero BY <1>2 DEF Ratio
  <2>2. p = Zero \/ b = Zero
    <3>1. Times(p, b) = Zero BY <1>2
    <3> QED BY <3>1, TimesLaws
  <2>3. a = Zero \/ q = Zero BY <2>2
  <2>4. Times(q, a) = Zero BY <2>3, TimesLaws, ZeroStands
  <2> HIDE DEF t
  <2>5. Times(t, Times(q, p)) = Zero BY <1>1, <2>1, TimesLaws, ZeroStands
  <2> QED BY <2>4, <2>5 DEF t
<1>3. CASE old # Zero
  <2>1. t = Over(new, old) BY <1>3 DEF Ratio
  <2> DEFINE u == new
             v == old
  <2>2. u \in Number /\ v \in Number /\ v # Zero /\ t = Over(u, v) BY <1>1, <1>3, <2>1
  <2>3. u = Times(a, b) /\ v = Times(p, b) OBVIOUS
  <2> HIDE DEF new, old, t, u, v
  <2>4. t \in Number /\ Times(t, v) = u BY <2>2, OverLaws
  <2>5. b # Zero
    <3>1. b = Zero => v = Zero BY <2>3, TimesLaws, ZeroStands
    <3> QED BY <2>2, <3>1
  <2>6. Times(t, p) \in Number BY <2>4, TimesLaws
  <2>7. Times(Times(t, p), b) = Times(a, b) BY <2>3, <2>4, TimesAssociates
  <2>8. Times(t, p) = a BY <2>5, <2>6, <2>7, TimesCancels
  <2>9. Times(t, Times(q, p)) = Times(q, Times(t, p))
    <3>1. Times(q, p) = Times(p, q) BY TimesLaws
    <3>2. Times(t, Times(p, q)) = Times(Times(t, p), q) BY <2>4, TimesAssociates
    <3>3. Times(Times(t, p), q) = Times(q, Times(t, p)) BY <2>6, TimesLaws
    <3> QED BY <3>1, <3>2, <3>3
  <2> QED BY <2>8, <2>9 DEF t, new, old
<1> QED BY <1>2, <1>3

(***************************************************************************)
(* What a potential has absorbed, and from which side of an edge.          *)
(***************************************************************************)

\* What ElimTree_Create delivers for cliques from a triangulation: theorem
\* JunctionTreeFound of ElimTreeProofs.
JunctionTrees == \A E \in Trees : JunctionTreeOver(Clique, E)

Has(c) == Absorbed(cont[c], c)
Own(u, w) == {h \in Has(u) : ~ Beyond(Clique, tree, u, w, h)}
Across(u, w) == {h \in Has(u) : Beyond(Clique, tree, u, w, h)}

LEMMA SidesShare ==
  ASSUME JunctionTrees, DataInv, NEW u \in Clique, NEW w \in Clique, {u, w} \in tree,
         NEW A \in SUBSET Clique, \A h \in A : ~ Beyond(Clique, tree, u, w, h),
         NEW B \in SUBSET Clique, \A h \in B : Beyond(Clique, tree, u, w, h)
  PROVE  A \cap B = {} /\ (UNION A) \cap (UNION B) \subseteq Sepset({u, w})
<1>1. tree \in Trees /\ IsTree(Clique, tree)
  BY TreeOfTables DEF DataInv, TableInv, PotsInv, PotsTypeOK
<1>2. JunctionTreeOver(Clique, tree) BY <1>1 DEF JunctionTrees
<1>3. {w, u} = {u, w} OBVIOUS
<1>4. ASSUME NEW g \in A, NEW h \in B PROVE g \cap h \subseteq u \cap w
  <2>1. Beyond(Clique, tree, w, u, g) BY <1>1, TwoSides
  <2>2. Beyond(Clique, tree, u, w, h) OBVIOUS
  <2> QED BY <1>2, <2>1, <2>2, SharedAcross
<1>5. u \cap w \subseteq Sepset({u, w}) BY ScopeAssumption DEF Sepset
<1> QED BY <1>4, <1>5

LEMMA HasHome ==
  ASSUME PotsInv, NEW c \in Clique
  PROVE  c \in Has(c) /\ Has(c) \in SUBSET Clique
BY ConnectedSelf DEF Has, Absorbed, PotsInv, AtHome

LEMMA CarryingEdges ==
  ASSUME IsTree(Clique, tree)
  PROVE  Carrying \in SUBSET tree /\ Carrying \in SUBSET SUBSET Clique
BY DEF Carrying, IsTree, Edges

\* The two ends of a separator that carries something reach the same
\* cliques through such separators.
LEMMA EndsReach ==
  ASSUME IsTree(Clique, tree), NEW u \in Clique, NEW w \in Clique, {u, w} \in Carrying,
         NEW h \in Clique, Connected(Clique, Carrying, h, u)
  PROVE  Connected(Clique, Carrying, h, w)
BY ConnectedEnds, ConnectedTransitive

\* Through one that carries nothing, they reach nothing.
LEMMA NothingAcross ==
  ASSUME IsTree(Clique, tree), NEW u \in Clique, NEW w \in Clique, {u, w} \in tree,
         Sepset({u, w}) = {}, NEW h \in Clique, Beyond(Clique, tree, u, w, h)
  PROVE  ~ Connected(Clique, Carrying, h, u)
<1> SUFFICES ASSUME Connected(Clique, Carrying, h, u) PROVE FALSE
  OBVIOUS
<1> DEFINE G == tree \ {{u, w}}
<1>1. Carrying \subseteq G BY DEF Carrying
<1>2. G \in SUBSET SUBSET Clique BY DEF IsTree, Edges
<1>3. {w, u} = {u, w} OBVIOUS
<1> HIDE DEF G
<1>4. Connected(Clique, G, u, h)
  <2>1. Connected(Clique, G, h, u) BY <1>1, ConnectedMore
  <2> QED BY <1>2, <2>1, ConnectedSymmetric
<1>5. Beyond(Clique, tree, w, u, h) BY <1>3, <1>4 DEF G, Beyond
<1> QED BY <1>5, TwoSides

\* The caller has on its own side all that the receiver has from there.
LEMMA OwnHasMore ==
  ASSUME PotsInv, NEW u \in Clique, NEW w \in Clique, {u, w} \in Carrying
  PROVE  Across(u, w) \in SUBSET Own(w, u)
<1>1. IsTree(Clique, tree) /\ {u, w} \in tree BY TreeIsTree DEF PotsInv, PotsTypeOK, Carrying
<1> SUFFICES ASSUME NEW h \in Across(u, w) PROVE h \in Own(w, u)
  OBVIOUS
<1>2. /\ h \in Clique /\ cont[u][h] = 1 /\ Connected(Clique, Carrying, h, u)
      /\ Beyond(Clique, tree, u, w, h)
  BY DEF Across, Has, Absorbed
<1>3. cont[w][h] = 1
  <2>1. cont[u][h] <= cont[w][h] BY <1>1, <1>2 DEF PotsInv, Downhill
  <2>2. cont[w][h] \in {0, 1} BY <1>2 DEF PotsInv, NoDoubleCount
  <2> QED BY <1>2, <2>1, <2>2
<1>4. Connected(Clique, Carrying, h, w) BY <1>1, <1>2, EndsReach
<1>5. ~ Beyond(Clique, tree, w, u, h)
  <2>1. Beyond(Clique, tree, u, w, h) BY <1>2
  <2> QED BY <1>1, <1>2, <2>1, TwoSides
<1> QED BY <1>2, <1>3, <1>4, <1>5 DEF Own, Has, Absorbed

\* A message over a separator that carries something.
LEMMA PassHas ==
  ASSUME PotsInv, NEW r \in Clique, NEW c \in Clique, MessagePass(r, c),
         Sepset({r, c}) # {}
  PROVE  /\ Has(r)' = Own(r, c) \cup Own(c, r)
         /\ \A v \in Clique : v # r => Has(v)' = Has(v)
<1>1. /\ {r, c} \in tree /\ r # c /\ tree' = tree
      /\ \A v, h \in Clique : v # r => cont'[v][h] = cont[v][h]
  BY PassEffect
<1>2. IsTree(Clique, tree) BY TreeIsTree DEF PotsInv, PotsTypeOK
<1>3. Carrying' = Carrying BY <1>1 DEF Carrying, Sepset
<1>4. {r, c} \in Carrying /\ {c, r} = {r, c} BY <1>1 DEF Carrying
<1>5. \A h \in Clique : Connected(Clique, Carrying, h, r) <=> Connected(Clique, Carrying, h, c)
  BY <1>2, <1>4, EndsReach
<1>6. ASSUME NEW h \in Clique PROVE h \in Has(r)' <=> h \in Own(r, c) \cup Own(c, r)
  <2>1. h \in Has(r)' <=> cont'[r][h] = 1 /\ Connected(Clique, Carrying, h, r)
    BY <1>3 DEF Has, Absorbed
  <2>2. h \in Own(r, c) <=> /\ cont[r][h] = 1 /\ Connected(Clique, Carrying, h, r)
                            /\ ~ Beyond(Clique, tree, r, c, h)
    BY DEF Own, Has, Absorbed
  <2>3. h \in Own(c, r) <=> /\ cont[c][h] = 1 /\ Connected(Clique, Carrying, h, c)
                            /\ ~ Beyond(Clique, tree, c, r, h)
    BY DEF Own, Has, Absorbed
  <2>4. Beyond(Clique, tree, r, c, h) <=> ~ Beyond(Clique, tree, c, r, h)
    BY <1>1, <1>2, TwoSides
  <2>5. /\ Beyond(Clique, tree, r, c, h) => cont'[r][h] = cont[c][h]
        /\ ~ Beyond(Clique, tree, r, c, h) => cont'[r][h] = cont[r][h]
    BY PassOutcome
  <2>6. Connected(Clique, Carrying, h, r) <=> Connected(Clique, Carrying, h, c) BY <1>5
  <2> QED BY <2>1, <2>2, <2>3, <2>4, <2>5, <2>6
<1>7. Has(r)' \in SUBSET Clique /\ Own(r, c) \in SUBSET Clique /\ Own(c, r) \in SUBSET Clique
  BY DEF Has, Own, Absorbed
<1>8. Has(r)' = Own(r, c) \cup Own(c, r) BY <1>6, <1>7
<1>9. \A v \in Clique : v # r => Has(v)' = Has(v)
  BY <1>1, <1>3 DEF Has, Absorbed
<1> QED BY <1>8, <1>9

\* A message over one that carries nothing.
LEMMA PassNothing ==
  ASSUME PotsInv, NEW r \in Clique, NEW c \in Clique, MessagePass(r, c),
         Sepset({r, c}) = {}
  PROVE  \A v \in Clique : Has(v)' = Has(v)
<1>1. /\ {r, c} \in tree /\ r # c /\ tree' = tree
      /\ \A v, h \in Clique : v # r => cont'[v][h] = cont[v][h]
  BY PassEffect
<1>2. IsTree(Clique, tree) BY TreeIsTree DEF PotsInv, PotsTypeOK
<1>3. Carrying' = Carrying BY <1>1 DEF Carrying, Sepset
<1>4. ASSUME NEW h \in Clique, Connected(Clique, Carrying, h, r) PROVE cont'[r][h] = cont[r][h]
  <2>1. ~ Beyond(Clique, tree, r, c, h) BY <1>1, <1>2, <1>4, NothingAcross
  <2> QED BY <2>1, PassOutcome
<1>5. Has(r)' = Has(r) BY <1>3, <1>4 DEF Has, Absorbed
<1>6. \A v \in Clique : v # r => Has(v)' = Has(v) BY <1>1, <1>3 DEF Has, Absorbed
<1> QED BY <1>5, <1>6

\* What the ends of each separator have from across it.
LEMMA PassAcross ==
  ASSUME PotsInv, NEW r \in Clique, NEW c \in Clique, MessagePass(r, c)
  PROVE  /\ Sepset({r, c}) # {} => Across(r, c)' = Own(c, r) /\ Across(c, r)' = Across(c, r)
         /\ \A u, w \in Clique : {u, w} \in Carrying /\ {u, w} # {r, c} =>
              Across(u, w)' = Across(u, w)
<1>1. {r, c} \in tree /\ r # c /\ tree' = tree /\ {c, r} = {r, c} BY PassEffect
<1>2. IsTree(Clique, tree) BY TreeIsTree DEF PotsInv, PotsTypeOK
<1>3. ASSUME Sepset({r, c}) # {}
      PROVE  Across(r, c)' = Own(c, r) /\ Across(c, r)' = Across(c, r)
  <2>1. Has(r)' = Own(r, c) \cup Own(c, r) /\ Has(c)' = Has(c) BY <1>1, <1>3, PassHas
  <2>2. \A h \in Own(r, c) : ~ Beyond(Clique, tree, r, c, h) BY DEF Own
  <2>3. ASSUME NEW h \in Own(c, r) PROVE Beyond(Clique, tree, r, c, h)
    <3>1. h \in Clique /\ ~ Beyond(Clique, tree, c, r, h) BY DEF Own, Has, Absorbed
    <3> QED BY <1>1, <1>2, <3>1, TwoSides
  <2>4. Across(r, c)' = {h \in Has(r)' : Beyond(Clique, tree, r, c, h)} BY <1>1 DEF Across
  <2>5. Across(r, c)' = Own(c, r) BY <2>1, <2>2, <2>3, <2>4
  <2>6. Across(c, r)' = Across(c, r) BY <1>1, <2>1 DEF Across
  <2> QED BY <2>5, <2>6
<1>4. ASSUME NEW u \in Clique, NEW w \in Clique, {u, w} \in Carrying, {u, w} # {r, c}
      PROVE  Across(u, w)' = Across(u, w)
  <2>1. Across(u, w)' = {h \in Has(u)' : Beyond(Clique, tree, u, w, h)} BY <1>1 DEF Across
  <2>2. CASE Sepset({r, c}) = {}
    <3>1. Has(u)' = Has(u) BY <2>2, PassNothing
    <3> QED BY <2>1, <3>1 DEF Across
  <2>3. CASE Sepset({r, c}) # {} /\ u # r
    <3>1. Has(u)' = Has(u) BY <2>3, PassHas
    <3> QED BY <2>1, <3>1 DEF Across
  <2>4. CASE Sepset({r, c}) # {} /\ u = r
    <3>1. w # c /\ {r, w} \in tree BY <1>4, <2>4 DEF Carrying
    <3>2. ASSUME NEW h \in Clique, Beyond(Clique, tree, r, c, h)
          PROVE  ~ Beyond(Clique, tree, r, w, h)
      <4>1. Beyond(Clique, tree, w, r, h) BY <1>1, <1>2, <3>1, <3>2, FurtherSide
      <4>2. {w, r} \in tree
        <5>1. {w, r} = {r, w} OBVIOUS
        <5> QED BY <3>1, <5>1
      <4> QED BY <1>2, <4>1, <4>2, TwoSides
    <3>3. Has(r)' = Own(r, c) \cup Own(c, r) BY <2>4, PassHas
    <3>4. ASSUME NEW h \in Own(c, r) PROVE ~ Beyond(Clique, tree, r, w, h)
      <4>1. h \in Clique /\ ~ Beyond(Clique, tree, c, r, h) BY DEF Own, Has, Absorbed
      <4>2. Beyond(Clique, tree, r, c, h) BY <1>1, <1>2, <4>1, TwoSides
      <4> QED BY <3>2, <4>1, <4>2
    <3>5. \A h \in Has(r) : Beyond(Clique, tree, r, w, h) => h \in Own(r, c)
      BY <3>2 DEF Own, Has, Absorbed
    <3>6. Own(r, c) \in SUBSET Has(r) BY DEF Own
    <3>7. {h \in Has(r)' : Beyond(Clique, tree, r, w, h)}
            = {h \in Has(r) : Beyond(Clique, tree, r, w, h)}
      BY <3>3, <3>4, <3>5, <3>6
    <3> QED BY <2>1, <2>4, <3>7 DEF Across
  <2> QED BY <2>2, <2>3, <2>4
<1> QED BY <1>3, <1>4

LEMMA ZeroWithin ==
  ASSUME DataInv, NEW cs \in SUBSET Clique, NEW T, Covered(T, cs), NEW S \in SUBSET T,
         NEW x, Valued(T, x), Margin(cs, S, x) = Zero
  PROVE  Margin(cs, T, x) = Zero
<1> DEFINE P == T \ S
           z == [v \in P |-> x[v]]
           y == Joined(S, x, z)
           f == [u \in Assignments[P] |-> Margin(cs, T, Joined(S, x, u))]
<1>0. T \in SUBSET Variables /\ P \in SUBSET Variables /\ Valued(S, x)
  BY CliqueVariables DEF Valued, Covered
<1>1. /\ \A u \in Assignments[P] : f[u] \in Number
      /\ SumOf(f, Assignments[P]) = Zero
  <2>1. /\ \A u \in Assignments[T \ S] : Margin(cs, T, Joined(S, x, u)) \in Number
        /\ Margin(cs, S, x) = SumOf(Slices(cs, T, S, x), Assignments[T \ S])
    <3>1. Sliced(cs, T, S, x)
      <4> HIDE DEF P, f, z, y
      <4> QED BY <1>0, MarginWithin
    <3> QED BY <3>1 DEF Sliced
  <2> QED BY <2>1 DEF Slices
<1>2. /\ \A u : u \in Assignments[P] <=> u \in [P -> Nat] /\ Valued(P, u)
      /\ IsFiniteSet(Assignments[P])
  <2> HIDE DEF P
  <2> QED BY <1>0, AssignmentsAre
<1>3. z \in Assignments[P]
  <2>1. z \in [P -> Nat] /\ Valued(P, z) BY DEF Valued
  <2> HIDE DEF z, P
  <2> QED BY <1>2, <2>1
<1>4. f[z] = Zero
  <2> HIDE DEF f, z, P
  <2> QED BY <1>1, <1>2, <1>3, SumOfZero
<1>5. \A v \in T : y[v] = x[v] BY <1>0 DEF Joined
<1>6. Margin(cs, T, y) = Zero
  <2>1. f[z] = Margin(cs, T, y) BY <1>3
  <2> QED BY <1>4, <2>1
<1> HIDE DEF y
<1>7. Margin(cs, T, y) = Margin(cs, T, x) BY <1>0, <1>5, MarginSame
<1> QED BY <1>6, <1>7

\* An edge parts what a potential has absorbed.
LEMMA PartsOf ==
  ASSUME JunctionTrees, DataInv, NEW u \in Clique, NEW w \in Clique, {u, w} \in tree,
         NEW S \in SUBSET Variables, Sepset({u, w}) \subseteq S, NEW x, Valued(S, x)
  PROVE  Margin(Has(u), S, x) = Times(Margin(Own(u, w), S, x), Margin(Across(u, w), S, x))
<1>1. /\ Own(u, w) \in SUBSET Clique /\ Across(u, w) \in SUBSET Clique
      /\ Own(u, w) \cup Across(u, w) = Has(u)
      /\ \A h \in Own(u, w) : ~ Beyond(Clique, tree, u, w, h)
      /\ \A h \in Across(u, w) : Beyond(Clique, tree, u, w, h)
  BY DEF Own, Across, Has, Absorbed
<1>2. /\ Own(u, w) \cap Across(u, w) = {}
      /\ (UNION Own(u, w)) \cap (UNION Across(u, w)) \subseteq Sepset({u, w})
  BY <1>1, SidesShare
<1>3. (UNION Own(u, w)) \cap (UNION Across(u, w)) \subseteq S BY <1>2
<1>4. Margin(Own(u, w) \cup Across(u, w), S, x)
        = Times(Margin(Own(u, w), S, x), Margin(Across(u, w), S, x))
  BY <1>1, <1>2, <1>3, MarginApart
<1> QED BY <1>1, <1>4

\* Of what comes from beyond an edge only the separator's variables are the
\* clique's.
LEMMA BeyondMargin ==
  ASSUME JunctionTrees, DataInv, NEW u \in Clique, NEW w \in Clique, {u, w} \in tree,
         NEW B \in SUBSET Clique, \A h \in B : Beyond(Clique, tree, u, w, h),
         NEW x, Valued(u, x)
  PROVE  Margin(B, u, x) = Margin(B, Sepset({u, w}), x)
<1> DEFINE S == Sepset({u, w})
<1>1. IsTree(Clique, tree) BY TreeOfTables DEF DataInv
<1>2. S \in SUBSET Variables /\ S \in SUBSET u /\ u \in SUBSET Variables
  BY <1>1, EdgeScope
<1>3. ~ Beyond(Clique, tree, u, w, u) BY <1>1, OwnSide
<1>4. (UNION {u}) \cap (UNION B) \subseteq S
  <2> DEFINE A == {u}
  <2>1. A \in SUBSET Clique /\ \A h \in A : ~ Beyond(Clique, tree, u, w, h) BY <1>3
  <2> HIDE DEF A
  <2>2. (UNION A) \cap (UNION B) \subseteq Sepset({u, w}) BY <2>1, SidesShare
  <2> QED BY <2>2 DEF A
<1>5. \A v \in UNION B : (v \in S <=> v \in u) /\ (v \in S => x[v] = x[v]) BY <1>2, <1>4
<1>6. Valued(S, x) BY <1>2 DEF Valued
<1> HIDE DEF S
<1>7. Margin(B, u, x) = Margin(B, S, x) BY <1>2, <1>5, <1>6, MarginSame
<1> QED BY <1>7 DEF S

(***************************************************************************)
(* The invariant: a potential is the margin of what it has absorbed, a     *)
(* separator the product of the margins of what its two ends have from     *)
(* each other.                                                             *)
(***************************************************************************)
PotsExact ==
  \A c \in Clique : \A x : Valued(c, x) => At(pot[c], x) = Margin(Has(c), c, x)

SepsExact ==
  \A u, w \in Clique : {u, w} \in Carrying =>
    \A x : Valued(Sepset({u, w}), x) =>
      At(sepPot[{u, w}], x)
        = Times(Margin(Across(u, w), Sepset({u, w}), x), Margin(Across(w, u), Sepset({u, w}), x))

ExactInv ==
  /\ DataInv
  /\ next <= Len(tables) => \A u, h \in Clique : cont[u][h] = IF h = u THEN 1 ELSE 0
  /\ PotsExact
  /\ SepsExact

LEMMA SentExact ==
  ASSUME JunctionTrees, NoneInside, ~ Log, ExactInv, NEW r \in Clique, NEW c \in Clique,
         {r, c} \in Carrying, NEW x, Valued(Sepset({r, c}), x)
  PROVE  At(Sent(r, c), x) = Times(Margin(Own(c, r), Sepset({r, c}), x),
                                   Margin(Across(c, r), Sepset({r, c}), x))
<1> DEFINE S == Sepset({r, c})
           p == pot[c]
           H == Has(c)
<1>0. /\ DataInv /\ PotsInv /\ IsTree(Clique, tree) /\ tree \in Trees
      /\ {r, c} \in tree /\ S # {} /\ {c, r} = {r, c}
  BY TreeOfTables DEF ExactInv, DataInv, TableInv, PotsInv, PotsTypeOK, Carrying
<1>1. S \in SUBSET Variables /\ S \in SUBSET c /\ c \in SUBSET Variables BY <1>0, EdgeScope
<1>2. S # c
  <2>1. \A d \in {r, c} : Sepset({r, c}) # d BY <1>0 DEF NoneInside
  <2> QED BY <2>1
<1>3. Full(p, c) /\ H \in SUBSET Clique /\ c \in H BY <1>0, HasHome DEF DataInv
<1>4. /\ \A z \in Assignments[c \ S] : Valued(c, Joined(S, x, z))
      /\ At(Sent(r, c), x) = SumOf(Fibre(p, c, S, x), Assignments[c \ S])
  <2>1. Sent(r, c) = SumMarginTabular(p, ComputeMulInd(S, c)) BY DEF Sent
  <2>2. S # {} /\ Valued(S, x) BY <1>0
  <2> HIDE DEF S, p
  <2> QED BY <1>1, <1>2, <1>3, <2>1, <2>2, MarginTotal
<1>5. Fibre(p, c, S, x) = Slices(H, c, S, x)
  BY <1>4 DEF ExactInv, PotsExact, Fibre, Slices
<1>6. At(Sent(r, c), x) = Margin(H, S, x)
  <2>1. Covered(c, H) BY <1>3 DEF Covered
  <2>2. Margin(H, S, x) = SumOf(Slices(H, c, S, x), Assignments[c \ S])
    <3>1. Valued(S, x) OBVIOUS
    <3> HIDE DEF S, H
    <3>2. Sliced(H, c, S, x) BY <1>0, <1>1, <1>3, <2>1, <3>1, MarginWithin
    <3> QED BY <3>2 DEF Sliced
  <2> QED BY <1>4, <1>5, <2>2
<1>7. Margin(Has(c), S, x) = Times(Margin(Own(c, r), S, x), Margin(Across(c, r), S, x))
  <2>1. Sepset({c, r}) \subseteq S /\ {c, r} \in tree BY <1>0
  <2> HIDE DEF S
  <2> QED BY <1>0, <1>1, <2>1, PartsOf, ZenonT(60) DEF S
<1> QED BY <1>6, <1>7

LEMMA ReceivedExact ==
  ASSUME JunctionTrees, NoneInside, ~ Log, ExactInv, NEW r \in Clique, NEW c \in Clique,
         {r, c} \in Carrying, NEW x, Valued(r, x)
  PROVE  At(Received(r, c), x) = Margin(Own(r, c) \cup Own(c, r), r, x)
<1> DEFINE S == Sepset({r, c})
           a == Margin(Own(c, r), S, x)
           b == Margin(Across(c, r), S, x)
           p == Margin(Across(r, c), S, x)
           q == Margin(Own(r, c), r, x)
<1>0. /\ DataInv /\ PotsInv /\ IsTree(Clique, tree) /\ tree \in Trees
      /\ {r, c} \in tree /\ S # {} /\ {c, r} = {r, c}
  BY TreeOfTables DEF ExactInv, DataInv, TableInv, PotsInv, PotsTypeOK, Carrying
<1>1. S \in SUBSET Variables /\ S \in SUBSET r /\ r \in SUBSET Variables BY <1>0, EdgeScope
<1>2. S # r
  <2>1. \A d \in {r, c} : Sepset({r, c}) # d BY <1>0 DEF NoneInside
  <2> QED BY <2>1
<1>3. Valued(S, x) BY <1>1 DEF Valued
<1>4. At(Received(r, c), x)
        = Times(Ratio(At(Sent(r, c), x), At(sepPot[{r, c}], x)), At(pot[r], x))
  BY <1>0, <1>2, SendAt
<1>5. At(Sent(r, c), x) = Times(a, b) BY <1>3, SentExact
<1>6. At(sepPot[{r, c}], x) = Times(p, b) BY <1>3 DEF ExactInv, SepsExact
<1>7. /\ Own(r, c) \in SUBSET Clique /\ Own(c, r) \in SUBSET Clique
      /\ Across(r, c) \in SUBSET Own(c, r) /\ Across(c, r) \in SUBSET Own(r, c)
      /\ \A h \in Own(r, c) : ~ Beyond(Clique, tree, r, c, h)
      /\ \A h \in Across(r, c) : Beyond(Clique, tree, r, c, h)
  BY <1>0, OwnHasMore DEF Own, Across, Has, Absorbed
<1>8. \A h \in Own(c, r) : Beyond(Clique, tree, r, c, h)
  <2> SUFFICES ASSUME NEW h \in Own(c, r) PROVE Beyond(Clique, tree, r, c, h)
    OBVIOUS
  <2>1. h \in Clique /\ ~ Beyond(Clique, tree, c, r, h) BY <1>7 DEF Own
  <2> QED BY <1>0, <2>1, TwoSides
<1>9. a \in Number /\ b \in Number /\ p \in Number /\ q \in Number
  <2>1. Across(r, c) \in SUBSET Clique /\ Across(c, r) \in SUBSET Clique BY <1>7
  <2> HIDE DEF S
  <2> QED BY <1>0, <1>1, <1>3, <1>7, <2>1, MarginIsNumber
<1>10. At(pot[r], x) = Times(q, p)
  <2>1. At(pot[r], x) = Margin(Has(r), r, x) BY DEF ExactInv, PotsExact
  <2>2. Margin(Has(r), r, x) = Times(q, Margin(Across(r, c), r, x))
    <3>1. Sepset({r, c}) \subseteq r BY <1>1
    <3> QED BY <1>0, <1>1, <3>1, PartsOf
  <2>3. Margin(Across(r, c), r, x) = p
    <3>1. Across(r, c) \in SUBSET Clique BY <1>7
    <3> QED BY <1>0, <1>7, <3>1, BeyondMargin
  <2> QED BY <2>1, <2>2, <2>3
<1>11. Margin(Own(r, c) \cup Own(c, r), r, x) = Times(q, a)
  <2>1. /\ Own(r, c) \cap Own(c, r) = {}
        /\ (UNION Own(r, c)) \cap (UNION Own(c, r)) \subseteq Sepset({r, c})
    BY <1>0, <1>7, <1>8, SidesShare
  <2>2. (UNION Own(r, c)) \cap (UNION Own(c, r)) \subseteq r BY <1>1, <2>1
  <2>3. Margin(Own(r, c) \cup Own(c, r), r, x) = Times(q, Margin(Own(c, r), r, x))
    BY <1>0, <1>1, <1>7, <2>1, <2>2, MarginApart
  <2>4. Margin(Own(c, r), r, x) = a BY <1>0, <1>7, <1>8, BeyondMargin
  <2> QED BY <2>3, <2>4
<1>12. ASSUME p = Zero PROVE a = Zero
  <2> HIDE DEF S
  <2>1. Margin(Across(r, c), S, x) = Zero BY <1>12
  <2> QED BY <1>0, <1>1, <1>3, <1>7, <2>1, MarginMore
<1>13. ASSUME b = Zero PROVE q = Zero
  <2>1. Margin(Own(r, c), S, x) = Zero
    <3>1. Margin(Across(c, r), S, x) = Zero BY <1>13
    <3> HIDE DEF S
    <3> QED BY <1>0, <1>1, <1>3, <1>7, <3>1, MarginMore
  <2>2. Covered(r, Own(r, c))
    <3>1. r \in Own(r, c) BY <1>0, HasHome, OwnSide DEF Own
    <3> QED BY <3>1 DEF Covered
  <2> HIDE DEF S
  <2> QED BY <1>0, <1>1, <1>7, <2>1, <2>2, ZeroWithin
<1>14. Times(Ratio(Times(a, b), Times(p, b)), Times(q, p)) = Times(q, a)
  <2> HIDE DEF a, b, p, q
  <2> QED BY <1>9, <1>12, <1>13, RatioExact
<1> QED BY <1>4, <1>5, <1>6, <1>10, <1>11, <1>14

\* Before the first message.
LEMMA AtFirst ==
  ASSUME PotsInv, \A u, h \in Clique : cont[u][h] = IF h = u THEN 1 ELSE 0
  PROVE  /\ \A c \in Clique : Has(c) = {c}
         /\ \A u, w \in Clique : {u, w} \in tree => Across(u, w) = {}
<1>1. IsTree(Clique, tree) BY TreeIsTree DEF PotsInv, PotsTypeOK
<1>2. ASSUME NEW c \in Clique PROVE Has(c) = {c}
  <2>1. \A h \in Clique : cont[c][h] = 1 => h = c OBVIOUS
  <2> QED BY <2>1, HasHome DEF Has, Absorbed
<1>3. ASSUME NEW u \in Clique, NEW w \in Clique, {u, w} \in tree PROVE Across(u, w) = {}
  BY <1>1, <1>2, <1>3, OwnSide DEF Across
<1> QED BY <1>2, <1>3

LEMMA InitExactInv == InitTables => ExactInv
<1> SUFFICES ASSUME InitTables PROVE ExactInv
  OBVIOUS
<1>1. DataInv /\ PotsInv BY InitDataInv DEF DataInv, TableInv
<1>2. \A u, h \in Clique : cont[u][h] = IF h = u THEN 1 ELSE 0
  BY DEF InitTables, InitializePotentials
<1>3. PotsExact
  <2> SUFFICES ASSUME NEW c \in Clique, NEW x, Valued(c, x)
               PROVE  At(pot[c], x) = Margin(Has(c), c, x)
    BY DEF PotsExact
  <2>1. Has(c) = {c} BY <1>1, <1>2, AtFirst
  <2>2. Margin({c}, c, x) = Made({c}, x) BY <1>1, MarginOfOne
  <2>3. Made({c}, x) = One
    <3>1. TablesOf({c}) = {} BY DEF TablesOf, Multiplied, InitTables
    <3> QED BY <3>1, ProductOfNone DEF Made, JointOf
  <2>4. At(pot[c], x) = One
    <3>1. pot[c] = TabularUnity(c) /\ c \in SUBSET Variables BY ScopeAssumption DEF InitTables
    <3> QED BY <3>1, UnityAt
  <2> QED BY <2>1, <2>2, <2>3, <2>4
<1>4. SepsExact
  <2> SUFFICES ASSUME NEW u \in Clique, NEW w \in Clique, {u, w} \in Carrying,
                      NEW x, Valued(Sepset({u, w}), x)
               PROVE  At(sepPot[{u, w}], x)
                        = Times(Margin(Across(u, w), Sepset({u, w}), x),
                                Margin(Across(w, u), Sepset({u, w}), x))
    BY DEF SepsExact
  <2>1. {u, w} \in tree /\ {w, u} = {u, w} BY DEF Carrying
  <2>2. Across(u, w) = {} /\ Across(w, u) = {} BY <1>1, <1>2, <2>1, AtFirst
  <2>3. At(sepPot[{u, w}], x) = One
    <3>1. sepPot[{u, w}] = TabularUnity(Sepset({u, w})) BY <2>1 DEF InitTables
    <3>2. Sepset({u, w}) \in SUBSET Variables BY DEF Sepset
    <3> QED BY <3>1, <3>2, UnityAt
  <2>4. Times(One, One) = One BY TimesLaws, OneStands
  <2> QED BY <2>2, <2>3, <2>4, MarginOfNone
<1> QED BY <1>1, <1>2, <1>3, <1>4 DEF ExactInv

\* The next table is one more that its host has taken.
LEMMA MultiplyMade ==
  ASSUME DataInv, MultiplyTable, NEW cs \in SUBSET Clique, NEW x, Valued(UNION cs, x)
  PROVE  Made(cs, x)' = IF Host(tables[next]) \in cs
                        THEN Times(At(tables[next], x), Made(cs, x))
                        ELSE Made(cs, x)
<1> DEFINE D == TablesOf(cs)
           E == D \cup {next}
           a == At(tables[next], x)
           f == [i \in D |-> At(tables[i], x)]
           g == [i \in E |-> At(tables[i], x)]
           host == Host(tables[next])
<1>1. /\ tables' = tables /\ cliquePots' = cliquePots /\ next' = next + 1
      /\ next \in 1 .. Len(tables)
  <2>1. next \in 1 .. Len(tables) + 1 /\ next <= Len(tables)
    BY DEF DataInv, TableInv, MultiplyTable
  <2>2. Len(tables) \in Nat BY NetworksAssumption DEF DataInv, TableInv
  <2> QED BY <2>1, <2>2 DEF MultiplyTable
<1>2. Multiplied' = Multiplied \cup {next} /\ next \notin Multiplied
  BY <1>1 DEF Multiplied
<1>3. Tabulated(tables[next]) /\ Containing(tables[next].vbls) # {}
  <2> DEFINE t == tables[next]
  <2>1. Tabulated(t) BY <1>1, NetworksAssumption DEF DataInv, TableInv
  <2> HIDE DEF t
  <2>2. Containing(t.vbls) # {} BY <2>1, HostLaws DEF DataInv
  <2> QED BY <2>1, <2>2 DEF t
<1>4. \A scope : Containing(scope)' = Containing(scope) BY <1>1 DEF Containing
<1>5. TablesOf(cs)' = IF host \in cs THEN E ELSE D
  <2>1. TablesOf(cs)' = {i \in Multiplied' : \E c \in cs :
                           Containing(tables[i].vbls) # {} /\
                           c = cliquePots[Min(Containing(tables[i].vbls))]}
    BY <1>1 DEF TablesOf, Containing
  <2> QED BY <1>2, <1>3, <2>1 DEF TablesOf, Host
<1>6. Made(cs, x)' = ProductOf([i \in TablesOf(cs)' |-> At(tables[i], x)], TablesOf(cs)')
  BY <1>1 DEF Made, JointOf
<1>7. Made(cs, x) = ProductOf(f, D) BY DEF Made, JointOf
<1>8. CASE host \notin cs
  <2>1. TablesOf(cs)' = D BY <1>5, <1>8
  <2> QED BY <1>6, <1>7, <1>8, <2>1
<1>9. CASE host \in cs
  <2>1. TablesOf(cs)' = E BY <1>5, <1>9
  <2>2. Made(cs, x)' = ProductOf(g, E) BY <1>6, <2>1
  <2>3. IsFiniteSet(D) /\ next \notin D /\ E \ {next} = D
    BY <1>2, TablesOfLaws DEF TablesOf
  <2>4. a \in Number
    <3> DEFINE t == tables[next]
    <3>1. Tabulated(t) /\ t.vbls \subseteq host
      <4>1. Tabulated(t) BY <1>3
      <4> HIDE DEF t
      <4>2. t.vbls \subseteq Host(t) BY <4>1, HostLaws DEF DataInv
      <4> QED BY <4>1, <4>2 DEF t
    <3>2. Valued(t.vbls, x) BY <1>9, <3>1 DEF Valued
    <3>3. a = At(t, x) OBVIOUS
    <3> HIDE DEF t, a, host
    <3>4. t.vbls \in SUBSET Variables /\ Full(t, t.vbls) BY <3>1, TabulatedFull
    <3> QED BY <3>2, <3>3, <3>4, FullAt
  <2>5. \A i \in D : f[i] \in Number BY MadeLaws
  <2>6. g[next] = a /\ \A i \in D : g[i] = f[i] OBVIOUS
  <2>7. IsFiniteSet(E) BY <2>3, FS_AddElement
  <2> HIDE DEF f, g, a, D
  <2>8. \A i \in E : g[i] \in Number BY <2>4, <2>5, <2>6
  <2>9. ProductOf(g, E) = Times(g[next], ProductOf(g, E \ {next}))
    <3>1. next \in E OBVIOUS
    <3> HIDE DEF E
    <3> QED BY <2>7, <2>8, <3>1, ProductOfLaws
  <2>10. ProductOf(g, D) = ProductOf(f, D) BY <2>3, <2>5, <2>6, ProductSame
  <2> QED BY <1>7, <1>9, <2>2, <2>3, <2>6, <2>9, <2>10 DEF a
<1> QED BY <1>8, <1>9

OneEach == \A c \in Clique : \A x : Valued(c, x) => Margin({c}, c, x) = Made({c}, x)
NoneAtAll == \A S, x : Margin({}, S, x) = One

LEMMA OneEachHolds == (DataInv => OneEach) /\ (DataInv' => OneEach')
<1>1. DataInv => OneEach BY MarginOfOne DEF OneEach
<1> QED BY <1>1, PTL

LEMMA NoneAtAllHolds == NoneAtAll /\ NoneAtAll'
<1>1. NoneAtAll BY MarginOfNone DEF NoneAtAll
<1> QED BY <1>1, PTL

LEMMA MultiplyExactInv == ~ Log /\ ExactInv /\ MultiplyTable => ExactInv'
<1> SUFFICES ASSUME ~ Log, ExactInv, MultiplyTable PROVE ExactInv'
  OBVIOUS
<1> DEFINE t == tables[next]
           d == Host(t)
           new == ProductTabular(t, pot[d], ComputeMargInd(d, t.vbls))
<1>1. DataInv /\ TableInv /\ PotsInv /\ DOMAIN pot = Clique
  BY DEF ExactInv, DataInv, TableInv
<1>2. DataInv' BY <1>1, DataInvKept DEF NextTables
<1>3. /\ tree' = tree /\ cont' = cont /\ sepPot' = sepPot /\ tables' = tables
      /\ next <= Len(tables)
  BY DEF MultiplyTable, potVars
<1>4. \A u, h \in Clique : cont[u][h] = IF h = u THEN 1 ELSE 0 BY <1>3 DEF ExactInv
<1>5. /\ \A c \in Clique : Has(c) = {c} /\ Has(c)' = {c}
      /\ \A u, w \in Clique : {u, w} \in tree => Across(u, w) = {} /\ Across(u, w)' = {}
  <2>1. /\ \A c \in Clique : Has(c) = {c}
        /\ \A u, w \in Clique : {u, w} \in tree => Across(u, w) = {}
    BY <1>1, <1>4, AtFirst
  <2>2. \A c : Has(c)' = Has(c) BY <1>3 DEF Has, Absorbed, Carrying, Sepset
  <2>3. \A u, w : Across(u, w)' = Across(u, w) BY <1>3, <2>2 DEF Across
  <2> QED BY <2>1, <2>2, <2>3
<1>6. /\ d \in Clique /\ pot' = [pot EXCEPT ![d] = new]
      /\ \A x : Valued(d, x) => At(new, x) = Times(At(t, x), At(pot[d], x))
  BY <1>1, Multiplied1
<1> HIDE DEF new
<1>7. PotsExact'
  <2> SUFFICES ASSUME NEW c \in Clique, NEW x, Valued(c, x)
               PROVE  At(pot'[c], x) = Margin(Has(c), c, x)'
    BY DEF PotsExact
  <2>1. At(pot[c], x) = Made({c}, x)
    <3>1. At(pot[c], x) = Margin({c}, c, x) BY <1>5 DEF ExactInv, PotsExact
    <3> QED BY <1>1, <3>1, MarginOfOne
  <2>2. Margin(Has(c), c, x)' = Made({c}, x)'
    <3>1. Margin({c}, c, x)' = Made({c}, x)' BY <1>2, OneEachHolds DEF OneEach
    <3>2. Margin(Has(c), c, x)' = Margin({c}, c, x)' BY <1>5
    <3> QED BY <3>1, <3>2
  <2>3. Made({c}, x)' = IF d \in {c} THEN Times(At(t, x), Made({c}, x)) ELSE Made({c}, x)
    <3>1. Valued(UNION {c}, x) BY DEF Valued
    <3> QED BY <1>1, <3>1, MultiplyMade
  <2>4. CASE c = d
    <3>1. At(pot'[c], x) = Times(At(t, x), At(pot[c], x)) BY <1>1, <1>6, <2>4
    <3> HIDE DEF d, t
    <3> QED BY <2>1, <2>2, <2>3, <2>4, <3>1
  <2>5. CASE c # d
    <3>1. pot'[c] = pot[c] BY <1>1, <1>6, <2>5
    <3> HIDE DEF d, t
    <3> QED BY <2>1, <2>2, <2>3, <2>5, <3>1
  <2> QED BY <2>4, <2>5
<1>8. SepsExact'
  <2>1. Carrying' = Carrying /\ \A e : Sepset(e)' = Sepset(e) BY <1>3 DEF Carrying, Sepset
  <2> SUFFICES ASSUME NEW u \in Clique, NEW w \in Clique, {u, w} \in Carrying,
                      NEW x, Valued(Sepset({u, w}), x)
               PROVE  At(sepPot'[{u, w}], x)
                        = Times(Margin(Across(u, w), Sepset({u, w}), x)',
                                Margin(Across(w, u), Sepset({u, w}), x)')
    BY <2>1 DEF SepsExact
  <2>2. {u, w} \in tree /\ {w, u} = {u, w} BY DEF Carrying
  <2>3. Across(u, w) = {} /\ Across(w, u) = {} /\ Across(u, w)' = {} /\ Across(w, u)' = {}
    BY <1>5, <2>2
  <2>4. At(sepPot[{u, w}], x) = Times(One, One)
    <3>1. At(sepPot[{u, w}], x) = Times(Margin({}, Sepset({u, w}), x), Margin({}, Sepset({u, w}), x))
      BY <2>3 DEF ExactInv, SepsExact
    <3> QED BY <3>1, MarginOfNone
  <2>5. Margin(Across(u, w), Sepset({u, w}), x)' = One /\ Margin(Across(w, u), Sepset({u, w}), x)' = One
    BY <2>3, NoneAtAllHolds DEF NoneAtAll
  <2> QED BY <1>3, <2>4, <2>5
<1> QED BY <1>2, <1>3, <1>4, <1>7, <1>8 DEF ExactInv

LEMMA SendExactInv ==
  ASSUME JunctionTrees, NoneInside, ~ Log, ExactInv, NEW r \in Clique, NEW c \in Clique, Send(r, c)
  PROVE  ExactInv'
<1> DEFINE e == {r, c}
           S == Sepset(e)
<1>1. DataInv /\ TableInv /\ PotsInv /\ DOMAIN pot = Clique /\ DOMAIN sepPot = tree
      /\ IsTree(Clique, tree)
  BY TreeOfTables DEF ExactInv, DataInv, TableInv
<1>2. DataInv' BY <1>1, DataInvKept DEF NextTables
<1>3. /\ e \in tree
      /\ pot' = [pot EXCEPT ![r] = Received(r, c)]
      /\ sepPot' = [sepPot EXCEPT ![e] = Sent(r, c)]
  BY <1>1, SendIs
<1>4. /\ tree' = tree /\ tables' = tables /\ next' = next /\ cliquePots' = cliquePots
      /\ next > Len(tables) /\ MessagePass(r, c)
      /\ Carrying' = Carrying /\ (\A f : Sepset(f)' = Sepset(f))
  BY DEF Send, MessagePass, Carrying, Sepset
<1>5. /\ pot'[r] = Received(r, c) /\ \A d \in Clique \ {r} : pot'[d] = pot[d]
      /\ sepPot'[e] = Sent(r, c) /\ \A f \in tree \ {e} : sepPot'[f] = sepPot[f]
  BY <1>1, <1>3
<1>6. \A cs, T, x : Margin(cs, T, x)' = Margin(cs, T, x)
  BY <1>4 DEF Margin, Terms, Rest, Made, JointOf, TablesOf, Multiplied, Containing
<1>7. \A d \in Clique : d # r \/ S = {} => Has(d)' = Has(d)
  BY <1>1, <1>4, PassHas, PassNothing
<1>8. /\ Sepset({r, c}) # {} => Across(r, c)' = Own(c, r) /\ Across(c, r)' = Across(c, r)
      /\ \A u, w \in Clique : {u, w} \in Carrying /\ {u, w} # {r, c} =>
           Across(u, w)' = Across(u, w)
  <2>1. PotsInv /\ MessagePass(r, c) BY <1>1, <1>4
  <2> QED BY <2>1, PassAcross
<1>9. ~ (next' <= Len(tables'))
  <2>1. next \in Nat /\ Len(tables) \in Nat BY <1>1 DEF TableInv
  <2> QED BY <1>4, <2>1
<1>10. PotsExact'
  <2> SUFFICES ASSUME NEW d \in Clique, NEW x, Valued(d, x)
               PROVE  At(pot'[d], x) = Margin(Has(d), d, x)'
    BY DEF PotsExact
  <2>1. At(pot[d], x) = Margin(Has(d), d, x) BY DEF ExactInv, PotsExact
  <2>2. CASE d # r
    <3>1. Has(d)' = Has(d) BY <1>7, <2>2
    <3>2. Margin(Has(d), d, x)' = Margin(Has(d), d, x) BY <1>6, <3>1
    <3> QED BY <1>5, <2>1, <2>2, <3>2
  <2>3. CASE d = r /\ S = {}
    <3>1. Has(d)' = Has(d) BY <1>7, <2>3
    <3>2. Margin(Has(d), d, x)' = Margin(Has(d), d, x) BY <1>6, <3>1
    <3>3. At(Received(r, c), x) = At(pot[r], x) BY <1>1, <1>3, <2>3, SendAt, ZenonT(60)
    <3> QED BY <1>5, <2>1, <2>3, <3>2, <3>3
  <2>4. CASE d = r /\ S # {}
    <3>1. Has(r)' = Own(r, c) \cup Own(c, r) BY <1>1, <1>4, <2>4, PassHas
    <3>2. Margin(Has(r), r, x)' = Margin(Own(r, c) \cup Own(c, r), r, x) BY <1>6, <3>1
    <3>3. {r, c} \in Carrying BY <1>3, <2>4 DEF Carrying
    <3>4. At(Received(r, c), x) = Margin(Own(r, c) \cup Own(c, r), r, x)
      BY <2>4, <3>3, ReceivedExact
    <3> QED BY <1>5, <2>4, <3>2, <3>4
  <2> QED BY <2>2, <2>3, <2>4
<1>11. SepsExact'
  <2> SUFFICES ASSUME NEW u \in Clique, NEW w \in Clique, {u, w} \in Carrying,
                      NEW x, Valued(Sepset({u, w}), x)
               PROVE  At(sepPot'[{u, w}], x)
                        = Times(Margin(Across(u, w), Sepset({u, w}), x)',
                                Margin(Across(w, u), Sepset({u, w}), x)')
    BY <1>4 DEF SepsExact
  <2>1. {w, u} = {u, w} /\ {u, w} \in tree BY DEF Carrying
  <2>2. CASE {u, w} # e
    <3>1. Across(u, w)' = Across(u, w) /\ Across(w, u)' = Across(w, u)
      <4>1. {w, u} \in Carrying /\ {w, u} # {r, c} /\ {u, w} # {r, c} BY <2>1, <2>2
      <4> QED BY <1>8, <4>1
    <3>2. At(sepPot[{u, w}], x) = Times(Margin(Across(u, w), Sepset({u, w}), x),
                                        Margin(Across(w, u), Sepset({u, w}), x))
      BY DEF ExactInv, SepsExact
    <3>3. sepPot'[{u, w}] = sepPot[{u, w}] BY <1>5, <2>1, <2>2
    <3>4. /\ Margin(Across(u, w), Sepset({u, w}), x)' = Margin(Across(u, w), Sepset({u, w}), x)
          /\ Margin(Across(w, u), Sepset({u, w}), x)' = Margin(Across(w, u), Sepset({u, w}), x)
      BY <1>4, <1>6, <3>1
    <3> QED BY <3>2, <3>3, <3>4
  <2>3. CASE {u, w} = e
    <3>1. {r, c} \in Carrying /\ Valued(Sepset({r, c}), x) BY <2>3
    <3>2. At(Sent(r, c), x) = Times(Margin(Own(c, r), S, x), Margin(Across(c, r), S, x))
      BY <3>1, SentExact
    <3>3. Across(r, c)' = Own(c, r) /\ Across(c, r)' = Across(c, r)
      BY <1>8, <3>1 DEF Carrying
    <3>4. /\ Margin(Across(r, c), S, x)' = Margin(Own(c, r), S, x)
          /\ Margin(Across(c, r), S, x)' = Margin(Across(c, r), S, x)
      BY <1>4, <1>6, <3>3
    <3>5. sepPot'[{u, w}] = Sent(r, c) BY <1>5, <2>3
    <3>6. CASE u = r /\ w = c BY <3>2, <3>4, <3>5, <3>6
    <3>7. CASE u = c /\ w = r
      <4>1. /\ Margin(Own(c, r), S, x) \in Number /\ Margin(Across(c, r), S, x) \in Number
        <5>1. Own(c, r) \in SUBSET Clique /\ Across(c, r) \in SUBSET Clique
          BY DEF Own, Across, Has, Absorbed
        <5>2. S \in SUBSET Variables /\ Valued(S, x) BY <1>1, <1>3, <3>1, EdgeScope
        <5> HIDE DEF S
        <5> QED BY <1>1, <5>1, <5>2, MarginIsNumber
      <4>2. Times(Margin(Own(c, r), S, x), Margin(Across(c, r), S, x))
              = Times(Margin(Across(c, r), S, x), Margin(Own(c, r), S, x))
        BY <4>1, TimesLaws
      <4> QED BY <2>3, <3>2, <3>4, <3>5, <3>7, <4>2
    <3>8. (u = r /\ w = c) \/ (u = c /\ w = r) BY <2>3
    <3> QED BY <3>6, <3>7, <3>8
  <2> QED BY <2>2, <2>3
<1> QED BY <1>2, <1>9, <1>10, <1>11 DEF ExactInv

LEMMA ExactInvKept ==
  JunctionTrees /\ NoneInside /\ ~ Log /\ ExactInv /\ [NextTables]_tableVars => ExactInv'
<1> SUFFICES ASSUME JunctionTrees, NoneInside, ~ Log, ExactInv, [NextTables]_tableVars PROVE ExactInv'
  OBVIOUS
<1>1. CASE MultiplyTable BY <1>1, MultiplyExactInv
<1>2. ASSUME NEW r \in Clique, NEW c \in Clique, Send(r, c) PROVE ExactInv'
  BY <1>2, SendExactInv
<1>3. CASE UNCHANGED tableVars
  <2>1. DataInv' BY DataInvKept DEF ExactInv
  <2>2. /\ tree' = tree /\ cont' = cont /\ tables' = tables /\ next' = next
        /\ cliquePots' = cliquePots /\ pot' = pot /\ sepPot' = sepPot
    BY <1>3 DEF tableVars, potVars
  <2>3. \A cs, T, x : Margin(cs, T, x)' = Margin(cs, T, x)
    BY <2>2 DEF Margin, Terms, Rest, Made, JointOf, TablesOf, Multiplied, Containing
  <2>4. /\ Carrying' = Carrying /\ (\A f : Sepset(f)' = Sepset(f))
        /\ \A u : Has(u)' = Has(u)
    BY <2>2 DEF Carrying, Sepset, Has, Absorbed
  <2>5. \A u, w : Across(u, w)' = Across(u, w) BY <2>2, <2>4 DEF Across
  <2>6. PotsExact'
    <3> SUFFICES ASSUME NEW d \in Clique, NEW x, Valued(d, x)
                 PROVE  At(pot[d], x) = Margin(Has(d), d, x)'
      BY <2>2 DEF PotsExact
    <3>1. Margin(Has(d), d, x)' = Margin(Has(d), d, x) BY <2>3, <2>4
    <3> QED BY <3>1 DEF ExactInv, PotsExact
  <2>7. SepsExact'
    <3> SUFFICES ASSUME NEW u \in Clique, NEW w \in Clique, {u, w} \in Carrying,
                        NEW x, Valued(Sepset({u, w}), x)
                 PROVE  At(sepPot[{u, w}], x)
                          = Times(Margin(Across(u, w), Sepset({u, w}), x)',
                                  Margin(Across(w, u), Sepset({u, w}), x)')
      BY <2>2, <2>4 DEF SepsExact
    <3>1. /\ Margin(Across(u, w), Sepset({u, w}), x)' = Margin(Across(u, w), Sepset({u, w}), x)
          /\ Margin(Across(w, u), Sepset({u, w}), x)' = Margin(Across(w, u), Sepset({u, w}), x)
      BY <2>3, <2>4, <2>5
    <3> QED BY <3>1 DEF ExactInv, SepsExact
  <2> QED BY <2>1, <2>2, <2>6, <2>7 DEF ExactInv
<1> QED BY <1>1, <1>2, <1>3 DEF NextTables

LEMMA ExactInvariance == JunctionTrees /\ NoneInside /\ ~ Log => (SpecTables => []ExactInv)
<1> SUFFICES ASSUME JunctionTrees, NoneInside, ~ Log PROVE SpecTables => []ExactInv
  OBVIOUS
<1>1. ExactInv /\ [NextTables]_tableVars => ExactInv' BY ExactInvKept
<1> QED BY <1>1, InitExactInv, PTL DEF SpecTables

\* The margin that the properties speak of.
LEMMA MarginOfIs ==
  ASSUME DataInv, NEW cs \in SUBSET Clique, NEW S \in SUBSET Variables, NEW x \in Assignments[S]
  PROVE  Valued(S, x) /\ MarginOf(cs, x) = Margin(cs, S, x)
<1> DEFINE R == (UNION cs) \ S
           f == [y \in Assignments[R] |->
                   Made(cs, [v \in S \cup R |-> IF v \in S THEN x[v] ELSE y[v]])]
<1>1. DOMAIN x = S /\ Valued(S, x)
  <2>1. x \in [S -> Nat] /\ Valued(S, x) BY AssignmentsAre
  <2> QED BY <2>1
<1>2. MarginOf(cs, x) = SumOf(f, Assignments[R]) BY <1>1 DEF MarginOf, Made
<1>3. \A y \in Rest(cs, S) : Terms(cs, S, x)[y] \in Number BY <1>1, MarginIsNumber
<1>4. IsFiniteSet(Assignments[R]) /\ Rest(cs, S) = Assignments[R] BY RestFinite DEF Rest
<1>5. ASSUME NEW y \in Rest(cs, S) PROVE f[y] = Terms(cs, S, x)[y]
  <2> DEFINE z == [v \in S \cup R |-> IF v \in S THEN x[v] ELSE y[v]]
  <2>1. Valued(UNION cs, Joined(S, x, y)) BY <1>1, JoinedValued
  <2>2. \A v \in UNION cs : z[v] = Joined(S, x, y)[v] BY CliqueVariables DEF Joined
  <2>3. f[y] = Made(cs, z) BY <1>4
  <2> HIDE DEF z, f, R
  <2>4. Made(cs, z) = Made(cs, Joined(S, x, y)) BY <2>1, <2>2, MadeLaws
  <2> QED BY <2>3, <2>4 DEF Terms
<1>6. SumOf(f, Assignments[R]) = SumOf(Terms(cs, S, x), Assignments[R])
  <2> HIDE DEF f, R
  <2> QED BY <1>3, <1>4, <1>5, SumOfSame
<1> QED BY <1>1, <1>2, <1>4, <1>6 DEF Margin

(***************************************************************************)
(* Inference is exact: at any time, after any messages in any order, each  *)
(* clique's table holds the margin, over its own variables, of the product *)
(* of all CPTs and observations in the cliques it has absorbed: nothing    *)
(* lost, nothing counted twice, nothing left in by a ratio of old and new, *)
(* and no entry spoilt where a separator is 0.  On junction trees, and not *)
(* for the log variants or where a clique lies inside a neighbour.         *)
(***************************************************************************)
THEOREM TablesExact == JunctionTrees /\ NoneInside /\ ~ Log => (SpecTables => []Exact)
<1>1. ASSUME ExactInv PROVE Exact
  <2> SUFFICES ASSUME NEW c \in Clique, NEW x \in Assignments[c]
               PROVE  At(pot[c], x) = MarginOf(Has(c), x)
    BY DEF Exact, Has
  <2>1. DataInv /\ c \in SUBSET Variables /\ Has(c) \in SUBSET Clique
    BY <1>1, ScopeAssumption DEF ExactInv, Has, Absorbed
  <2>2. Valued(c, x) /\ MarginOf(Has(c), x) = Margin(Has(c), c, x) BY <2>1, MarginOfIs
  <2> QED BY <1>1, <2>2 DEF ExactInv, PotsExact
<1> QED BY <1>1, ExactInvariance, PTL

\* What a separator has absorbed came from both sides.
LEMMA SeparatorHas ==
  ASSUME PotsInv, NEW u \in Clique, NEW w \in Clique, {u, w} \in Carrying
  PROVE  Absorbed(sep[{u, w}], u) = Across(w, u) \cup Across(u, w)
<1>1. IsTree(Clique, tree) /\ {u, w} \in tree /\ {w, u} = {u, w}
  BY TreeIsTree DEF PotsInv, PotsTypeOK, Carrying
<1>2. ASSUME NEW h \in Clique
      PROVE  h \in Absorbed(sep[{u, w}], u) <=> h \in Across(w, u) \cup Across(u, w)
  <2>1. Connected(Clique, Carrying, h, u) <=> Connected(Clique, Carrying, h, w)
    BY <1>1, EndsReach
  <2>2. Beyond(Clique, tree, u, w, h) <=> ~ Beyond(Clique, tree, w, u, h) BY <1>1, TwoSides
  <2>3. /\ Beyond(Clique, tree, u, w, h) => sep[{u, w}][h] = cont[u][h]
        /\ Beyond(Clique, tree, w, u, h) => sep[{u, w}][h] = cont[w][h]
    BY <1>1 DEF PotsInv, Downhill
  <2> QED BY <2>1, <2>2, <2>3 DEF Absorbed, Across, Has
<1> QED BY <1>2 DEF Absorbed, Across, Has

LEMMA SeparatorExact ==
  ASSUME JunctionTrees, ExactInv, NEW u \in Clique, NEW w \in Clique, {u, w} \in Carrying
  PROVE  /\ sepPot[{u, w}].vbls = Sepset({u, w})
         /\ \A x \in Assignments[Sepset({u, w})] :
              At(sepPot[{u, w}], x) = MarginOf(Absorbed(sep[{u, w}], u), x)
<1> DEFINE S == Sepset({u, w})
           A == Across(w, u)
           B == Across(u, w)
<1>1. DataInv /\ PotsInv /\ IsTree(Clique, tree) /\ {u, w} \in tree /\ {w, u} = {u, w}
  BY TreeOfTables DEF ExactInv, DataInv, TableInv, Carrying
<1>2. Full(sepPot[{u, w}], S) /\ S \in SUBSET Variables BY <1>1, EdgeScope DEF DataInv, Carrying
<1>3. Absorbed(sep[{u, w}], u) = A \cup B BY <1>1, SeparatorHas
<1>4. A \in SUBSET Clique /\ B \in SUBSET Clique /\ A \cup B \in SUBSET Clique
  BY DEF Across, Has, Absorbed
<1>5. ASSUME NEW h \in A PROVE ~ Beyond(Clique, tree, u, w, h)
  <2>1. h \in Clique /\ Beyond(Clique, tree, w, u, h) BY <1>4 DEF Across
  <2> QED BY <1>1, <2>1, TwoSides
<1>6. \A h \in B : Beyond(Clique, tree, u, w, h) BY DEF Across
<1>7. A \cap B = {} /\ (UNION A) \cap (UNION B) \subseteq S
  <2>1. A \in SUBSET Clique /\ \A h \in A : ~ Beyond(Clique, tree, u, w, h) BY <1>4, <1>5
  <2>2. B \in SUBSET Clique /\ \A h \in B : Beyond(Clique, tree, u, w, h) BY <1>4, <1>6
  <2> HIDE DEF A, B
  <2> QED BY <1>1, <2>1, <2>2, SidesShare
<1>8. ASSUME NEW x \in Assignments[S] PROVE At(sepPot[{u, w}], x) = MarginOf(A \cup B, x)
  <2>1. Valued(S, x) /\ MarginOf(A \cup B, x) = Margin(A \cup B, S, x)
    <3> HIDE DEF A, B, S
    <3> QED BY <1>1, <1>2, <1>4, <1>8, MarginOfIs
  <2>2. At(sepPot[{u, w}], x) = Times(Margin(B, S, x), Margin(A, S, x))
    <3>1. Valued(Sepset({u, w}), x) BY <2>1
    <3> QED BY <3>1 DEF ExactInv, SepsExact
  <2> HIDE DEF A, B, S
  <2>3. Margin(A \cup B, S, x) = Times(Margin(A, S, x), Margin(B, S, x))
    BY <1>1, <1>2, <1>4, <1>7, <2>1, MarginApart
  <2>4. Margin(A, S, x) \in Number /\ Margin(B, S, x) \in Number
    BY <1>1, <1>2, <1>4, <2>1, MarginIsNumber
  <2>5. Times(Margin(A, S, x), Margin(B, S, x)) = Times(Margin(B, S, x), Margin(A, S, x))
    BY <2>4, TimesLaws
  <2> QED BY <2>1, <2>2, <2>3, <2>5
<1>9. sepPot[{u, w}].vbls = S
  <2> DEFINE p == sepPot[{u, w}]
  <2>1. Full(p, S) BY <1>2
  <2> HIDE DEF p, S
  <2>2. p.vbls = S BY <2>1 DEF Full, Shaped
  <2> QED BY <2>2 DEF p
<1> QED BY <1>3, <1>8, <1>9

(***************************************************************************)
(* And so of separators, which say what has passed over an edge: the       *)
(* product of what its ends have from each other.                          *)
(***************************************************************************)
THEOREM SeparatorsAreExact ==
  JunctionTrees /\ NoneInside /\ ~ Log => (SpecTables => []SeparatorsExact)
<1>1. ASSUME JunctionTrees, ExactInv PROVE SeparatorsExact
  <2> DEFINE end(e) == CHOOSE c \in e : TRUE
  <2> SUFFICES ASSUME NEW e \in Carrying
               PROVE  /\ sepPot[e].vbls = Sepset(e)
                      /\ \A x \in Assignments[Sepset(e)] :
                           At(sepPot[e], x) = MarginOf(Absorbed(sep[e], end(e)), x)
    BY DEF SeparatorsExact
  <2>1. e \in Edges(Clique)
    BY <1>1, TreeOfTables DEF ExactInv, DataInv, IsTree, Carrying
  <2>2. PICK a \in Clique, b \in Clique : e = {a, b} BY <2>1 DEF Edges
  <2>3. end(e) \in e BY <2>2
  <2> HIDE DEF end
  <2>4. CASE end(e) = a BY <1>1, <2>2, <2>4, SeparatorExact
  <2>5. CASE end(e) = b
    <3>1. e = {b, a} BY <2>2
    <3> QED BY <1>1, <2>5, <3>1, SeparatorExact
  <2> QED BY <2>2, <2>3, <2>4, <2>5
<1>2. ASSUME JunctionTrees, NoneInside, ~ Log PROVE SpecTables => []SeparatorsExact
  <2>1. ExactInv => SeparatorsExact BY <1>1, <1>2
  <2>2. SpecTables => []ExactInv BY <1>2, ExactInvariance
  <2> QED BY <2>1, <2>2, PTL
<1> QED BY <1>2

LEMMA OfOneVariable ==
  ASSUME NEW v \in Variables
  PROVE  /\ GetCardinality({v}) = Card[v]
         /\ \A x : Valued({v}, x) => Place({v}, x) = x[v]
<1>1. Card[v] \in Nat \ {0} BY CardFacts
<1>2. {v} \ {v} = {} /\ {v} \in SUBSET Variables /\ {} \in SUBSET Variables OBVIOUS
<1>3. GetCardinality({v}) = Card[v]
  <2>1. GetCardinality({v}) = Card[v] * GetCardinality({v} \ {v}) BY <1>2, CardinalityLaws
  <2>2. GetCardinality({}) = 1 BY <1>2, CardinalityLaws
  <2> QED BY <1>1, <1>2, <2>1, <2>2
<1>4. ASSUME NEW x, Valued({v}, x) PROVE Place({v}, x) = x[v]
  <2>1. Max({v}) = v
    <3>1. Max({v}) \in {v} BY <1>2, Greatest
    <3> QED BY <3>1
  <2>2. Place({v}, x) = Place({v} \ {Max({v})}, x) * Card[Max({v})] + x[Max({v})]
    BY <1>2, <1>4, PlaceLaws
  <2>3. Place({}, x) = 0
    <3>1. Valued({}, x) BY DEF Valued
    <3> QED BY <1>2, <3>1, PlaceLaws
  <2>4. Place({v}, x) = 0 * Card[v] + x[v] BY <1>2, <2>1, <2>2, <2>3
  <2>5. x[v] \in Nat BY <1>1, <1>4 DEF Valued
  <2> QED BY <1>1, <2>4, <2>5
<1> QED BY <1>3, <1>4

\* The query for a variable, from any table over it and others.
LEMMA QueryAt ==
  ASSUME NEW T \in SUBSET Variables, NEW v \in T, T # {v}, NEW p, Full(p, T)
  PROVE  LET mi == ComputeMulInd({v}, T)
         IN /\ SumMarginSingleVbl(p, v) = SumMarginTabular(p, mi).data
            /\ DOMAIN SumMarginSingleVbl(p, v) = 0 .. Card[v] - 1
<1> DEFINE mi == ComputeMulInd({v}, T)
           mg == ComputeMargInd(p.vbls, {v})
<1>1. p.vbls = T BY DEF Full, Shaped
<1>2. SymDiff(T, {v}) = T \ {v} /\ T \ {v} # {} /\ T \ {v} \in SUBSET Variables
  BY DEF SymDiff
<1>3. EnumerateValues(T \ {v}) # <<>> BY <1>2, EnumerateLaws
<1>4. mg = [vbls |-> T \ {v}, indices |-> AgreeingIndices({v}, T)]
  BY <1>1, <1>2, <1>3 DEF ComputeMargInd
<1>5. mg # NULL
  <2>1. {v} \in SUBSET T OBVIOUS
  <2> QED BY <1>4, <2>1, NullAssumption
<1>6. SumMarginSingleVbl(p, v) = SumMarginTabular(p, mg).data BY <1>5 DEF SumMarginSingleVbl
<1>7. mg.indices = AgreeingIndices({v}, T) /\ mi.indices = AgreeingIndices({v}, T)
  BY <1>4 DEF ComputeMulInd
<1> HIDE DEF mi, mg
<1>8. SumMarginTabular(p, mg).data = SumMarginTabular(p, mi).data
  BY <1>7 DEF SumMarginTabular
<1>9. DOMAIN SumMarginTabular(p, mi).data = DOMAIN AgreeingIndices({v}, T)
  BY <1>7 DEF SumMarginTabular
<1>10. DOMAIN AgreeingIndices({v}, T) = 0 .. Card[v] - 1
  <2>1. {v} \in SUBSET T /\ {v} # {} /\ {v} # T OBVIOUS
  <2>2. DOMAIN AgreeingIndices({v}, T) = 0 .. GetCardinality({v}) - 1 BY <2>1, AgreeingLaws
  <2>3. v \in Variables OBVIOUS
  <2>4. GetCardinality({v}) = Card[v] BY <2>3, OfOneVariable
  <2> QED BY <2>2, <2>4
<1> QED BY <1>6, <1>8, <1>9, <1>10 DEF mi

\* Once a clique has absorbed all that can reach it, it gives the margins of its
\* variables.
LEMMA CliqueAnswers ==
  ASSUME ExactInv, NEW v \in Variables, NEW c \in Clique, v \in c, c # {v}, Has(c) = Reaching(c)
  PROVE  SumMarginSingleVbl(pot[c], v)
           = [k \in 0 .. Card[v] - 1 |-> MarginOf(Reaching(c), [w \in {v} |-> k])]
<1> DEFINE S == {v}
           p == pot[c]
           H == Has(c)
           mi == ComputeMulInd(S, c)
           answer == SumMarginSingleVbl(p, v)
<1>1. /\ DataInv /\ Full(p, c) /\ c \in SUBSET Variables /\ S \in SUBSET c /\ S # {} /\ S # c
      /\ H \in SUBSET Clique /\ c \in H /\ S \in SUBSET Variables
  BY HasHome, ScopeAssumption DEF ExactInv, DataInv, TableInv
<1>2. /\ answer = SumMarginTabular(p, mi).data
      /\ DOMAIN answer = 0 .. Card[v] - 1
  <2> HIDE DEF p
  <2> QED BY <1>1, QueryAt
<1>3. ASSUME NEW k \in 0 .. Card[v] - 1
      PROVE  answer[k] = MarginOf(H, [w \in S |-> k])
  <2> DEFINE x == [w \in S |-> k]
  <2>1. x \in Assignments[S]
    <3>1. x \in [S -> Nat] /\ Valued(S, x) BY CardFacts DEF Valued
    <3> HIDE DEF x, S
    <3> QED BY <1>1, <3>1, AssignmentsAre
  <2>2. x[v] = k OBVIOUS
  <2> HIDE DEF x
  <2>3. Valued(S, x) /\ MarginOf(H, x) = Margin(H, S, x)
    <3> HIDE DEF S, H
    <3> QED BY <1>1, <2>1, MarginOfIs
  <2>4. Place(S, x) = k BY <2>2, <2>3, OfOneVariable
  <2>5. answer[k] = At(SumMarginTabular(p, mi), x)
    <3>1. SumMarginTabular(p, mi).vbls = S BY DEF SumMarginTabular, ComputeMulInd
    <3> HIDE DEF p, mi, S, answer
    <3> QED BY <1>2, <2>4, <3>1 DEF At
  <2>6. /\ \A z \in Assignments[c \ S] : Valued(c, Joined(S, x, z))
        /\ At(SumMarginTabular(p, mi), x) = SumOf(Fibre(p, c, S, x), Assignments[c \ S])
    <3> HIDE DEF p, S
    <3> QED BY <1>1, <2>3, MarginTotal
  <2>7. Fibre(p, c, S, x) = Slices(H, c, S, x)
    <3>1. ASSUME NEW z \in Assignments[c \ S]
          PROVE  At(p, Joined(S, x, z)) = Margin(H, c, Joined(S, x, z))
      BY <2>6 DEF ExactInv, PotsExact
    <3> HIDE DEF p, S, H
    <3> QED BY <3>1 DEF Fibre, Slices
  <2>8. Margin(H, S, x) = SumOf(Slices(H, c, S, x), Assignments[c \ S])
    <3>1. Covered(c, H) BY <1>1 DEF Covered
    <3> HIDE DEF S, H
    <3>2. Sliced(H, c, S, x) BY <1>1, <2>3, <3>1, MarginWithin
    <3> QED BY <3>2 DEF Sliced
  <2> QED BY <2>3, <2>5, <2>6, <2>7, <2>8 DEF x
<1>4. answer = [k \in DOMAIN answer |-> answer[k]]
  BY <1>2 DEF SumMarginTabular
<1>5. answer = [k \in 0 .. Card[v] - 1 |-> MarginOf(H, [w \in S |-> k])]
  <2> HIDE DEF answer, H, S
  <2> QED BY <1>2, <1>3, <1>4
<1> QED BY <1>5

(***************************************************************************)
(* What the program is for: once a clique has absorbed all that can reach  *)
(* it, asking any of its variables' margins there gives that variable's    *)
(* margin of the whole network with its observations, the same whichever   *)
(* of the variable's cliques is asked.                                     *)
(***************************************************************************)
THEOREM QueriesAnswered ==
  JunctionTrees /\ NoneInside /\ ~ Log => (SpecTables => []Answers)
<1>1. ASSUME ExactInv PROVE Answers
  <2>1. cliquePots \in [1 .. Cardinality(Clique) -> Clique]
    BY <1>1, OrdersAssumption DEF ExactInv, DataInv, SetToSeqs
  <2>2. \A w \in Variables : \A j \in AllContClqPot(w) :
          cliquePots[j] \in Clique /\ w \in cliquePots[j]
    BY <2>1 DEF AllContClqPot, Containing
  <2>3. \A v \in Variables, c \in Clique : v \in c /\ c # {v} /\ Has(c) = Reaching(c) =>
          SumMarginSingleVbl(pot[c], v)
            = [k \in 0 .. Card[v] - 1 |-> MarginOf(Reaching(c), [w \in {v} |-> k])]
    BY <1>1, CliqueAnswers
  <2> QED BY <2>2, <2>3 DEF Answers, Has
<1> QED BY <1>1, ExactInvariance, PTL

-----------------------------------------------------------------------------
(***************************************************************************)
(* The sweeps on tables.                                                   *)
(***************************************************************************)
\* Nothing is swept before the tables are in.
SweptLater ==
  /\ next \in Nat
  /\ pc # "idle" \/ phase # "fresh" => next > Len(tables)

LEMMA SweepStep == [NextInference]_inferenceVars => [Next]_vars
BY DEF NextInference, MultiplyIn, MultiplyTable, CallSweep, Walk, ReturnWithTable, PassTable,
       Next, Sweep, inferenceVars, vars

LEMMA TableStep == IInv /\ [NextInference]_inferenceVars => [NextTables]_tableVars
<1> SUFFICES ASSUME IInv, [NextInference]_inferenceVars PROVE [NextTables]_tableVars
  OBVIOUS
<1>1. CASE MultiplyIn BY <1>1 DEF MultiplyIn, NextTables
<1>2. ASSUME NEW u, NEW w, Send(u, w) PROVE NextTables
  <2>1. {u, w} \in tree BY <1>2 DEF Send, MessagePass
  <2>2. {u, w} \in SUBSET Clique
    BY <2>1, TreeIsTree DEF IInv, TypeOK, PotsTypeOK, IsTree, Edges
  <2> QED BY <1>2, <2>2 DEF NextTables
<1>3. CASE CallSweep
  BY <1>3 DEF CallSweep, CallCollect, CallDistribute, tableVars, tableState
<1>4. CASE Walk
  BY <1>4 DEF Walk, CollectSkip, CollectRecurse, Collected, Distributed, tableVars, tableState
<1>5. CASE ReturnWithTable BY <1>2, <1>5 DEF ReturnWithTable
<1>6. ASSUME NEW n \in Clique, PassTable(n) PROVE [NextTables]_tableVars
  BY <1>2, <1>6 DEF PassTable, DistributePass, tableVars, tableState
<1>7. CASE UNCHANGED inferenceVars BY <1>7 DEF inferenceVars, tableVars, tableState
<1> QED BY <1>1, <1>3, <1>4, <1>5, <1>6, <1>7 DEF NextInference

LEMMA SweptLaterKept == SweptLater /\ [NextInference]_inferenceVars => SweptLater'
<1> SUFFICES ASSUME SweptLater, [NextInference]_inferenceVars PROVE SweptLater'
  OBVIOUS
<1>1. CASE MultiplyIn
  <2>1. next <= Len(tables) /\ next' = next + 1
    BY <1>1 DEF MultiplyIn, MultiplyTable
  <2>2. pc = "idle" /\ phase = "fresh" BY <2>1 DEF SweptLater
  <2> QED BY <1>1, <2>1, <2>2 DEF MultiplyIn, SweptLater, sweepVars
<1>2. CASE CallSweep BY <1>2 DEF CallSweep, SweptLater, tableState
<1>3. CASE Walk
  BY <1>3 DEF Walk, CollectSkip, CollectRecurse, Collected, Distributed, SweptLater, tableState
<1>4. CASE ReturnWithTable
  BY <1>4 DEF ReturnWithTable, CollectReturn, Send, SweptLater
<1>5. ASSUME NEW n \in Clique, PassTable(n) PROVE SweptLater'
  BY <1>5 DEF PassTable, DistributePass, Send, SweptLater, tableState
<1>6. CASE UNCHANGED inferenceVars
  BY <1>6 DEF inferenceVars, sweepVars, tableState, SweptLater
<1> QED BY <1>1, <1>2, <1>3, <1>4, <1>5, <1>6 DEF NextInference

LEMMA InferenceInvariance == SpecInference => [](IInv /\ SweptLater)
<1>1. InitInference => IInv /\ SweptLater
  BY InitInv DEF InitInference, InitTables, Init, SweptLater
<1>2. IInv /\ SweptLater /\ [NextInference]_inferenceVars => (IInv /\ SweptLater)'
  BY SweepStep, SweptLaterKept, NextKeeps
<1> QED BY <1>1, <1>2, PTL DEF SpecInference

\* The messages the sweeps send on tables are among those of TableMessages, one
\* at a time, so that ExactInv holds of them.
LEMMA InferenceTables == SpecInference => SpecTables
<1>1. InitInference => InitTables BY DEF InitInference
<1> QED BY <1>1, TableStep, InferenceInvariance, PTL DEF SpecInference, SpecTables

\* What is informed has absorbed all that can reach it.
LEMMA InformedHasAll ==
  ASSUME IInv, NEW c \in Informed
  PROVE  c \in Clique /\ Has(c) = Reaching(c) /\ phase # "fresh"
<1>1. root \in Clique /\ Neighbors(root) \subseteq Clique /\ RootComplete /\ NeighborsComplete
      /\ phase \in {"fresh", "collected", "distributed"}
  BY DEF IInv, TypeOK, Neighbors
<1>2. c \in Clique /\ phase # "fresh" BY <1>1 DEF Informed
<1>3. \A h \in Clique : cont[c][h] = 1
  BY <1>1 DEF Informed, RootComplete, NeighborsComplete
<1> QED BY <1>2, <1>3 DEF Has, Absorbed, Reaching

(***************************************************************************)
(* The whole way from the tables to the answer: after the sweeps a caller  *)
(* has made, an informed clique gives the margins of its variables.        *)
(***************************************************************************)
THEOREM SweepsAnswered ==
  JunctionTrees /\ NoneInside /\ ~ Log => (SpecInference => []SweepsAnswer)
<1>1. ASSUME IInv, ExactInv PROVE SweepsAnswer
  <2> SUFFICES ASSUME NEW c \in Informed, NEW v \in c, c # {v}
               PROVE  SumMarginSingleVbl(pot[c], v)
                        = [k \in 0 .. Card[v] - 1 |-> MarginOf(Reaching(c), [w \in {v} |-> k])]
    BY DEF SweepsAnswer
  <2>1. c \in Clique /\ Has(c) = Reaching(c) BY <1>1, InformedHasAll
  <2>2. v \in Variables BY <2>1, ScopeAssumption
  <2> QED BY <1>1, <2>1, <2>2, CliqueAnswers
<1> QED BY <1>1, InferenceInvariance, InferenceTables, ExactInvariance, PTL

\* Cliques that share a variable are reached by the same cliques.
LEMMA ReachingAlike ==
  ASSUME IInv, JunctionTrees, NEW c \in Clique, NEW d \in Clique, NEW v \in c \cap d
  PROVE  Reaching(c) = Reaching(d)
<1>1. JunctionTreeOver(Clique, tree) BY DEF IInv, TypeOK, PotsTypeOK, JunctionTrees
<1>2. Connected(Clique, Holding(tree, v), c, d) BY <1>1 DEF JunctionTreeOver
<1>3. Holding(tree, v) \subseteq Carrying
  <2>1. v \in Variables BY ScopeAssumption
  <2> QED BY <2>1 DEF Holding, Shared, Carrying, Sepset
<1>4. Connected(Clique, Carrying, c, d) BY <1>2, <1>3, ConnectedMore
<1>5. Carrying \in SUBSET SUBSET Clique BY <1>1, CarryingEdges DEF JunctionTreeOver
<1>6. Connected(Clique, Carrying, d, c) BY <1>4, <1>5, ConnectedSymmetric
<1>7. ASSUME NEW h \in Clique
      PROVE  Connected(Clique, Carrying, h, c) <=> Connected(Clique, Carrying, h, d)
  BY <1>4, <1>6, ConnectedTransitive
<1> QED BY <1>7 DEF Reaching

\* Whichever informed clique is asked for the margin of a variable, the answer
\* is the same.
THEOREM MarginalsAgree ==
  JunctionTrees /\ NoneInside /\ ~ Log => (SpecInference => []MarginalsConsistent)
<1> SUFFICES ASSUME JunctionTrees, NoneInside, ~ Log
             PROVE  SpecInference => []MarginalsConsistent
  OBVIOUS
<1>1. ASSUME IInv, SweepsAnswer PROVE MarginalsConsistent
  <2> SUFFICES ASSUME NEW c \in Informed, NEW d \in Informed, NEW v \in c \cap d, c # {v}, d # {v}
               PROVE  SumMarginSingleVbl(pot[c], v) = SumMarginSingleVbl(pot[d], v)
    BY DEF MarginalsConsistent
  <2>1. c \in Clique /\ d \in Clique BY <1>1, InformedHasAll
  <2>2. Reaching(c) = Reaching(d) BY <1>1, <2>1, ReachingAlike
  <2> DEFINE a(G) == [k \in 0 .. Card[v] - 1 |-> MarginOf(G, [w \in {v} |-> k])]
  <2>3. /\ SumMarginSingleVbl(pot[c], v) = a(Reaching(c))
        /\ SumMarginSingleVbl(pot[d], v) = a(Reaching(d))
    BY <1>1 DEF SweepsAnswer
  <2> HIDE DEF a
  <2> QED BY <2>2, <2>3
<1> QED BY <1>1, InferenceInvariance, SweepsAnswered, PTL
=============================================================================
