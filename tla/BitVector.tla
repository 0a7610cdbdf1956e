----------------------------- MODULE BitVector ------------------------------
(***************************************************************************)
(* Bit vectors of JB_Util/BitVector.c: size bits in an array of chars,     *)
(* numbered from 0.  A char is the set of its bits that are on, so that    *)
(* "bits[i] & mask" is membership and the operators are those of sets.     *)
(***************************************************************************)
EXTENDS Integers, Sequences

CONSTANT CHAR_BIT   \* bits in a char

ASSUME CharBitAssumption == CHAR_BIT \in Nat \ {0}

\* ceil(size / (double)CHAR_BIT)
NumBytes(size) == (size + CHAR_BIT - 1) \div CHAR_BIT

BVCreate(size) == [bits |-> [k \in 0 .. NumBytes(size) - 1 |-> {}], size |-> size]

GetBit(bv, index)   == index % CHAR_BIT \in bv.bits[index \div CHAR_BIT]
SetBitOn(bv, index) ==
  [bv EXCEPT !.bits[index \div CHAR_BIT] = @ \cup {index % CHAR_BIT}]

And(a, b) == [a EXCEPT !.bits = [k \in DOMAIN @ |-> @[k] \cap b.bits[k]]]
Xor(a, b) ==
  [a EXCEPT !.bits = [k \in DOMAIN @ |-> (@[k] \ b.bits[k]) \cup (b.bits[k] \ @[k])]]

\* The bits the loops of check_vector come to: byte by byte,
\* without those of the last byte that pad it.
Walked(bv) ==
  {mn \in (DOMAIN bv.bits) \X (0 .. CHAR_BIT - 1) :
     mn[1] * CHAR_BIT < bv.size /\ mn[1] * CHAR_BIT + mn[2] < bv.size}

\* check_vector(bv, 0)
NoBitOn(bv) == \A mn \in Walked(bv) : mn[2] \notin bv.bits[mn[1]]

Equals(a, b) == NoBitOn(Xor(a, b))
=============================================================================
