----------------------------- MODULE Partition ------------------------------
(***************************************************************************)
(* A family of disjoint sets as a function r that gives every element the  *)
(* representative of its set: what a DSetForest promises, without a trace  *)
(* of how the forest is laid out.                                          *)
(***************************************************************************)
EXTENDS Integers

\* e alone in a new set, unless it already is in one (DSetForest_MakeSet).
WithSet(r, e) ==
  IF e \in DOMAIN r
  THEN r
  ELSE [z \in DOMAIN r \cup {e} |-> IF z = e THEN e ELSE r[z]]

\* Mutant: only the one element changes sets, not the whole set it is in.
MergedAlone(r, a, b, top) == [r EXCEPT ![a] = top, ![b] = top]

\* The sets of a and b made one, with representative top.
Merged(r, a, b, top) ==
  [z \in DOMAIN r |-> IF r[z] \in {r[a], r[b]} THEN top ELSE r[z]]

\* Mutant: the call of DSetForest_Union is missing.
UnionsMissing(r, a, b) == {r}

\* Which of the two representatives stays one is the implementation's choice.
Unions(r, a, b) == {Merged(r, a, b, top) : top \in {r[a], r[b]}}

Representatives(r) == {r[z] : z \in DOMAIN r}

\* A representative stands for itself and for the members of its set.
IsPartition(r) ==
  \A z \in DOMAIN r : r[z] \in DOMAIN r /\ r[r[z]] = r[z]
=============================================================================
