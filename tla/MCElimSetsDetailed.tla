------------------------- MODULE MCElimSetsDetailed -------------------------
(***************************************************************************)
(* TLC instance of ElimSetsDetailed: every acyclic network of the given    *)
(* variables, its tables in order or in reverse, its parents in any order. *)
(***************************************************************************)
EXTENDS ElimSetsDetailed

Four   == << <<"a">>, <<"b">>, <<"c">>, <<"d">> >>
Labels == ToSet(Four)

\* The parents of a variable come before it in the network's own ordering, so
\* that an elimination ordering is any relabelling of an acyclic graph.
Before(k) == {Four[n] : n \in 1 .. k-1}
CPTsFor(k) ==
  [tableFor : {Four[k]},
   parents  : UNION {{s \in [1 .. n -> Before(k)] : IsInjective(s)} : n \in 0 .. k-1}]

InOrder == {<<t1, t2, t3, t4>> : t1 \in CPTsFor(1), t2 \in CPTsFor(2),
                                 t3 \in CPTsFor(3), t4 \in CPTsFor(4)}
AllNetworks == InOrder \cup {Reverse(s) : s \in InOrder}
=============================================================================
