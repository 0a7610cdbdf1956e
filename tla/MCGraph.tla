------------------------------- MODULE MCGraph ------------------------------
(***************************************************************************)
(* TLC instance of Graph.  The labels are those of cliques, which begin    *)
(* alike: "A ", "B " and "A B ".                                           *)
(***************************************************************************)
EXTENDS Graph

CliqueLabels == {<<"A", "">>, <<"B", "">>, <<"A", "B", "">>}
=============================================================================
