---------------------------- MODULE MCInference -----------------------------
(***************************************************************************)
(* TLC instance of Inference: the networks of MCTableMessages from every   *)
(* root, on the chain and on the star that the clique of 5 makes of the    *)
(* chain of the other three.                                               *)
(***************************************************************************)
EXTENDS Inference, MCTableMessages

ChainAndStar == {E \in JunctionTrees : {{1, 2}, {5}} \notin E}
=============================================================================
