---------------------------- MODULE MCDSetForest ----------------------------
(***************************************************************************)
(* TLC instance of DSetForest.  Four elements make a path of three nodes   *)
(* possible, so that a compression takes several assignments.              *)
(***************************************************************************)
EXTENDS DSetForest
=============================================================================
