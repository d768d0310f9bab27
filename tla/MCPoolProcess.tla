---------------------------- MODULE MCPoolProcess -----------------------------
(***************************************************************************)
(* Instances of PoolProcess for TLC.                                       *)
(***************************************************************************)
EXTENDS PoolProcess

=============================================================================
