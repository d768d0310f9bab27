--------------------------- MODULE MCPooledClient ----------------------------
(***************************************************************************)
(* Instances of PooledClient for TLC.                                      *)
(***************************************************************************)
EXTENDS PooledClient

=============================================================================
