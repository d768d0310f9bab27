--------------------------- MODULE MCBrokenEndpoints --------------------------
(***************************************************************************)
(* Instances of BrokenEndpoints for TLC.                                   *)
(***************************************************************************)
EXTENDS BrokenEndpoints

=============================================================================
