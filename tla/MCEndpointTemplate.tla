-------------------------- MODULE MCEndpointTemplate --------------------------
(***************************************************************************)
(* Instances of EndpointTemplate for TLC.                                  *)
(***************************************************************************)
EXTENDS EndpointTemplate

=============================================================================
