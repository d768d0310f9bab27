--------------------------- MODULE MCReadyChannels ---------------------------
(***************************************************************************)
(* An instance of ReadyChannels for TLC.                                   *)
(***************************************************************************)
EXTENDS ReadyChannels

=============================================================================
