------------------------ MODULE MCManagedChannelPool -------------------------
(***************************************************************************)
(* Instances of ManagedChannelPool for TLC.                                *)
(***************************************************************************)
EXTENDS ManagedChannelPool, TLC

\* Callers are interchangeable, and so are addresses.
Symmetry == Permutations(Callers) \cup Permutations(Addr)

=============================================================================
