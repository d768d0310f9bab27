------------------------------ MODULE BrokenSet ------------------------------
(***************************************************************************)
(* What BrokenEndpoints promises to the pool, without clocks, heaps or     *)
(* wakeups: a set of addresses known to be broken, and one tester that     *)
(* takes addresses out of the set one at a time.  While an address is      *)
(* being tested it is not in the set unless somebody puts it back.         *)
(***************************************************************************)
CONSTANTS
  Addr,    (* IP addresses                                                 *)
  NoAddr   (* the absence of one                                           *)

VARIABLES
  broken,  (* the addresses in the store                                   *)
  testing  (* the address handed to the tester, or NoAddr                  *)

vars == <<broken, testing>>

Init == broken = {} /\ testing = NoAddr

\* get_address: is the address in the store?
GetAddress(a) == a \in broken

\* addresses: the content of the store, as copied by the forced recheck.
Addresses == broken

\* add_address and re_add_address: the address is in the store afterwards.
AddAddress(a) == broken' = broken \cup {a} /\ UNCHANGED testing

\* replace_with: the store holds exactly the new addresses.
ReplaceWith(S) == broken' = S /\ UNCHANGED testing

\* Mutant: peek instead of pop.
PeekBroken ==
  /\ testing = NoAddr
  /\ testing' \in broken
  /\ UNCHANGED broken

\* next_broken_ip_address: one address of the store, removed from it.
NextBroken ==
  /\ testing = NoAddr
  /\ \E a \in broken : broken' = broken \ {a} /\ testing' = a

\* The tester is done with the address and does not put it back.
Tested == testing # NoAddr /\ testing' = NoAddr /\ UNCHANGED broken

\* The tester puts the address back.
TestFailed ==
  /\ testing # NoAddr
  /\ broken' = broken \cup {testing}
  /\ testing' = NoAddr

Next ==
  \/ \E a \in Addr : AddAddress(a)
  \/ \E S \in SUBSET Addr : ReplaceWith(S)
  \/ NextBroken
  \/ Tested
  \/ TestFailed

Spec == Init /\ [][Next]_vars

=============================================================================
