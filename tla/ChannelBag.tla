------------------------------ MODULE ChannelBag ------------------------------
(***************************************************************************)
(* What ReadyChannels promises to the pool: a bag of addresses with an     *)
(* open channel.  The same address may be in it several times (nothing in  *)
(* the pool prevents it), and get_any returns some element.                *)
(***************************************************************************)
EXTENDS Integers

CONSTANTS
  Addr,    (* IP addresses                                                 *)
  NoAddr   (* None, the result of get_any on an empty pool                 *)

VARIABLES
  ready,   (* how many channels there are to each address                  *)
  last     (* what the last get_any returned                               *)

vars == <<ready, last>>

\* No channels at all.
Empty == [a \in Addr |-> 0]

Init == ready = Empty /\ last = NoAddr

\* The addresses get_any can return.
Available == {a \in Addr : ready[a] > 0}

\* find: is there a channel to the address?
Find(a) == ready[a] > 0

\* The possible results of get_any.
AnyOf == IF Available = {} THEN {NoAddr} ELSE Available

\* The writers; none of them is a get_any.
Add(a) == ready' = [ready EXCEPT ![a] = @ + 1]

\* Mutant: the address is taken to be there.
RemovePresent(a) == ready' = [ready EXCEPT ![a] = @ - 1]

\* One channel is removed, if there is one.
Remove(a) == ready' = [ready EXCEPT ![a] = IF @ > 0 THEN @ - 1 ELSE 0]

ReplaceWith(S) == ready' = [a \in Addr |-> IF a \in S THEN 1 ELSE 0]

Write ==
  /\ \/ \E a \in Addr : Add(a) \/ Remove(a)
     \/ \E S \in SUBSET Addr : ReplaceWith(S)
  /\ UNCHANGED last

GetAny == last' \in AnyOf /\ UNCHANGED ready

Next == GetAny \/ Write

Spec == Init /\ [][Next]_vars

=============================================================================
