---------------------------- MODULE ReadyChannels ----------------------------
(***************************************************************************)
(* The list of open channels and its round-robin index                     *)
(* (soda-pool/src/ready_channels.rs).  Each operation takes the RwLock     *)
(* once.  Concurrent get_any calls share the read lock, but what each does *)
(* under it is one atomic fetch_add and reads of a list no writer can      *)
(* change meanwhile, so it is one step too.                                *)
(***************************************************************************)
EXTENDS Integers, Sequences, FiniteSets, SequencesExt

CONSTANTS
  Addr,      (* IP addresses; the channel itself is not looked into        *)
  NoAddr,    (* None                                                       *)
  IndexMod,  (* the range of the AtomicUsize; 2^64 in the code             *)
  MaxLen     (* bound of the model: add is called on shorter lists only    *)

ASSUME AddrAssumption == IsFiniteSet(Addr)
ASSUME IndexModAssumption == IndexMod \in Nat \ {0}
ASSUME MaxLenAssumption == MaxLen \in Nat

VARIABLES
  channels,  (* the Vec of (address, channel)                              *)
  index,     (* the AtomicUsize                                            *)
  last,      (* what the last get_any returned                             *)
  served     (* history: how often each position was returned since the    *)
             (* list changed, less the rounds that are complete            *)

vars == <<channels, index, last, served>>

Init ==
  /\ channels = <<>>
  /\ index = 0
  /\ last = NoAddr
  /\ served = <<>>

TypeOK ==
  /\ channels \in Seq(Addr)
  /\ index \in 0 .. IndexMod - 1
  /\ last \in Addr \cup {NoAddr}
  /\ DOMAIN served = 1 .. Len(channels)

-----------------------------------------------------------------------------
Restart(list) == served' = [i \in 1 .. Len(list) |-> 0]

\* The history of serving position i: a full round is taken off the counts.
Serve(i) ==
  LET counts == [served EXCEPT ![i] = @ + 1]
  IN  served' = IF \A k \in DOMAIN counts : counts[k] > 0
                  THEN [k \in DOMAIN counts |-> counts[k] - 1]
                  ELSE counts

\* The atomic wraps around; unless the length divides its range, the rounds
\* start anew there.
WrapsMidRound == index = IndexMod - 1 /\ IndexMod % Len(channels) # 0

\* Mutant: the index is read and stored, and two readers get the same value.
get_any_same_index ==
  /\ channels # <<>>
  /\ LET i == (index % Len(channels)) + 1
     IN  last' = channels[i] /\ Serve(i)
  /\ UNCHANGED <<channels, index>>

\* Mutant: the index is a counter that never wraps.
get_any_no_wrap ==
  /\ channels # <<>>
  /\ index' = index + 1
  /\ last' = channels[(index % Len(channels)) + 1]
  /\ Serve((index % Len(channels)) + 1)
  /\ UNCHANGED channels

\* get_any on a non-empty list: fetch_add, then the element at the old index.
get_any ==
  /\ channels # <<>>
  /\ index' = (index + 1) % IndexMod
  /\ LET i == (index % Len(channels)) + 1
     IN  /\ last' = channels[i]
         /\ IF WrapsMidRound THEN Restart(channels) ELSE Serve(i)
  /\ UNCHANGED channels

\* get_any on an empty list; the index stays.
get_any_empty ==
  /\ channels = <<>>
  /\ last' = NoAddr
  /\ UNCHANGED <<channels, index, served>>

\* add: push at the end.
add(a) ==
  /\ Len(channels) < MaxLen
  /\ channels' = Append(channels, a)
  /\ Restart(channels')
  /\ UNCHANGED <<index, last>>

Positions(a) == {i \in DOMAIN channels : channels[i] = a}

\* Vec::swap_remove(i): the last element takes the place of the removed one.
swap_remove(s, i) == Front([s EXCEPT ![i] = Last(s)])

\* Mutant: the last element is dropped instead of being moved.
remove_wrong_one(a) ==
  /\ Positions(a) # {}
  /\ channels' = Front(channels)
  /\ Restart(channels')
  /\ UNCHANGED <<index, last>>

\* Mutant: retain instead of swap_remove.
remove_all(a) ==
  /\ channels' = SelectSeq(channels, LAMBDA b : b # a)
  /\ Restart(channels')
  /\ UNCHANGED <<index, last>>

\* remove: the first entry of the address only, if there is one.
remove(a) ==
  /\ IF Positions(a) = {}
       THEN UNCHANGED <<channels, served>>
       ELSE LET first == CHOOSE i \in Positions(a) : \A j \in Positions(a) : i <= j
            IN  /\ channels' = swap_remove(channels, first)
                /\ Restart(channels')
  /\ UNCHANGED <<index, last>>

\* The lists check_dns brings: a DNS answer, which lists an address once.
Answers == SetToAllKPermutations(Addr)

\* replace_with: a new list, in the order of the DNS answer; the index is kept.
replace_with(new) ==
  /\ channels' = new
  /\ Restart(new)
  /\ UNCHANGED <<index, last>>

Next ==
  \/ get_any
  \/ get_any_empty
  \/ \E a \in Addr : add(a)
  \/ \E a \in Addr : remove(a)
  \/ \E new \in Answers : replace_with(new)

Spec == Init /\ [][Next]_vars

-----------------------------------------------------------------------------
\* While the list stays the same, no channel is handed out twice more often
\* than another, wherever the shared index starts (get_any; a wrap of the index
\* in the middle of a round begins a new count).
Balanced == \A i \in DOMAIN served : served[i] \in {0, 1}

\* The list with its index is a ChannelBag.
Abs == INSTANCE ChannelBag WITH ready <- [a \in Addr |-> Cardinality(Positions(a))]

\* The list never holds what no bag operation explains: a channel less or more
\* than was asked for, or a result of get_any the pool does not hold.
RefinesChannelBag == Abs!Spec

\* Each operation is the bag operation of the same name on the same address,
\* which is what ManagedChannelPool uses: swap_remove takes out the reported
\* address and nothing else, wherever in the list it is, and get_any returns
\* an element of the list for every value of the index.
OperationsAgree ==
  [][/\ get_any \/ get_any_empty => Abs!GetAny
     /\ \A a \in Addr : (add(a) => Abs!Add(a)) /\ (remove(a) => Abs!Remove(a))
     /\ \A new \in Answers : replace_with(new) => Abs!ReplaceWith(ToSet(new))]_vars

=============================================================================
