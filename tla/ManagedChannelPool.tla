-------------------------- MODULE ManagedChannelPool --------------------------
(***************************************************************************)
(* The pool (soda-pool/src/pool.rs): its two stores, the DNS task, the     *)
(* doctor task, and callers of get_channel and report_broken, which share  *)
(* the stores without a common lock.  A step is what happens between two   *)
(* points where another task can run: one locked access to one store, or   *)
(* the end of a connection attempt together with the access it leads to.   *)
(*                                                                         *)
(* The stores are the ones ReadyChannels and BrokenEndpoints implement.    *)
(* Failure counts, backoff times and the order of the heap are in          *)
(* BrokenEndpoints; here the doctor may take any broken address at any     *)
(* time.                                                                   *)
(***************************************************************************)
EXTENDS Naturals, Sequences, FiniteSets, SequencesExt

CONSTANTS
  Addr,     (* IP addresses                                                *)
  NoAddr,   (* the absence of one                                          *)
  Callers,  (* tasks that hold a clone of the pool                         *)
  DnsTask   (* the background DNS task                                     *)

ASSUME NoAddrAssumption == NoAddr \notin Addr
ASSUME DnsTaskAssumption == DnsTask \notin Callers
ASSUME CallersAssumption == IsFiniteSet(Callers)

\* The tasks that run check_dns.
Checkers == Callers \cup {DnsTask}

VARIABLES
  zone,     (* what the name server answers at the moment                  *)
  ready,    (* ready_clients: channels per address                         *)
  broken,   (* broken_endpoints: addresses                                 *)
  testing,  (* the address the doctor is connecting to, or NoAddr          *)
  scan,     (* check_dns of each checker: where it is and its locals       *)
  call,     (* each caller: where it is and its locals                     *)
  gate,     (* RECHECK_BROKEN_ENDPOINTS: queue for the write lock, the     *)
            (* holder first                                                *)
  recent    (* less than MIN_INTERVAL since the stored time                *)

vars == <<zone, ready, broken, testing, scan, call, gate, recent>>
stores == <<ready, broken, testing>>

\* The results of get_any are in `call' here, so no single last one is kept.
Ready == INSTANCE ChannelBag WITH last <- NoAddr
Broken == INSTANCE BrokenSet

-----------------------------------------------------------------------------
\* check_dns: `todo' are the addresses still to be looked at, cur the one
\* being looked at, r and b the local lists `ready' and `broken'.
Idle == [pc |-> "off", todo |-> {}, cur |-> NoAddr, r |-> {}, b |-> {}]
Started == [Idle EXCEPT !.pc = "resolve"]

ScanPCs == {"off", "resolve", "find", "get", "connect", "broken"}

\* A caller: addr is the address it was given, rechecks the addresses of its
\* pending recheck_broken_endpoint futures, and `over' says that one of its
\* futures has finished but for the final get_any.
AtRest == [pc |-> "idle", addr |-> NoAddr, rechecks |-> {}, over |-> FALSE]

CallPCs == {"idle", "gate", "want", "write", "join", "wait", "last",
            "spawn", "select", "have", "report"}

TypeOK ==
  /\ zone \subseteq Addr
  /\ ready \in [Addr -> Nat]
  /\ broken \subseteq Addr
  /\ testing \in Addr \cup {NoAddr}
  /\ scan \in [Checkers -> [pc : ScanPCs, todo : SUBSET Addr, cur : Addr \cup {NoAddr},
                            r : SUBSET Addr, b : SUBSET Addr]]
  /\ call \in [Callers -> [pc : CallPCs, addr : Addr \cup {NoAddr},
                           rechecks : SUBSET Addr, over : BOOLEAN]]
  /\ gate \in Seq(Callers)
  /\ recent \in BOOLEAN

\* build: empty stores, both tasks spawned.  The DNS task starts with a check.
Init ==
  /\ zone \in SUBSET Addr
  /\ ready = Ready!Empty
  /\ Broken!Init
  /\ scan = [p \in Checkers |-> IF p = DnsTask THEN Started ELSE Idle]
  /\ call = [c \in Callers |-> AtRest]
  /\ gate = <<>>
  /\ recent = FALSE

-----------------------------------------------------------------------------
(* check_dns                                                               *)

\* The check of p is over.  A caller's check is one of its futures.
ScanOver(p) ==
  /\ scan' = [scan EXCEPT ![p] = Idle]
  /\ call' = IF p \in Callers THEN [call EXCEPT ![p].over = TRUE] ELSE call

\* Mutant: an empty answer is an answer.
ResolveAny(p) ==
  /\ scan[p].pc = "resolve"
  /\ scan' = [scan EXCEPT ![p].pc = "find", ![p].todo = zone]
  /\ UNCHANGED <<zone, stores, call, gate, recent>>

\* resolve_domain answers.  A name without addresses is an error.
ResolveOk(p) ==
  /\ scan[p].pc = "resolve"
  /\ zone # {}
  /\ scan' = [scan EXCEPT ![p].pc = "find", ![p].todo = zone]
  /\ UNCHANGED <<zone, stores, call, gate, recent>>

\* resolve_domain fails: check_dns returns and both stores stay.
ResolveErr(p) ==
  /\ scan[p].pc = "resolve"
  /\ ScanOver(p)
  /\ UNCHANGED <<zone, stores, gate, recent>>

\* ready_clients.find: a known channel is kept, else broken_endpoints is next.
Find(p, a) ==
  /\ scan[p].pc = "find"
  /\ a \in scan[p].todo
  /\ scan' = IF Ready!Find(a)
               THEN [scan EXCEPT ![p].todo = @ \ {a}, ![p].r = @ \cup {a}]
               ELSE [scan EXCEPT ![p].todo = @ \ {a}, ![p].cur = a, ![p].pc = "get"]
  /\ UNCHANGED <<zone, stores, call, gate, recent>>

\* broken_endpoints.get_address: a known entry is copied, else connect.
GetAddress(p) ==
  /\ scan[p].pc = "get"
  /\ scan' = IF Broken!GetAddress(scan[p].cur)
               THEN [scan EXCEPT ![p].b = @ \cup {scan[p].cur}, ![p].cur = NoAddr,
                                 ![p].pc = "find"]
               ELSE [scan EXCEPT ![p].pc = "connect"]
  /\ UNCHANGED <<zone, stores, call, gate, recent>>

\* Mutant: an address that cannot be connected to is forgotten.
ConnectOrForget(p) ==
  /\ scan[p].pc = "connect"
  /\ \/ scan' = [scan EXCEPT ![p].r = @ \cup {scan[p].cur}, ![p].cur = NoAddr, ![p].pc = "find"]
     \/ scan' = [scan EXCEPT ![p].cur = NoAddr, ![p].pc = "find"]
  /\ UNCHANGED <<zone, stores, call, gate, recent>>

\* connect() of a new address ends, either way.
Connect(p) ==
  /\ scan[p].pc = "connect"
  /\ \/ scan' = [scan EXCEPT ![p].r = @ \cup {scan[p].cur}, ![p].cur = NoAddr, ![p].pc = "find"]
     \/ scan' = [scan EXCEPT ![p].b = @ \cup {scan[p].cur}, ![p].cur = NoAddr, ![p].pc = "find"]
  /\ UNCHANGED <<zone, stores, call, gate, recent>>

\* ready_clients.replace_with(ready)
ReplaceReady(p) ==
  /\ scan[p].pc = "find"
  /\ scan[p].todo = {}
  /\ Ready!ReplaceWith(scan[p].r)
  /\ scan' = [scan EXCEPT ![p].pc = "broken", ![p].r = {}]
  /\ UNCHANGED <<zone, broken, testing, call, gate, recent>>

\* broken_endpoints.replace_with(broken), a lock later.
ReplaceBroken(p) ==
  /\ scan[p].pc = "broken"
  /\ Broken!ReplaceWith(scan[p].b)
  /\ ScanOver(p)
  /\ UNCHANGED <<zone, ready, gate, recent>>

check_dns(p) ==
  \/ ResolveOk(p)
  \/ ResolveErr(p)
  \/ \E a \in Addr : Find(p, a)
  \/ GetAddress(p)
  \/ Connect(p)
  \/ ReplaceReady(p)
  \/ ReplaceBroken(p)

\* The DNS task: interval.tick() lets the next check begin.
DnsTick ==
  /\ scan[DnsTask].pc = "off"
  /\ scan' = [scan EXCEPT ![DnsTask] = Started]
  /\ UNCHANGED <<zone, stores, call, gate, recent>>

-----------------------------------------------------------------------------
(* The doctor task.                                                        *)

\* next_broken_ip_address returns an address; when, and which one, is up to
\* the backoff times, so any is possible here.
NextBroken ==
  /\ Broken!NextBroken
  /\ UNCHANGED <<zone, ready, scan, call, gate, recent>>

\* recheck_broken_endpoint, connected.
DoctorConnected ==
  /\ Broken!Tested
  /\ Ready!Add(testing)
  /\ UNCHANGED <<zone, scan, call, gate, recent>>

\* recheck_broken_endpoint, not connected.
DoctorFailed ==
  /\ Broken!TestFailed
  /\ UNCHANGED <<zone, ready, scan, call, gate, recent>>

-----------------------------------------------------------------------------
(* get_channel                                                             *)

\* Mutant: the place in the queue is kept.
EndedInQueue(c) == scan' = [scan EXCEPT ![c] = Idle] /\ UNCHANGED gate

\* The call ends: the write lock (or the place in its queue) is given up and
\* the futures that have not finished are dropped.
Ended(c) ==
  /\ gate' = RemoveFirst(gate, c)
  /\ scan' = [scan EXCEPT ![c] = Idle]

\* Return what get_any gives, or go to `otherwise' when it gives nothing.
GiveAnyOr(c, otherwise) ==
  \E a \in Ready!AnyOf :
    call' = [call EXCEPT ![c] = IF a = NoAddr THEN otherwise
                                  ELSE [AtRest EXCEPT !.pc = "have", !.addr = a]]

\* The first get_any.
GetAny(c) ==
  /\ call[c].pc = "idle"
  /\ GiveAnyOr(c, [AtRest EXCEPT !.pc = "gate"])
  /\ UNCHANGED <<zone, stores, scan, gate, recent>>

\* try_read fails while somebody holds the write lock or queues for it.  When
\* it succeeds, a recent check means None; else this caller wants to check.
TryRead(c) ==
  /\ call[c].pc = "gate"
  /\ call' = [call EXCEPT ![c] = IF gate # <<>> THEN [@ EXCEPT !.pc = "join"]
                                 ELSE IF recent THEN AtRest
                                 ELSE [@ EXCEPT !.pc = "want"]]
  /\ UNCHANGED <<zone, stores, scan, gate, recent>>

\* The first poll of write(): the caller joins the queue of the lock.
Enqueue(c) ==
  /\ call[c].pc \in {"want", "join"}
  /\ gate' = Append(gate, c)
  /\ call' = [call EXCEPT ![c].pc = IF @ = "want" THEN "write" ELSE "wait"]
  /\ UNCHANGED <<zone, stores, scan, recent>>

HasLock(c) == gate # <<>> /\ Head(gate) = c

\* write() is granted to a caller that came to check, and get_any finds a
\* channel by now.
LockedFound(c) ==
  /\ call[c].pc = "write"
  /\ HasLock(c)
  /\ Ready!Available # {}
  /\ GiveAnyOr(c, AtRest)
  /\ Ended(c)
  /\ UNCHANGED <<zone, stores, recent>>

\* Mutant: the guard is dropped at once, as `let _ = ...' would.
LockedEmptyDropped(c) ==
  /\ call[c].pc = "write"
  /\ HasLock(c)
  /\ Ready!Available = {}
  /\ recent' = TRUE
  /\ call' = [call EXCEPT ![c].pc = "spawn"]
  /\ gate' = Tail(gate)
  /\ UNCHANGED <<zone, stores, scan>>

\* write() is granted and the pool is still empty: the time is stored and the
\* check begins, under the lock.
LockedEmpty(c) ==
  /\ call[c].pc = "write"
  /\ HasLock(c)
  /\ Ready!Available = {}
  /\ recent' = TRUE
  /\ call' = [call EXCEPT ![c].pc = "spawn"]
  /\ UNCHANGED <<zone, stores, scan, gate>>

\* write() is granted to a caller that only waited for the check of another
\* one: the guard is dropped at once.
Joined(c) ==
  /\ call[c].pc = "wait"
  /\ HasLock(c)
  /\ gate' = Tail(gate)
  /\ call' = [call EXCEPT ![c].pc = "last"]
  /\ UNCHANGED <<zone, stores, scan, recent>>

\* ... and the last get_any decides.
LastGetAny(c) ==
  /\ call[c].pc = "last"
  /\ GiveAnyOr(c, AtRest)
  /\ UNCHANGED <<zone, stores, scan, gate, recent>>

\* The futures: check_dns, and a recheck of every address broken now.
SpawnRechecks(c) ==
  /\ call[c].pc = "spawn"
  /\ call' = [call EXCEPT ![c].pc = "select", ![c].rechecks = Broken!Addresses]
  /\ scan' = [scan EXCEPT ![c] = Started]
  /\ UNCHANGED <<zone, stores, gate, recent>>

\* A recheck future gets as far as its get_any.  The address is tested from a
\* copy: on success it is not removed from the broken ones.
Recheck(c, a) ==
  /\ a \in call[c].rechecks
  /\ call' = [call EXCEPT ![c].rechecks = @ \ {a}, ![c].over = TRUE]
  /\ \/ Ready!Add(a) /\ UNCHANGED <<broken, testing>>
     \/ Broken!AddAddress(a) /\ UNCHANGED ready
  /\ UNCHANGED <<zone, scan, gate, recent>>

\* select_next_some: the first future to finish gives the result.
Return(c) ==
  /\ call[c].over
  /\ GiveAnyOr(c, AtRest)
  /\ Ended(c)
  /\ UNCHANGED <<zone, stores, recent>>

get_channel(c) ==
  \/ TryRead(c)
  \/ Enqueue(c)
  \/ LockedFound(c)
  \/ LockedEmpty(c)
  \/ Joined(c)
  \/ LastGetAny(c)
  \/ SpawnRechecks(c)
  \/ \E a \in Addr : Recheck(c, a)
  \/ Return(c)

-----------------------------------------------------------------------------
(* What callers do with a channel.                                         *)

\* The caller is done with the channel and has no complaint.
RequestDone(c) ==
  /\ call[c].pc = "have"
  /\ call' = [call EXCEPT ![c] = AtRest]
  /\ UNCHANGED <<zone, stores, scan, gate, recent>>

\* report_broken: remove from the ready ones ...
ReportRemove(c) ==
  /\ call[c].pc = "have"
  /\ Ready!Remove(call[c].addr)
  /\ call' = [call EXCEPT ![c].pc = "report"]
  /\ UNCHANGED <<zone, broken, testing, scan, gate, recent>>

\* ... and, a lock later, add to the broken ones.
ReportAdd(c) ==
  /\ call[c].pc = "report"
  /\ Broken!AddAddress(call[c].addr)
  /\ call' = [call EXCEPT ![c] = AtRest]
  /\ UNCHANGED <<zone, ready, scan, gate, recent>>

\* The caller's future is dropped where it awaits (a timeout, a cancelled
\* request): nothing that was done is undone.
Cancel(c) ==
  /\ call[c].pc \in {"write", "wait", "last", "spawn", "select", "report"}
  /\ call' = [call EXCEPT ![c] = AtRest]
  /\ Ended(c)
  /\ UNCHANGED <<zone, stores, recent>>

-----------------------------------------------------------------------------
(* The world.                                                              *)

\* The records of the name change.
ZoneChange ==
  /\ zone' \in (SUBSET Addr) \ {zone}
  /\ UNCHANGED <<stores, scan, call, gate, recent>>

\* MIN_INTERVAL has passed since the stored time.
Expire ==
  /\ recent
  /\ recent' = FALSE
  /\ UNCHANGED <<zone, stores, scan, call, gate>>

\* What goes on around the callers, and the checks on behalf of one.
Background ==
  \/ DnsTick
  \/ NextBroken
  \/ DoctorConnected
  \/ DoctorFailed
  \/ \E p \in Checkers : check_dns(p)
  \/ ZoneChange
  \/ Expire

Next ==
  \/ Background
  \/ \E c \in Callers :
       \/ GetAny(c)
       \/ get_channel(c)
       \/ RequestDone(c)
       \/ ReportRemove(c)
       \/ ReportAdd(c)
       \/ Cancel(c)

Spec == Init /\ [][Next]_vars

\* The runtime polls ready tasks and timers fire; connection attempts and
\* name lookups end; the write lock is FIFO (that is in `gate').
Progress ==
  /\ WF_vars(DnsTick)
  /\ \A p \in Checkers : WF_vars(check_dns(p))
  /\ \A c \in Callers : WF_vars(get_channel(c)) /\ WF_vars(ReportAdd(c))

LiveSpec == Spec /\ Progress

\* A name that has addresses is not unresolvable forever.
SyncSpec == LiveSpec /\ SF_vars(ResolveOk(DnsTask))

-----------------------------------------------------------------------------
(* Safety.                                                                 *)

\* Whatever a forced check does, it does as the holder of the write lock, so
\* forced checks never overlap and none of their futures outlives the call,
\* whoever queues up or is cancelled (_guard in get_channel).
OneRecheck ==
  \A c \in Callers :
    call[c].pc \in {"spawn", "select"} \/ scan[c] # Idle \/ call[c].rechecks # {}
      => HasLock(c)

\* A caller that is not waiting for the lock or checking keeps nothing of a
\* check, however it left it (a result, None, a cancellation anywhere): not the
\* process-wide lock, no place in its queue, no future of its own.
NothingHeld ==
  \A c \in Callers : call[c].pc \notin {"write", "wait", "spawn", "select"} =>
    /\ \A i \in DOMAIN gate : gate[i] # c
    /\ scan[c] = Idle
    /\ call[c].rechecks = {}

\* Channels to one address do not pile up.  Several can exist: a forced check
\* adds one without removing the address from the broken ones, and a report
\* during a test of the address makes the doctor test it twice.  But each
\* copy is owed to a caller reporting the address, to the doctor, the store
\* or a check in progress, and there are only so many of those.
PoolBounded == \A a \in Addr : ready[a] <= Cardinality(Callers) + 4

\* A pool that has channels is emptied by the report of its last one, or by a
\* check that got an answer and found every address of it broken: never because
\* the name did not resolve for a while, whatever else goes on (check_dns).
EmptiedForCause ==
  [][Ready!Available # {} /\ (\A a \in Addr : ready'[a] = 0) =>
       \/ \E c \in Callers : ReportRemove(c)
       \/ \E p \in Checkers : ReplaceReady(p) /\ scan[p].b # {}]_vars

\* Where a caller is with the lock.
Stage(c) ==
  CASE call[c].pc \in {"want", "join", "write", "wait"} -> call[c].pc
    [] call[c].pc \in {"spawn", "select"} -> "check"
    [] OTHER -> "out"

Gate == INSTANCE RecheckGate WITH stage <- [c \in Callers |-> Stage(c)]

\* get_channel uses the lock as RecheckGate says, wherever it returns and
\* wherever it is cancelled: the safety of the lock in a process with several
\* pools (OneCheck) is that of the callers here.
RefinesGate == Gate!GateSpec

\* "this will be performed no more than once every 500ms" (get_channel).
Throttled == [][\A c \in Callers : LockedEmpty(c) => ~recent]_vars

\* "This function will remove the endpoint from the pool" (report_broken).
ReportRemoves == [][\A c \in Callers : ReportRemove(c) => ready'[call[c].addr] = 0]_vars

\* "If no channels are available, the function will check the DNS and recheck
\* connections to all servers currently marked as dead" (get_channel): when
\* the check comes to None, every one of them was tried.
NoneMeansAllRechecked ==
  [][\A c \in Callers : Return(c) /\ call'[c] = AtRest => call[c].rechecks = {}]_vars

-----------------------------------------------------------------------------
(* Liveness.                                                               *)

\* Every call of get_channel returns (or is dropped by its caller), however
\* many callers queue for the lock and wherever one of them is cancelled.
GetChannelReturns ==
  \A c \in Callers : call[c].pc = "gate" ~> call[c].pc \in {"idle", "have"}

\* The pool knows of the address: it is in a store, or with the doctor.
Tracked(a) == ready[a] > 0 \/ a \in broken \/ testing = a

\* An address that stays in the DNS cannot be lost for good: whatever races
\* of reports, checks and cancellations drop it, a later DNS check brings it
\* back (check_dns).
TrackedAgain == \A a \in Addr : <>[](a \in zone) => []<>Tracked(a)

=============================================================================
