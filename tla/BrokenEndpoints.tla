--------------------------- MODULE BrokenEndpoints ---------------------------
(***************************************************************************)
(* The store of broken addresses (soda-pool/src/broken_endpoints.rs) and   *)
(* the doctor task that empties it (pool.rs, build and                     *)
(* recheck_broken_endpoint).                                               *)
(*                                                                         *)
(* Every operation of the store holds its mutex from the first access to   *)
(* the last, so it is one step.  The doctor is a process of several steps: *)
(* it looks at the store, then waits (on the notifier, or on the notifier  *)
(* and a timer) without the mutex, and looks again.                        *)
(*                                                                         *)
(* Time is counted in seconds relative to now: an entry has `left' seconds *)
(* to go before it is due, and is overdue when that is negative.  How long *)
(* it is overdue is distinguished up to Horizon seconds.  The entries are  *)
(* due by the wall clock and the doctor sleeps by a monotonic one; the     *)
(* wall clock may be set, by MaxSkew seconds altogether.                   *)
(***************************************************************************)
EXTENDS Backoff

CONSTANTS
  Addr,     (* IP addresses                                                *)
  NoAddr,   (* the absence of one                                          *)
  Horizon,  (* the largest number of overdue seconds told apart            *)
  MaxSkew   (* bound: by how many seconds the wall clock is ever set       *)

ASSUME NoAddrAssumption == NoAddr \notin Addr
ASSUME HorizonAssumption == Horizon \in Nat
\* An entry that is overdue by more than is told apart stays overdue.
ASSUME MaxSkewAssumption == MaxSkew \in 0 .. Horizon

VARIABLES
  heap,     (* addresses: the DelayedAddress entries of the BinaryHeap     *)
  peak,     (* history: the highest failure count of each address so far   *)
  permit,   (* notifier: the stored permit of the tokio Notify             *)
  waiter,   (* notifier: the doctor's Notified future, once polled         *)
  pc,       (* where the doctor is                                         *)
  timer,    (* the seconds left of the doctor's sleep                      *)
  testing,  (* the entry the doctor is connecting to, or Nothing           *)
  skew,     (* history: by how many seconds the wall clock was ever set    *)
  drift     (* history: the part of skew since the doctor fell asleep      *)

store == <<heap, peak>>
notifier == <<permit, waiter>>
doctor == <<pc, timer, testing>>
history == <<skew, drift>>
vars == <<store, notifier, doctor, history>>

-----------------------------------------------------------------------------
MaxLeft == 2 ^ MaxShift

\* DelayedAddress(BackoffTracker, IpAddr); failed_times() is a field here
\* and the timestamp is the number of seconds until it.
DelayedAddress == [ip : Addr, failed : FailCount, left : -Horizon .. MaxLeft + MaxSkew]

Nothing == [ip |-> NoAddr, failed |-> 0]

Broken == {e.ip : e \in heap}

\* BinaryHeap is a max-heap and the timestamp is compared first: peek returns
\* an entry with the LATEST next_test_time.  Entries of the same second are
\* in any order (by nanoseconds and failure count, which are abstracted).
IsPeek(e) == e \in heap /\ \A f \in heap : f.left <= e.left

\* notify_one: a waiting future is handed the notification; without one the
\* permit is stored.  There is at most one permit.
notify_one ==
  \/ /\ waiter = "waiting"
     /\ waiter' = "notified"
     /\ UNCHANGED permit
  \/ /\ waiter # "waiting"
     /\ permit' = TRUE
     /\ UNCHANGED waiter

TypeOK ==
  /\ heap \subseteq DelayedAddress
  /\ \A e \in heap : e.left <= calculate_backoff(e.failed) + skew
  /\ peak \in [Addr -> FailCount]
  /\ permit \in BOOLEAN
  /\ waiter \in {"none", "waiting", "notified"}
  /\ pc \in {"look", "wait", "sleep", "test", "panicked"}
  /\ timer \in 0 .. MaxLeft + MaxSkew
  /\ testing \in [ip : Addr, failed : FailCount] \cup {Nothing}
  /\ (testing # Nothing) <=> (pc = "test")
  /\ skew \in 0 .. MaxSkew
  /\ drift \in 0 .. skew

Init ==
  /\ heap = {}
  /\ peak = [a \in Addr |-> 0]
  /\ permit = FALSE
  /\ waiter = "none"
  /\ pc = "look"
  /\ timer = 0
  /\ testing = Nothing
  /\ skew = 0
  /\ drift = 0

-----------------------------------------------------------------------------
(* Operations of the store, called by request handlers and DNS checks.     *)

\* The highest count of an address that gets an entry with this count.
Higher(a, count) == IF count > peak[a] THEN count ELSE peak[a]

\* Mutant: push without retain.
push_without_retain(a, count) ==
  /\ heap' = heap \cup {[ip |-> a, failed |-> count, left |-> calculate_backoff(count)]}
  /\ peak' = [peak EXCEPT ![a] = Higher(a, count)]
  /\ notify_one

\* Mutant: the notification is forgotten.
push_without_notify(a, count) ==
  /\ heap' = {e \in heap : e.ip # a}
                \cup {[ip |-> a, failed |-> count, left |-> calculate_backoff(count)]}
  /\ peak' = [peak EXCEPT ![a] = Higher(a, count)]
  /\ UNCHANGED notifier

\* Mutant: the entry is due at once, the backoff is forgotten.
push_due_now(a, count) ==
  /\ heap' = {e \in heap : e.ip # a} \cup {[ip |-> a, failed |-> count, left |-> 0]}
  /\ peak' = [peak EXCEPT ![a] = Higher(a, count)]
  /\ notify_one

\* add_address_with_current_fail_count: retain the other addresses, push the
\* new entry, notify.
add_address_with_current_fail_count(a, count) ==
  LET new == [ip |-> a, failed |-> count, left |-> calculate_backoff(count)]
  IN  /\ heap' = {e \in heap : e.ip # a} \cup {new}
      /\ peak' = [peak EXCEPT ![a] = Higher(a, count)]
      /\ notify_one

\* add_address: the first failure.
add_address(a) == add_address_with_current_fail_count(a, 1) /\ UNCHANGED doctor

\* Forced rechecks and DNS checks work on copies of entries taken earlier: a
\* copy has a count its address has had (0 only once the counter was full).
CopyCounts(a) == {f \in FailCount : f <= peak[a] /\ (f = 0 => peak[a] = U8Max)}

\* re_add_address by a forced recheck in get_channel, for a copy with count f.
\* With overflow checks a copy at U8Max panics in the caller before the lock
\* is taken, which changes nothing here.
re_add_address(a, f) == add_address_with_current_fail_count(a, WrappingAdd1(f)) /\ UNCHANGED doctor

\* The entries check_dns can bring for an address: a new one, or a copy of one
\* it has had, made up to any time ago.
Entries(a) ==
  {e \in [ip : {a}, failed : CopyCounts(a) \cup {1},
         left : -Horizon .. MaxLeft + MaxSkew] :
     e.left <= calculate_backoff(e.failed) + skew}

\* The heaps check_dns can bring: at most one entry for each address.
Snapshots ==
  UNION {{{g[a] : a \in D} : g \in {h \in [D -> UNION {Entries(a) : a \in D}] :
                                      \A a \in D : h[a] \in Entries(a)}} :
         D \in SUBSET Addr}

\* The history of an exchange: the new entries are first failures.
PeakWith(new) == [a \in Addr |-> IF \E e \in new : e.ip = a THEN Higher(a, 1) ELSE peak[a]]

\* Mutant: the doctor is not told of the new heap.
replace_without_notify(new) ==
  /\ heap' = new
  /\ peak' = PeakWith(new)
  /\ UNCHANGED <<notifier, doctor>>

\* replace_with: the whole heap is exchanged; the doctor is notified only of
\* a heap with something in it.
replace_with(new) ==
  /\ heap' = new
  /\ peak' = PeakWith(new)
  /\ IF new # {} THEN notify_one ELSE UNCHANGED notifier
  /\ UNCHANGED doctor

\* One address is put into the store: by a report or by a forced recheck.
Put ==
  \E a \in Addr :
    \/ add_address(a)
    \/ \E f \in CopyCounts(a) : re_add_address(a, f)

Store ==
  /\ UNCHANGED history
  /\ \/ Put
     \/ \E new \in Snapshots : replace_with(new)

-----------------------------------------------------------------------------
(* The doctor: next_broken_ip_address, then recheck_broken_endpoint.       *)

\* peek returns None: wait for a notification.
LookEmpty ==
  /\ pc = "look"
  /\ heap = {}
  /\ pc' = "wait"
  /\ UNCHANGED <<store, notifier, timer, testing>>

\* Mutant: wait for a notification only, whatever the peeked entry says.
LookFutureNoTimer ==
  /\ pc = "look"
  /\ \E e \in heap : IsPeek(e) /\ e.left > 0
  /\ pc' = "wait"
  /\ UNCHANGED <<store, notifier, timer, testing>>

\* The peeked entry is not due: sleep until it is, or until notified.
LookFuture ==
  /\ pc = "look"
  /\ \E e \in heap :
       /\ IsPeek(e)
       /\ e.left > 0
       /\ timer' = e.left
  /\ pc' = "sleep"
  /\ UNCHANGED <<store, notifier, testing>>

\* Mutant: the entry is returned but stays in the heap.
LookDueNoPop ==
  /\ pc = "look"
  /\ \E e \in heap :
       /\ IsPeek(e)
       /\ e.left <= 0
       /\ testing' = [ip |-> e.ip, failed |-> e.failed]
  /\ pc' = "test"
  /\ UNCHANGED <<store, notifier, timer>>

\* The peeked entry is due: pop it and return it to the doctor's loop.
LookDue ==
  /\ pc = "look"
  /\ \E e \in heap :
       /\ IsPeek(e)
       /\ e.left <= 0
       /\ heap' = heap \ {e}
       /\ testing' = [ip |-> e.ip, failed |-> e.failed]
  /\ pc' = "test"
  /\ UNCHANGED <<peak, notifier, timer>>

\* The first poll of Notified: a stored permit is consumed at once, otherwise
\* the future is registered as a waiter.
PollNotified ==
  /\ pc \in {"wait", "sleep"}
  /\ waiter = "none"
  /\ IF permit
       THEN /\ permit' = FALSE
            /\ pc' = "look"
            /\ timer' = 0
            /\ UNCHANGED waiter
       ELSE /\ waiter' = "waiting"
            /\ UNCHANGED <<permit, pc, timer>>
  /\ UNCHANGED <<store, testing>>

\* The Notified future is ready.
WakeByNotify ==
  /\ pc \in {"wait", "sleep"}
  /\ waiter = "notified"
  /\ waiter' = "none"
  /\ pc' = "look"
  /\ timer' = 0
  /\ UNCHANGED <<store, permit, testing>>

\* The sleep branch of select! wins and the Notified future is dropped; a
\* notification it was handed already goes back into the permit.
WakeBySleep ==
  /\ pc = "sleep"
  /\ timer = 0
  /\ permit' = (permit \/ waiter = "notified")
  /\ waiter' = "none"
  /\ pc' = "look"
  /\ UNCHANGED <<store, timer, testing>>

\* connect() succeeds: the address goes to the ready channels and the doctor
\* turns to the next one.
DoctorConnected ==
  /\ pc = "test"
  /\ pc' = "look"
  /\ testing' = Nothing
  /\ UNCHANGED <<store, notifier, timer>>

\* connect() fails: re_add_address, with the u8 addition of a release build.
DoctorFailed ==
  /\ pc = "test"
  /\ add_address_with_current_fail_count(testing.ip, WrappingAdd1(testing.failed))
  /\ pc' = "look"
  /\ testing' = Nothing
  /\ UNCHANGED timer

\* The same addition in a build with overflow checks: the task panics and
\* nothing restarts it.
DoctorPanics ==
  /\ pc = "test"
  /\ testing.failed = U8Max
  /\ pc' = "panicked"
  /\ testing' = Nothing
  /\ UNCHANGED <<store, notifier, timer>>

Doctor ==
  /\ UNCHANGED skew
  /\ \/ LookEmpty
     \/ LookFuture
     \/ LookDue
     \/ PollNotified
     \/ WakeByNotify
     \/ WakeBySleep
     \/ DoctorConnected
     \/ DoctorFailed
     \/ DoctorPanics
  /\ drift' = IF pc' = "sleep" THEN drift ELSE 0

-----------------------------------------------------------------------------
(* Time.                                                                   *)

\* All entries are d seconds further from being due.
Shift(d) == heap' = {[e EXCEPT !.left = IF @ + d < -Horizon THEN @ ELSE @ + d] : e \in heap}

\* A second passes, on the wall clock and on tokio's timer.
Tick ==
  /\ Shift(-1)
  /\ timer' = IF timer > 0 THEN timer - 1 ELSE 0
  /\ UNCHANGED <<peak, notifier, pc, testing, history>>

\* The wall clock is set back (d = 1) or forward (d = -1); timers go on.
SetClock(d) ==
  /\ skew < MaxSkew
  /\ skew' = skew + 1
  /\ drift' = IF pc = "sleep" THEN drift + 1 ELSE 0
  /\ Shift(d)
  /\ UNCHANGED <<peak, notifier, doctor>>

Clock == Tick \/ SetClock(1) \/ SetClock(-1)

Next == Store \/ Doctor \/ Clock

Spec == Init /\ [][Next]_vars

\* The runtime polls a ready task, connection attempts end, and time passes.
FairSpec == Spec /\ WF_vars(Doctor) /\ WF_vars(Tick)

-----------------------------------------------------------------------------
(* Safety.                                                                 *)

\* The doctor has been told to look again: it will not wait.
Signalled == waiter = "notified" \/ (waiter = "none" /\ permit)

\* An address is in the heap at most once, however reports, rechecks, DNS
\* checks and the doctor interleave: get_address and the forced recheck rely
\* on it (the retain of add_address_with_current_fail_count).
OneEntryPerAddress == \A e, f \in heap : e.ip = f.ip => e = f

\* The doctor never waits for a notification that was already given: once it
\* blocks on an empty heap, an address that arrives reaches it (the mutex is
\* released before notified() is polled, next_broken_ip_address).
NoLostWakeup == pc = "wait" /\ heap # {} => Signalled

\* While the doctor sleeps and has not been notified, its timer runs for the
\* LATEST entry of the heap as it is now: it ends when that entry is due, by as
\* much too early or too late as the wall clock was set during this sleep (the
\* entries are due by the wall clock, the sleep is not).  So a report, a recheck
\* or an exchange of the heap never leaves the doctor asleep on the timer of an
\* older heap (add_address_with_current_fail_count, replace_with, select!).  An
\* entry that is due earlier waits for the latest one all the same: see
\* EveryBrokenRetested.
SleepsForLatest ==
  pc = "sleep" /\ heap # {} /\ ~Signalled =>
    \E e \in heap :
      /\ IsPeek(e)
      /\ e.left <= timer + drift
      /\ timer <= (IF e.left > 0 THEN e.left ELSE 0) + drift

\* A report, a recheck of any copy or a test of the doctor's shortens the wait
\* of an address only if it also takes its failure count back: a first report
\* of an address that has failed often, a recheck of a copy older than the
\* entry (the stale copies of the forced check in get_channel), or the failure
\* that the u8 cannot count.  (An exchange of the heap by a DNS check may bring
\* back any older entry; waits are compared up to what the clock was set by.)
\* And what the doctor has tested itself waits, when it fails, at least as long
\* as it had for the failure before (calculate_backoff, re_add_address).
BackoffGrows ==
  [][/\ Put \/ Doctor =>
          \A e \in heap, new \in heap' :
            e.ip = new.ip /\ e.failed <= new.failed => e.left <= new.left + skew
     /\ DoctorFailed /\ testing.failed < U8Max =>
          \A new \in heap' :
            new.ip = testing.ip => calculate_backoff(testing.failed) <= new.left]_vars

\* The store and its doctor are a BrokenSet.
Abs == INSTANCE BrokenSet WITH broken <- Broken, testing <- testing.ip

\* next_broken_ip_address hands out one stored address at a time and removes
\* it, and the other operations change membership as their names say.
RefinesBrokenSet == Abs!Spec

-----------------------------------------------------------------------------
(* Liveness.                                                               *)

\* From some moment on nobody but the doctor touches the store.
Quiet == <>[][Doctor \/ Clock]_vars

\* While anything is broken the doctor keeps testing: it neither sleeps nor
\* waits forever (unless it has panicked, or a DNS check empties the store).
DoctorProgress ==
  Quiet => (heap # {} ~> (heap = {} \/ pc \in {"test", "panicked"}))

\* "Returns the next broken IP address that should be tested": every address
\* in the store is taken out of it to be tested eventually (unless the doctor
\* has panicked; while the store is quiet only the doctor takes addresses).
EveryBrokenRetested ==
  Quiet => \A a \in Addr : a \in Broken ~> (a \notin Broken \/ pc = "panicked")

=============================================================================
