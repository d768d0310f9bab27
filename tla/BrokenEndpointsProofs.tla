------------------------ MODULE BrokenEndpointsProofs ------------------------
(***************************************************************************)
(* The safety of BrokenEndpoints for any set of addresses, any backoff and *)
(* any width of the failure counter; first, facts about the arithmetic of  *)
(* BackoffTracker, for all inputs.                                         *)
(***************************************************************************)
EXTENDS BrokenEndpoints, TLAPS

-----------------------------------------------------------------------------
(* Backoff.                                                                *)

\* The powers that calculate_backoff can compute, in order.
LEMMA PowersAreOrdered ==
  ASSUME NEW s \in 0 .. 6, NEW t \in 0 .. 6, s <= t
  PROVE  /\ 2 ^ s \in Int /\ 2 ^ t \in Int
         /\ 1 <= 2 ^ s /\ 2 ^ s <= 2 ^ t /\ 2 ^ t <= 64
<1> DEFINE Power(k) == 2 ^ k
<1>1. /\ Power(0) = 1 /\ Power(1) = 2 /\ Power(2) = 4 /\ Power(3) = 8
      /\ Power(4) = 16 /\ Power(5) = 32 /\ Power(6) = 64
  BY SMT
<1>2. s = 0 \/ s = 1 \/ s = 2 \/ s = 3 \/ s = 4 \/ s = 5 \/ s = 6
  BY SMT
<1>3. t = 0 \/ t = 1 \/ t = 2 \/ t = 3 \/ t = 4 \/ t = 5 \/ t = 6
  BY SMT
<1> HIDE DEF Power
<1>4. /\ Power(s) \in Int /\ Power(t) \in Int
      /\ 1 <= Power(s) /\ Power(s) <= Power(t) /\ Power(t) <= 64
  BY <1>1, <1>2, <1>3, SMT
<1> QED
  BY <1>4 DEF Power

\* Whatever the failure count, the wait is at least a second and at most the
\* longest one: the doctor is neither made to spin nor put off for longer
\* (calculate_backoff).
THEOREM BackoffBounds ==
  ASSUME NEW f \in FailCount
  PROVE  calculate_backoff(f) \in 1 .. 2 ^ MaxShift
<1> DEFINE shift == IF f = 0 THEN 0 ELSE f - 1
           exp == IF shift < MaxShift THEN shift ELSE MaxShift
<1>1. exp \in 0 .. 6 /\ exp <= MaxShift
  BY MaxShiftAssumption, U8MaxAssumption DEF FailCount
<1>2. calculate_backoff(f) = 2 ^ exp
  BY DEF calculate_backoff
<1> HIDE DEF exp
<1>3. /\ 2 ^ exp \in Int /\ 2 ^ MaxShift \in Int
      /\ 1 <= 2 ^ exp /\ 2 ^ exp <= 2 ^ MaxShift
  BY <1>1, PowersAreOrdered, MaxShiftAssumption, Zenon
<1> DEFINE p == 2 ^ exp
           m == 2 ^ MaxShift
<1> HIDE DEF p, m
<1>4. p \in Int /\ m \in Int /\ 1 <= p /\ p <= m
  BY <1>3, Zenon DEF p, m
<1>5. p \in 1 .. m
  BY <1>4
<1> QED
  BY <1>2, <1>5, Zenon DEF p, m

\* The longest wait of this crate: 64 seconds.
THEOREM BackoffAtMost64 ==
  ASSUME NEW f \in FailCount
  PROVE  calculate_backoff(f) <= 64
<1>1. MaxShift <= MaxShift
  BY MaxShiftAssumption
<1>2. 2 ^ MaxShift \in Int /\ 2 ^ MaxShift <= 64
  BY <1>1, PowersAreOrdered, MaxShiftAssumption, Zenon
<1> QED
  BY <1>2, BackoffBounds

\* One more failure never shortens the wait, until the count is full
\* (calculate_backoff).
THEOREM BackoffMonotone ==
  ASSUME NEW f \in FailCount, NEW g \in FailCount, f <= g
  PROVE  calculate_backoff(f) <= calculate_backoff(g)
<1> DEFINE shift(k) == IF k = 0 THEN 0 ELSE k - 1
           exp(k) == IF shift(k) < MaxShift THEN shift(k) ELSE MaxShift
<1>1. exp(f) \in 0 .. 6 /\ exp(g) \in 0 .. 6 /\ exp(f) <= exp(g)
  BY MaxShiftAssumption, U8MaxAssumption DEF FailCount
<1>2. calculate_backoff(f) = 2 ^ exp(f) /\ calculate_backoff(g) = 2 ^ exp(g)
  BY DEF calculate_backoff
<1> HIDE DEF exp
<1> QED
  BY <1>1, <1>2, PowersAreOrdered, Zenon

\* The u8 counter stays a u8, and wraps to zero exactly at its end.
LEMMA WrappingAdd1Type ==
  ASSUME NEW f \in FailCount
  PROVE  /\ WrappingAdd1(f) \in FailCount
         /\ f < U8Max => WrappingAdd1(f) = f + 1
         /\ f = U8Max => WrappingAdd1(f) = 0
  BY U8MaxAssumption DEF FailCount, WrappingAdd1

\* The failure count hidden in the timestamp is read back as it was written;
\* the nanoseconds stay below any multiple of 256 they were below (the limit
\* of with_nanosecond, 2_000_000_000, is one: its expect cannot fail); and the
\* time moves by less than 256 nanoseconds (set_retires, get_retires).
THEOREM RetiresRoundTrip ==
  ASSUME NEW top \in Nat, NEW nanos \in Nat, nanos < 256 * top, NEW f \in Byte
  PROVE  /\ get_retires(set_retires(nanos, f)) = f
         /\ set_retires(nanos, f) \in Nat
         /\ set_retires(nanos, f) < 256 * top
         /\ set_retires(nanos, f) - nanos \in -255 .. 255
  BY DEF get_retires, set_retires, Byte

-----------------------------------------------------------------------------
(* BrokenEndpoints.                                                        *)

\* The inductive invariant: the properties of the specification together are
\* preserved by every step.
IInv ==
  /\ TypeOK
  /\ OneEntryPerAddress
  /\ NoLostWakeup
  /\ SleepsForLatest

-----------------------------------------------------------------------------
\* The longest backoff is at least a second (MAX_BACKOFF of calculate_backoff).
LEMMA MaxLeftType == MaxLeft \in Nat /\ 1 <= MaxLeft
<1>1. MaxShift <= MaxShift
  BY MaxShiftAssumption
<1>2. MaxLeft \in Int /\ 1 <= MaxLeft
  BY <1>1, PowersAreOrdered, MaxShiftAssumption, Zenon DEF MaxLeft
<1> QED
  BY <1>2

\* A backoff is between a second and the longest one (calculate_backoff).
LEMMA BackoffType ==
  ASSUME NEW f \in FailCount
  PROVE  /\ calculate_backoff(f) \in Int
         /\ 1 <= calculate_backoff(f)
         /\ calculate_backoff(f) <= MaxLeft
<1>1. calculate_backoff(f) \in 1 .. MaxLeft
  BY BackoffBounds, Zenon DEF MaxLeft
<1> QED
  BY <1>1, MaxLeftType

\* The clock is set by no negative amount, and a time that fits fits later.
LEMMA SkewType == MaxSkew \in Nat
  BY MaxSkewAssumption, HorizonAssumption

\* What is known of an entry of the heap when the clock was set by k seconds.
EntryOK(e, k) == e \in DelayedAddress /\ e.left <= calculate_backoff(e.failed) + k

\* An entry that add_address_with_current_fail_count makes.
LEMMA NewEntryOK ==
  ASSUME NEW a \in Addr, NEW f \in FailCount, NEW k \in 0 .. MaxSkew
  PROVE  EntryOK([ip |-> a, failed |-> f, left |-> calculate_backoff(f)], k)
  BY BackoffType, MaxLeftType, HorizonAssumption, SkewType DEF EntryOK, DelayedAddress

\* The heaps of check_dns are heaps: one entry per address, none with more
\* than its backoff to go but for the clock.
LEMMA SnapshotOK ==
  ASSUME NEW new \in Snapshots
  PROVE  /\ \A e \in new : EntryOK(e, skew)
         /\ \A e, f \in new : e.ip = f.ip => e = f
<1> DEFINE Choices(D) == {h \in [D -> UNION {Entries(a) : a \in D}] :
                            \A a \in D : h[a] \in Entries(a)}
<1>0. PICK D \in SUBSET Addr : new \in {{g[a] : a \in D} : g \in Choices(D)}
  BY DEF Snapshots
<1>1. PICK g \in Choices(D) : new = {g[a] : a \in D}
  BY <1>0
<1>2. \A e \in new : \E a \in D : e = g[a]
  BY <1>1
<1>3. 1 \in FailCount
  BY U8MaxAssumption DEF FailCount
<1>4. ASSUME NEW a \in Addr, NEW e \in Entries(a) PROVE EntryOK(e, skew) /\ e.ip = a
  BY <1>3 DEF Entries, CopyCounts, EntryOK, DelayedAddress
<1>5. \A a \in D : EntryOK(g[a], skew) /\ g[a].ip = a
  BY <1>1, <1>4
<1> QED
  BY <1>2, <1>5

-----------------------------------------------------------------------------
\* What is known of the heap, and of the history of counts.
HeapOK ==
  /\ peak \in [Addr -> FailCount]
  /\ skew \in 0 .. MaxSkew
  /\ \A e \in heap : EntryOK(e, skew)

\* The part of TypeOK that is about the store.
LEMMA HeapType == TypeOK => HeapOK
  BY DEF TypeOK, HeapOK, EntryOK

\* notify_one leaves the doctor with something to wake it.
LEMMA NotifySignals ==
  ASSUME TypeOK, notify_one
  PROVE  /\ Signalled'
         /\ permit' \in BOOLEAN
         /\ waiter' \in {"none", "waiting", "notified"}
  BY DEF TypeOK, notify_one, Signalled

\* What add_address_with_current_fail_count does to the heap and the notifier.
LEMMA PutOK ==
  ASSUME TypeOK, OneEntryPerAddress, NEW a \in Addr, NEW f \in FailCount,
         add_address_with_current_fail_count(a, f), UNCHANGED skew
  PROVE  HeapOK' /\ OneEntryPerAddress' /\ notify_one
<1> DEFINE new == [ip |-> a, failed |-> f, left |-> calculate_backoff(f)]
<1>1. heap' = {e \in heap : e.ip # a} \cup {new} /\ notify_one
  BY DEF add_address_with_current_fail_count
<1>p. peak' \in [Addr -> FailCount]
  BY HeapType DEF add_address_with_current_fail_count, Higher, HeapOK
<1>2. EntryOK(new, skew)
  BY NewEntryOK, HeapType DEF HeapOK
<1>3. new.ip = a
  OBVIOUS
<1> HIDE DEF new
<1>4. HeapOK'
  BY <1>1, <1>2, <1>p, HeapType DEF HeapOK, EntryOK
<1>5. OneEntryPerAddress'
  BY <1>1, <1>3 DEF OneEntryPerAddress
<1> QED
  BY <1>1, <1>4, <1>5

-----------------------------------------------------------------------------
\* The doctor's own state is of the right type.
DoctorOK ==
  /\ pc \in {"look", "wait", "sleep", "test", "panicked"}
  /\ timer \in 0 .. MaxLeft + MaxSkew
  /\ testing \in [ip : Addr, failed : FailCount] \cup {Nothing}
  /\ (testing # Nothing) <=> (pc = "test")
  /\ drift \in 0 .. skew

\* The notifier is of the right type.
NotifierOK == permit \in BOOLEAN /\ waiter \in {"none", "waiting", "notified"}

\* TypeOK by owner: the store, its notifier and the doctor.
LEMMA TypeParts == TypeOK <=> HeapOK /\ NotifierOK /\ DoctorOK
  BY DEF TypeOK, HeapOK, EntryOK, NotifierOK, DoctorOK

\* A new store, with a doctor that has not looked yet, satisfies IInv (build).
THEOREM InitIInv == Init => IInv
<1> SUFFICES ASSUME Init PROVE IInv
  OBVIOUS
<1>0. 0 \in FailCount /\ 0 \in 0 .. MaxSkew
  BY U8MaxAssumption, SkewType DEF FailCount
<1>1. HeapOK /\ NotifierOK
  BY <1>0 DEF Init, HeapOK, NotifierOK
<1>2. timer \in 0 .. MaxLeft + MaxSkew
  BY MaxLeftType, SkewType DEF Init
<1>3. DoctorOK
  BY <1>0, <1>2 DEF Init, DoctorOK
<1>4. TypeOK
  BY <1>1, <1>3, TypeParts
<1> QED
  BY <1>4 DEF Init, IInv, OneEntryPerAddress, NoLostWakeup, SleepsForLatest

\* A step that notifies and leaves the doctor where it is.
LEMMA StoreStep ==
  ASSUME IInv, HeapOK', OneEntryPerAddress', UNCHANGED <<doctor, history>>,
         heap' # {} => notify_one,
         heap' = {} => UNCHANGED notifier
  PROVE  IInv'
<1>1. CASE heap' # {}
  <2>1. Signalled' /\ NotifierOK'
    BY <1>1, NotifySignals DEF IInv, NotifierOK
  <2>2. DoctorOK'
    BY TypeParts DEF IInv, doctor, history, DoctorOK
  <2>3. TypeOK'
    BY <2>1, <2>2, TypeParts DEF TypeOK, HeapOK, EntryOK, NotifierOK, DoctorOK
  <2> QED
    BY <2>1, <2>3 DEF IInv, NoLostWakeup, SleepsForLatest
<1>2. CASE heap' = {}
  <2>1. TypeOK'
    BY <1>2 DEF IInv, TypeOK, HeapOK, doctor, history, notifier
  <2> QED
    BY <1>2, <2>1 DEF IInv, NoLostWakeup, SleepsForLatest
<1> QED
  BY <1>1, <1>2

-----------------------------------------------------------------------------
\* An entry d seconds further from being due.
Aged(e, d) == [e EXCEPT !.left = IF @ + d < -Horizon THEN @ ELSE @ + d]

\* A second passes: an entry keeps its address and stays within its backoff.
LEMMA AgedDown ==
  ASSUME NEW k \in 0 .. MaxSkew, NEW e, EntryOK(e, k)
  PROVE  /\ Aged(e, -1).ip = e.ip
         /\ EntryOK(Aged(e, -1), k)
         /\ e.left \in Int
         /\ Aged(e, -1).left = IF e.left - 1 < -Horizon THEN e.left ELSE e.left - 1
<1>1. /\ e \in DelayedAddress /\ e.left \in -Horizon .. MaxLeft + MaxSkew
      /\ e.failed \in FailCount /\ e.left <= calculate_backoff(e.failed) + k
      /\ calculate_backoff(e.failed) \in Int
  BY BackoffType DEF EntryOK, DelayedAddress
<1>2. /\ Aged(e, -1).ip = e.ip /\ Aged(e, -1).failed = e.failed
      /\ Aged(e, -1).left = IF e.left + (-1) < -Horizon THEN e.left ELSE e.left + (-1)
      /\ Aged(e, -1) \in [ip : Addr, failed : FailCount, left : Int]
  BY <1>1, HorizonAssumption, MaxLeftType, SkewType DEF DelayedAddress, Aged
<1>3. /\ Aged(e, -1).left \in -Horizon .. MaxLeft + MaxSkew
      /\ Aged(e, -1).left <= calculate_backoff(e.failed) + k
  BY <1>1, <1>2, HorizonAssumption, MaxLeftType, SkewType
<1> QED
  BY <1>1, <1>2, <1>3, HorizonAssumption, MaxLeftType, SkewType DEF EntryOK, DelayedAddress

\* The clock is set by a second: an entry stays within its backoff and what the
\* clock was set by.
LEMMA AgedSet ==
  ASSUME NEW k \in Nat, k + 1 \in 0 .. MaxSkew, NEW d \in {-1, 1}, NEW e, EntryOK(e, k)
  PROVE  /\ Aged(e, d).ip = e.ip
         /\ EntryOK(Aged(e, d), k + 1)
         /\ e.left \in Int
         /\ Aged(e, d).left = IF e.left + d < -Horizon THEN e.left ELSE e.left + d
<1>1. /\ e \in DelayedAddress /\ e.left \in -Horizon .. MaxLeft + MaxSkew
      /\ e.failed \in FailCount /\ e.left <= calculate_backoff(e.failed) + k
      /\ calculate_backoff(e.failed) \in Int /\ calculate_backoff(e.failed) <= MaxLeft
  BY BackoffType DEF EntryOK, DelayedAddress
<1>2. /\ Aged(e, d).ip = e.ip /\ Aged(e, d).failed = e.failed
      /\ Aged(e, d).left = IF e.left + d < -Horizon THEN e.left ELSE e.left + d
      /\ Aged(e, d) \in [ip : Addr, failed : FailCount, left : Int]
  BY <1>1, HorizonAssumption, MaxLeftType, SkewType DEF DelayedAddress, Aged
<1>3. /\ Aged(e, d).left \in -Horizon .. MaxLeft + MaxSkew
      /\ Aged(e, d).left <= calculate_backoff(e.failed) + (k + 1)
  BY <1>1, <1>2, HorizonAssumption, MaxLeftType, SkewType
<1> QED
  BY <1>1, <1>2, <1>3, HorizonAssumption, MaxLeftType, SkewType DEF EntryOK, DelayedAddress

-----------------------------------------------------------------------------
\* What a step of the doctor does to the histories of the clock.
Slept == UNCHANGED skew /\ drift' = IF pc' = "sleep" THEN drift ELSE 0

\* The doctor sets no clock (next_broken_ip_address).
LEMMA SleptOK ==
  ASSUME HeapOK, DoctorOK, Slept
  PROVE  /\ UNCHANGED skew
         /\ drift' \in 0 .. skew'
         /\ pc' = "sleep" => drift' = drift
  BY SkewType DEF Slept, HeapOK, DoctorOK

\* Every step of the store, of the doctor and of the clock preserves IInv.
THEOREM NextIInv == IInv /\ [Next]_vars => IInv'
<1> SUFFICES ASSUME IInv, [Next]_vars PROVE IInv'
  OBVIOUS
<1>0. HeapOK /\ NotifierOK /\ DoctorOK
  BY TypeParts DEF IInv
<1>1. CASE UNCHANGED vars
  BY <1>1 DEF vars, store, notifier, doctor, history, IInv, TypeOK, OneEntryPerAddress, NoLostWakeup,
                SleepsForLatest, IsPeek, Signalled
<1>2. ASSUME NEW a \in Addr, add_address(a), UNCHANGED history PROVE IInv'
  <2>1. 1 \in FailCount
    BY U8MaxAssumption DEF FailCount
  <2>2. add_address_with_current_fail_count(a, 1) /\ UNCHANGED doctor
    BY <1>2 DEF add_address
  <2>3. HeapOK' /\ OneEntryPerAddress' /\ notify_one
    BY <1>2, <2>1, <2>2, PutOK DEF IInv, history
  <2>4. heap' # {}
    BY <2>2 DEF add_address_with_current_fail_count
  <2> QED
    BY <1>2, <2>2, <2>3, <2>4, StoreStep
<1>3. ASSUME NEW a \in Addr, NEW f \in CopyCounts(a), re_add_address(a, f), UNCHANGED history PROVE IInv'
  <2>1. WrappingAdd1(f) \in FailCount
    BY WrappingAdd1Type DEF CopyCounts
  <2>2. add_address_with_current_fail_count(a, WrappingAdd1(f)) /\ UNCHANGED doctor
    BY <1>3 DEF re_add_address
  <2>3. HeapOK' /\ OneEntryPerAddress' /\ notify_one
    BY <1>3, <2>1, <2>2, PutOK DEF IInv, history
  <2>4. heap' # {}
    BY <2>2 DEF add_address_with_current_fail_count
  <2> QED
    BY <1>3, <2>2, <2>3, <2>4, StoreStep
<1>4. ASSUME NEW new \in Snapshots, replace_with(new), UNCHANGED history PROVE IInv'
  <2>1. heap' = new /\ UNCHANGED doctor
    BY <1>4 DEF replace_with
  <2>p. peak' \in [Addr -> FailCount]
    BY <1>4, <1>0, U8MaxAssumption DEF replace_with, PeakWith, Higher, HeapOK, FailCount
  <2>2. HeapOK' /\ OneEntryPerAddress'
    BY <1>0, <1>4, <2>1, <2>p, SnapshotOK DEF HeapOK, EntryOK, OneEntryPerAddress, history
  <2>3. (heap' # {} => notify_one) /\ (heap' = {} => UNCHANGED notifier)
    BY <1>4 DEF replace_with
  <2> QED
    BY <1>4, <2>1, <2>2, <2>3, StoreStep
<1>5. CASE LookEmpty /\ Slept
  <2>0. UNCHANGED skew /\ drift' \in 0 .. skew' /\ (pc' = "sleep" => drift' = drift)
    BY <1>5, <1>0, SleptOK
  <2>1. TypeOK'
    BY <1>5, <2>0, <1>0 DEF LookEmpty, store, notifier, IInv, TypeOK, DoctorOK
  <2> QED
    BY <1>5, <2>0, <2>1 DEF LookEmpty, store, IInv, OneEntryPerAddress, NoLostWakeup, SleepsForLatest
<1>6. CASE LookFuture /\ Slept
  <2>0. UNCHANGED skew /\ drift' \in 0 .. skew' /\ (pc' = "sleep" => drift' = drift)
    BY <1>6, <1>0, SleptOK
  <2>1. PICK e \in heap : IsPeek(e) /\ e.left > 0 /\ timer' = e.left
    BY <1>6 DEF LookFuture
  <2>2. e.left \in Int /\ e.left <= MaxLeft + MaxSkew
    BY <1>0, HorizonAssumption, MaxLeftType, SkewType DEF HeapOK, EntryOK, DelayedAddress
  <2>3. timer' \in 0 .. MaxLeft + MaxSkew
    BY <2>1, <2>2, MaxLeftType, SkewType
  <2>4. TypeOK'
    BY <1>6, <2>0, <2>3 DEF LookFuture, store, notifier, IInv, TypeOK
  <2>5. SleepsForLatest'
    <3>1. drift' \in Nat
      BY <1>0, <2>0, SkewType DEF HeapOK
    <3>2. IsPeek(e)' /\ e \in heap'
      BY <1>6, <2>1 DEF LookFuture, store, IsPeek
    <3>3. e.left <= timer' + drift' /\ timer' <= (IF e.left > 0 THEN e.left ELSE 0) + drift'
      BY <2>1, <2>2, <3>1
    <3> QED
      BY <3>2, <3>3 DEF SleepsForLatest
  <2> QED
    BY <1>6, <2>4, <2>5 DEF LookFuture, store, IInv, OneEntryPerAddress, NoLostWakeup
<1>7. CASE LookDue /\ Slept
  <2>0. UNCHANGED skew /\ drift' \in 0 .. skew' /\ (pc' = "sleep" => drift' = drift)
    BY <1>7, <1>0, SleptOK
  <2>1. PICK e \in heap : /\ heap' = heap \ {e}
                          /\ testing' = [ip |-> e.ip, failed |-> e.failed]
    BY <1>7, <2>0 DEF LookDue
  <2>2. e.ip \in Addr /\ e.failed \in FailCount
    BY <1>0 DEF HeapOK, EntryOK, DelayedAddress
  <2>3. testing' \in [ip : Addr, failed : FailCount] /\ testing' # Nothing
    BY <2>1, <2>2, NoAddrAssumption DEF Nothing
  <2>4. TypeOK'
    BY <1>7, <2>0, <2>1, <2>3 DEF LookDue, store, notifier, IInv, TypeOK
  <2> QED
    BY <1>7, <2>0, <2>1, <2>4 DEF LookDue, IInv, OneEntryPerAddress, NoLostWakeup, SleepsForLatest
<1>8. CASE PollNotified /\ Slept
  <2>0. UNCHANGED skew /\ drift' \in 0 .. skew' /\ (pc' = "sleep" => drift' = drift)
    BY <1>8, <1>0, SleptOK
  <2>1. TypeOK'
    <3>1. HeapOK' /\ NotifierOK'
      BY <1>8, <2>0, <1>0 DEF PollNotified, store, HeapOK, EntryOK, NotifierOK
    <3>2. timer' \in 0 .. MaxLeft + MaxSkew
      BY <1>8, <2>0, <1>0, MaxLeftType, SkewType DEF PollNotified, store, DoctorOK
    <3>3. DoctorOK'
      BY <1>8, <2>0, <1>0, <3>2 DEF PollNotified, store, DoctorOK
    <3> QED
      BY <3>1, <3>3 DEF TypeOK, HeapOK, EntryOK, NotifierOK, DoctorOK
  <2>2. OneEntryPerAddress'
    BY <1>8, <2>0 DEF PollNotified, store, IInv, OneEntryPerAddress
  <2>3. CASE permit
    BY <1>8, <2>0, <2>1, <2>2, <2>3 DEF PollNotified, store, IInv, NoLostWakeup, SleepsForLatest
  <2>4. CASE ~permit
    <3>1. ~Signalled /\ UNCHANGED <<heap, pc, timer, skew>> /\ (pc' = "sleep" => drift' = drift)
      BY <1>8, <2>0, <2>4 DEF PollNotified, store, Signalled
    <3> QED
      BY <2>1, <2>2, <3>1 DEF IInv, NoLostWakeup, SleepsForLatest, IsPeek
  <2> QED
    BY <2>3, <2>4
<1>9. CASE WakeByNotify /\ Slept
  <2>0. UNCHANGED skew /\ drift' \in 0 .. skew' /\ (pc' = "sleep" => drift' = drift)
    BY <1>9, <1>0, SleptOK
  <2>1. TypeOK'
    BY <1>9, <2>0, MaxLeftType, SkewType DEF WakeByNotify, store, IInv, TypeOK
  <2> QED
    BY <1>9, <2>0, <2>1 DEF WakeByNotify, store, IInv, OneEntryPerAddress, NoLostWakeup, SleepsForLatest
<1>10. CASE WakeBySleep /\ Slept
  <2>0. UNCHANGED skew /\ drift' \in 0 .. skew' /\ (pc' = "sleep" => drift' = drift)
    BY <1>10, <1>0, SleptOK
  <2>1. NotifierOK'
    BY <1>10, <2>0, Zenon DEF WakeBySleep, store, NotifierOK
  <2>2. HeapOK' /\ DoctorOK'
    BY <1>10, <2>0, <1>0 DEF WakeBySleep, store, HeapOK, EntryOK, DoctorOK
  <2>3. TypeOK'
    BY <2>1, <2>2 DEF TypeOK, HeapOK, EntryOK, NotifierOK, DoctorOK
  <2> QED
    BY <1>10, <2>0, <2>3 DEF WakeBySleep, store, IInv, OneEntryPerAddress, NoLostWakeup, SleepsForLatest
<1>11. CASE DoctorConnected /\ Slept
  <2>0. UNCHANGED skew /\ drift' \in 0 .. skew' /\ (pc' = "sleep" => drift' = drift)
    BY <1>11, <1>0, SleptOK
  <2>1. TypeOK'
    BY <1>11, <2>0 DEF DoctorConnected, store, notifier, IInv, TypeOK
  <2> QED
    BY <1>11, <2>0, <2>1 DEF DoctorConnected, store, IInv, OneEntryPerAddress, NoLostWakeup, SleepsForLatest
<1>12. CASE DoctorFailed /\ Slept
  <2>0. UNCHANGED skew /\ drift' \in 0 .. skew' /\ (pc' = "sleep" => drift' = drift)
    BY <1>12, <1>0, SleptOK
  <2>1. testing.ip \in Addr /\ testing.failed \in FailCount
    BY <1>12, <2>0, <1>0 DEF DoctorFailed, DoctorOK
  <2>2. WrappingAdd1(testing.failed) \in FailCount
    BY <2>1, WrappingAdd1Type
  <2>3. HeapOK' /\ OneEntryPerAddress' /\ notify_one
    BY <1>12, <2>0, <2>1, <2>2, PutOK DEF DoctorFailed, IInv
  <2>4. NotifierOK'
    BY <2>3, NotifySignals DEF IInv, NotifierOK
  <2>5. DoctorOK'
    BY <1>12, <2>0, <1>0 DEF DoctorFailed, DoctorOK
  <2>6. TypeOK'
    BY <2>3, <2>4, <2>5 DEF TypeOK, HeapOK, EntryOK, NotifierOK, DoctorOK
  <2> QED
    BY <1>12, <2>0, <2>3, <2>6 DEF DoctorFailed, IInv, NoLostWakeup, SleepsForLatest
<1>13. CASE DoctorPanics /\ Slept
  <2>0. UNCHANGED skew /\ drift' \in 0 .. skew' /\ (pc' = "sleep" => drift' = drift)
    BY <1>13, <1>0, SleptOK
  <2>1. TypeOK'
    BY <1>13, <2>0 DEF DoctorPanics, store, notifier, IInv, TypeOK
  <2> QED
    BY <1>13, <2>0, <2>1 DEF DoctorPanics, store, IInv, OneEntryPerAddress, NoLostWakeup, SleepsForLatest
<1>14. CASE Tick
  <2>1. heap' = {Aged(e, -1) : e \in heap}
    BY <1>14 DEF Tick, Shift, Aged
  <2>2. \A e \in heap : /\ Aged(e, -1).ip = e.ip
                        /\ EntryOK(Aged(e, -1), skew)
                        /\ e.left \in Int
                        /\ Aged(e, -1).left = IF e.left - 1 < -Horizon THEN e.left ELSE e.left - 1
    <3> SUFFICES ASSUME NEW e \in heap
                 PROVE  /\ Aged(e, -1).ip = e.ip
                        /\ EntryOK(Aged(e, -1), skew)
                        /\ e.left \in Int
                        /\ Aged(e, -1).left = IF e.left - 1 < -Horizon THEN e.left ELSE e.left - 1
      OBVIOUS
    <3>1. EntryOK(e, skew) /\ skew \in 0 .. MaxSkew
      BY <1>0 DEF HeapOK
    <3>2. EntryOK(Aged(e, -1), skew)
      BY <3>1, AgedDown
    <3> QED
      BY <3>1, <3>2, AgedDown
  <2>3. HeapOK'
    BY <1>14, <1>0, <2>1, <2>2 DEF Tick, history, HeapOK, EntryOK
  <2>4. OneEntryPerAddress'
    BY <2>1, <2>2 DEF IInv, OneEntryPerAddress
  <2>5. /\ timer \in Int /\ timer' \in Int /\ timer' \in 0 .. MaxLeft + MaxSkew
        /\ timer' = IF timer > 0 THEN timer - 1 ELSE 0
    BY <1>14, <1>0, MaxLeftType, SkewType DEF Tick, DoctorOK
  <2>6. DoctorOK' /\ NotifierOK'
    BY <1>14, <1>0, <2>5 DEF Tick, notifier, history, DoctorOK, NotifierOK
  <2>7. TypeOK'
    BY <2>3, <2>6 DEF TypeOK, HeapOK, EntryOK, NotifierOK, DoctorOK
  <2>8. NoLostWakeup'
    BY <1>14, <2>1 DEF Tick, notifier, IInv, NoLostWakeup, Signalled
  <2>9. SleepsForLatest'
    <3> SUFFICES ASSUME pc' = "sleep", heap' # {}, ~Signalled'
                 PROVE  \E e \in heap' :
                          /\ IsPeek(e)'
                          /\ e.left <= timer' + drift'
                          /\ timer' <= (IF e.left > 0 THEN e.left ELSE 0) + drift'
      BY DEF SleepsForLatest
    <3>1. pc = "sleep" /\ heap # {} /\ ~Signalled
      BY <1>14, <2>1 DEF Tick, notifier, Signalled
    <3>2. PICK e \in heap : /\ IsPeek(e)
                            /\ e.left <= timer + drift
                            /\ timer <= (IF e.left > 0 THEN e.left ELSE 0) + drift
      BY <3>1 DEF IInv, SleepsForLatest
    <3>3. Aged(e, -1) \in heap' /\ drift' = drift /\ drift \in Nat
      BY <1>14, <1>0, <2>1, SkewType DEF Tick, history, HeapOK, DoctorOK
    <3>4. /\ Aged(e, -1).left <= timer' + drift'
          /\ timer' <= (IF Aged(e, -1).left > 0 THEN Aged(e, -1).left ELSE 0) + drift'
      BY <2>2, <2>5, <3>2, <3>3, HorizonAssumption
    <3>5. IsPeek(Aged(e, -1))'
      BY <2>1, <2>2, <3>2, <3>3, HorizonAssumption DEF IsPeek
    <3> QED
      BY <3>3, <3>4, <3>5
  <2> QED
    BY <2>4, <2>7, <2>8, <2>9 DEF IInv
<1>15. ASSUME NEW d \in {-1, 1}, SetClock(d) PROVE IInv'
  <2>1. heap' = {Aged(e, d) : e \in heap}
    BY <1>15 DEF SetClock, Shift, Aged
  <2>2. skew \in Nat /\ skew' = skew + 1 /\ skew' \in 0 .. MaxSkew
    BY <1>15, <1>0, SkewType DEF SetClock, HeapOK
  <2>3. \A e \in heap : /\ Aged(e, d).ip = e.ip
                        /\ EntryOK(Aged(e, d), skew')
                        /\ e.left \in Int
                        /\ Aged(e, d).left = IF e.left + d < -Horizon THEN e.left ELSE e.left + d
    BY <1>0, <2>2, AgedSet DEF HeapOK
  <2>4. HeapOK'
    BY <1>15, <1>0, <2>1, <2>2, <2>3 DEF SetClock, HeapOK, EntryOK
  <2>5. OneEntryPerAddress'
    BY <2>1, <2>3 DEF IInv, OneEntryPerAddress
  <2>d. drift' \in 0 .. skew'
    BY <1>15, <1>0, <2>2 DEF SetClock, DoctorOK
  <2>6. DoctorOK' /\ NotifierOK'
    BY <1>15, <1>0, <2>d DEF SetClock, doctor, notifier, DoctorOK, NotifierOK
  <2>7. TypeOK'
    BY <2>4, <2>6 DEF TypeOK, HeapOK, EntryOK, NotifierOK, DoctorOK
  <2>8. NoLostWakeup'
    BY <1>15, <2>1 DEF SetClock, doctor, notifier, IInv, NoLostWakeup, Signalled
  <2>9. SleepsForLatest'
    <3> SUFFICES ASSUME pc' = "sleep", heap' # {}, ~Signalled'
                 PROVE  \E e \in heap' :
                          /\ IsPeek(e)'
                          /\ e.left <= timer' + drift'
                          /\ timer' <= (IF e.left > 0 THEN e.left ELSE 0) + drift'
      BY DEF SleepsForLatest
    <3>1. pc = "sleep" /\ heap # {} /\ ~Signalled
      BY <1>15, <2>1 DEF SetClock, doctor, notifier, Signalled
    <3>2. PICK e \in heap : /\ IsPeek(e)
                            /\ e.left <= timer + drift
                            /\ timer <= (IF e.left > 0 THEN e.left ELSE 0) + drift
      BY <3>1 DEF IInv, SleepsForLatest
    <3>3. /\ Aged(e, d) \in heap' /\ timer' = timer /\ timer \in Nat
          /\ drift' = drift + 1 /\ drift \in Nat
      BY <1>15, <1>0, <2>1, <2>2, <3>1, MaxLeftType, SkewType DEF SetClock, doctor, DoctorOK
    <3>4. /\ Aged(e, d).left <= timer' + drift'
          /\ timer' <= (IF Aged(e, d).left > 0 THEN Aged(e, d).left ELSE 0) + drift'
      BY <2>3, <3>2, <3>3, HorizonAssumption
    <3>5. IsPeek(Aged(e, d))'
      BY <2>1, <2>3, <3>2, <3>3, HorizonAssumption DEF IsPeek
    <3> QED
      BY <3>3, <3>4, <3>5
  <2> QED
    BY <2>5, <2>7, <2>8, <2>9 DEF IInv
<1> QED
  BY <1>1, <1>2, <1>3, <1>4, <1>5, <1>6, <1>7, <1>8, <1>9, <1>10, <1>11, <1>12, <1>13, <1>14,
     <1>15 DEF Next, Store, Put, Doctor, Slept, Clock

\* The inductive invariant holds in every reachable state.
THEOREM Invariance == Spec => []IInv
  BY InitIInv, NextIInv, PTL DEF Spec

\* Type correctness: in particular the failure count stays a u8 and no entry
\* is due later than its backoff.
THEOREM TypeCorrect == Spec => []TypeOK
  BY Invariance, PTL DEF IInv

\* An address is in the heap at most once (retain before push).
THEOREM UniqueEntries == Spec => []OneEntryPerAddress
  BY Invariance, PTL DEF IInv

\* No wakeup is lost between dropping the mutex and polling notified().
THEOREM WakeupsKept == Spec => []NoLostWakeup
  BY Invariance, PTL DEF IInv

\* The doctor's timer always runs for the latest entry of the heap as it is,
\* for whatever the clock was set by during the sleep (next_broken_ip_address).
THEOREM SleepsBounded == Spec => []SleepsForLatest
  BY Invariance, PTL DEF IInv

\* An entry that is put into the heap, and one that stays: a wait gets shorter
\* only with its failure count.
LEMMA PutGrows ==
  ASSUME IInv, NEW a \in Addr, NEW f \in FailCount,
         add_address_with_current_fail_count(a, f),
         NEW e \in heap, NEW new \in heap', e.ip = new.ip, e.failed <= new.failed
  PROVE  e.left <= new.left + skew
<1> DEFINE put == [ip |-> a, failed |-> f, left |-> calculate_backoff(f)]
<1>1. /\ e.left \in Int /\ e.failed \in FailCount
      /\ e.left <= calculate_backoff(e.failed) + skew /\ skew \in Nat
  BY HeapType, SkewType DEF IInv, HeapOK, EntryOK, DelayedAddress
<1>2. new \in heap \/ new = put
  BY DEF add_address_with_current_fail_count
<1>3. CASE new \in heap
  <2>1. new = e
    BY <1>3 DEF IInv, OneEntryPerAddress
  <2> QED
    BY <1>1, <2>1
<1>4. CASE new = put
  <2>1. new.failed = f /\ new.left = calculate_backoff(f)
    BY <1>4
  <2>2. calculate_backoff(e.failed) <= calculate_backoff(f)
    BY <1>1, <2>1, BackoffMonotone
  <2>3. calculate_backoff(e.failed) \in Int /\ calculate_backoff(f) \in Int
    BY <1>1, BackoffType
  <2> QED
    BY <1>1, <2>1, <2>2, <2>3
<1> QED
  BY <1>2, <1>3, <1>4

\* Whoever reports, rechecks or tests, and however old its copy of the entry: a
\* wait gets shorter only with the failure count of its address, and a test of
\* the doctor's that fails never shortens it, but for the failure that overflows
\* the count (re_add_address, calculate_backoff).
THEOREM WaitsGrow == Spec => BackoffGrows
<1> DEFINE OnlyWithCount ==
             Put \/ Doctor =>
               \A e \in heap, new \in heap' :
                 e.ip = new.ip /\ e.failed <= new.failed => e.left <= new.left + skew
           Tested ==
             DoctorFailed /\ testing.failed < U8Max =>
               \A new \in heap' :
                 new.ip = testing.ip => calculate_backoff(testing.failed) <= new.left
<1>1. IInv /\ [Next]_vars => [OnlyWithCount]_vars
  <2> SUFFICES ASSUME IInv, Put \/ Doctor, NEW e \in heap, NEW new \in heap',
                      e.ip = new.ip, e.failed <= new.failed
               PROVE  e.left <= new.left + skew
    BY Zenon
  <2>1. HeapOK /\ DoctorOK
    BY TypeParts DEF IInv
  \* The heap stays, or loses an entry.
  <2>2. CASE heap' \subseteq heap
    <3>1. new = e
      BY <2>2 DEF IInv, OneEntryPerAddress
    <3>2. e.left \in Int /\ skew \in Nat
      BY <2>1, SkewType DEF HeapOK, EntryOK, DelayedAddress
    <3> QED
      BY <3>1, <3>2
  <2>3. ASSUME NEW a \in Addr, add_address(a) PROVE e.left <= new.left + skew
    <3>1. 1 \in FailCount
      BY U8MaxAssumption DEF FailCount
    <3>2. add_address_with_current_fail_count(a, 1)
      BY <2>3 DEF add_address
    <3> QED
      BY <3>1, <3>2, PutGrows
  <2>4. ASSUME NEW a \in Addr, NEW f \in CopyCounts(a), re_add_address(a, f)
        PROVE  e.left <= new.left + skew
    <3>1. WrappingAdd1(f) \in FailCount
      BY WrappingAdd1Type DEF CopyCounts
    <3>2. add_address_with_current_fail_count(a, WrappingAdd1(f))
      BY <2>4 DEF re_add_address
    <3> QED
      BY <3>1, <3>2, PutGrows
  <2>5. CASE DoctorFailed
    <3>1. testing.ip \in Addr /\ testing.failed \in FailCount
      BY <2>1, <2>5 DEF DoctorFailed, DoctorOK
    <3>2. WrappingAdd1(testing.failed) \in FailCount
      BY <3>1, WrappingAdd1Type
    <3>3. add_address_with_current_fail_count(testing.ip, WrappingAdd1(testing.failed))
      BY <2>5 DEF DoctorFailed
    <3> QED
      BY <3>1, <3>2, <3>3, PutGrows
  <2>6. CASE Doctor /\ ~DoctorFailed
    <3>1. heap' \subseteq heap
      BY <2>6 DEF Doctor, LookEmpty, LookFuture, LookDue, PollNotified, WakeByNotify, WakeBySleep,
                  DoctorConnected, DoctorPanics, store
    <3> QED
      BY <2>2, <3>1
  <2> QED
    BY <2>3, <2>4, <2>5, <2>6 DEF Put
<1>2. IInv /\ [Next]_vars => [Tested]_vars
  <2> SUFFICES ASSUME IInv, DoctorFailed, testing.failed < U8Max,
                      NEW new \in heap', new.ip = testing.ip
               PROVE  calculate_backoff(testing.failed) <= new.left
    BY Zenon
  <2>1. testing.failed \in FailCount
    BY TypeParts DEF IInv, DoctorFailed, DoctorOK
  <2>2. WrappingAdd1(testing.failed) = testing.failed + 1 /\ testing.failed + 1 \in FailCount
    BY <2>1, U8MaxAssumption, WrappingAdd1Type DEF FailCount
  <2>3. new.left = calculate_backoff(testing.failed + 1)
    BY <2>2 DEF DoctorFailed, add_address_with_current_fail_count
  <2>4. testing.failed <= testing.failed + 1
    BY <2>1 DEF FailCount
  <2>5. calculate_backoff(testing.failed) <= calculate_backoff(testing.failed + 1)
    BY <2>1, <2>2, <2>4, BackoffMonotone
  <2> QED
    BY <2>3, <2>5
<1>3. IInv /\ [Next]_vars => [OnlyWithCount /\ Tested]_vars
  <2> HIDE DEF OnlyWithCount, Tested
  <2> QED
    BY <1>1, <1>2, Zenon
<1> QED
  BY <1>3, Invariance, PTL DEF Spec, BackoffGrows

-----------------------------------------------------------------------------
(* BrokenEndpoints implements BrokenSet.                                   *)

\* add_address_with_current_fail_count puts the address into the set.
LEMMA PutAdds ==
  ASSUME NEW a \in Addr, NEW f, add_address_with_current_fail_count(a, f)
  PROVE  Broken' = Broken \cup {a}
<1> DEFINE new == [ip |-> a, failed |-> f, left |-> calculate_backoff(f)]
<1>1. heap' = {e \in heap : e.ip # a} \cup {new}
  BY DEF add_address_with_current_fail_count
<1>2. new.ip = a
  OBVIOUS
<1> HIDE DEF new
<1> QED
  BY <1>1, <1>2 DEF Broken

\* Popping the only entry of an address takes the address out.
LEMMA PopRemoves ==
  ASSUME OneEntryPerAddress, NEW e \in heap, heap' = heap \ {e}
  PROVE  Broken' = Broken \ {e.ip} /\ e.ip \in Broken
  BY DEF Broken, OneEntryPerAddress

\* A new store is an empty set (Default of BrokenEndpoints).
LEMMA RefineInit == Init => Abs!Init
  BY DEF Init, Abs!Init, Broken, Nothing

\* Every step of the store, the doctor or the clock is a step of the set, or
\* changes neither the set nor the address being tested.
LEMMA RefineNext == IInv /\ [Next]_vars => [Abs!Next]_(Abs!vars)
<1> SUFFICES ASSUME IInv, [Next]_vars PROVE Abs!Next \/ UNCHANGED Abs!vars
  OBVIOUS
<1>0. HeapOK /\ DoctorOK
  BY TypeParts DEF IInv
<1>1. CASE UNCHANGED vars
  BY <1>1 DEF vars, store, doctor, Abs!vars, Broken
<1>2. ASSUME NEW a \in Addr, add_address(a) PROVE Abs!Next
  <2>1. Abs!AddAddress(a)
    BY <1>2, PutAdds DEF add_address, doctor, Abs!AddAddress
  <2> QED
    BY <2>1 DEF Abs!Next
<1>3. ASSUME NEW a \in Addr, NEW f \in CopyCounts(a), re_add_address(a, f) PROVE Abs!Next
  <2>1. Abs!AddAddress(a)
    BY <1>3, PutAdds DEF re_add_address, doctor, Abs!AddAddress
  <2> QED
    BY <2>1 DEF Abs!Next
<1>4. ASSUME NEW new \in Snapshots, replace_with(new) PROVE Abs!Next
  <2>1. Broken' \in SUBSET Addr
    BY <1>4, SnapshotOK DEF replace_with, Broken, EntryOK, DelayedAddress
  <2>2. Abs!ReplaceWith(Broken')
    BY <1>4 DEF replace_with, doctor, Abs!ReplaceWith
  <2> QED
    BY <2>1, <2>2 DEF Abs!Next
<1>5. CASE LookEmpty \/ LookFuture \/ PollNotified \/ WakeByNotify \/ WakeBySleep
  BY <1>5 DEF LookEmpty, store, LookFuture, PollNotified, WakeByNotify, WakeBySleep, Abs!vars, Broken
<1>6. CASE LookDue
  <2>1. PICK e \in heap : heap' = heap \ {e} /\ testing'.ip = e.ip
    BY <1>6 DEF LookDue
  <2>2. testing.ip = NoAddr
    BY <1>6, <1>0 DEF LookDue, DoctorOK, Nothing
  <2>3. Broken' = Broken \ {e.ip} /\ e.ip \in Broken
    BY <2>1, PopRemoves DEF IInv
  <2>4. Abs!NextBroken
    BY <2>1, <2>2, <2>3 DEF Abs!NextBroken
  <2> QED
    BY <2>4 DEF Abs!Next
<1>7. CASE DoctorConnected \/ DoctorPanics
  <2>1. testing.ip # NoAddr /\ testing'.ip = NoAddr /\ heap' = heap
    BY <1>7, <1>0, NoAddrAssumption DEF DoctorConnected, store, DoctorPanics, DoctorOK, Nothing
  <2>2. Abs!Tested
    BY <2>1 DEF Abs!Tested, Broken
  <2> QED
    BY <2>2 DEF Abs!Next
<1>8. CASE DoctorFailed
  <2>1. testing.ip \in Addr /\ testing.ip # NoAddr /\ testing'.ip = NoAddr
    BY <1>8, <1>0, NoAddrAssumption DEF DoctorFailed, DoctorOK, Nothing
  <2>2. Broken' = Broken \cup {testing.ip}
    BY <1>8, <2>1, PutAdds DEF DoctorFailed
  <2>3. Abs!TestFailed
    BY <2>1, <2>2 DEF Abs!TestFailed
  <2> QED
    BY <2>3 DEF Abs!Next
<1>9. CASE Clock
  <2>1. PICK d \in {-1, 1} : heap' = {Aged(e, d) : e \in heap} /\ testing' = testing
    BY <1>9 DEF Clock, Tick, SetClock, Shift, Aged, doctor
  <2>2. \A e \in heap : Aged(e, d).ip = e.ip
    BY <1>0 DEF HeapOK, EntryOK, DelayedAddress, Aged
  <2>3. Broken' = Broken
    BY <2>1, <2>2 DEF Broken
  <2> QED
    BY <2>1, <2>3 DEF Abs!vars
<1> QED
  BY <1>1, <1>2, <1>3, <1>4, <1>5, <1>6, <1>7, <1>8, <1>9 DEF Next, Store, Put, Doctor

\* The heap, its backoff times and its notifier implement a set of broken
\* addresses from which one tester takes one address at a time: what the pool
\* relies on (ManagedChannelPool).
THEOREM Refinement == Spec => RefinesBrokenSet
  BY RefineInit, RefineNext, Invariance, PTL DEF Spec, RefinesBrokenSet, Abs!Spec

=============================================================================
