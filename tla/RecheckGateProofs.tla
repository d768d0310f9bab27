-------------------------- MODULE RecheckGateProofs --------------------------
(***************************************************************************)
(* The lock of forced checks for any set of callers: its queue is          *)
(* consistent, and so no two checks run at a time.  PoolProcessProofs and  *)
(* ManagedChannelPoolProofs use the lemmas for the steps of their own.     *)
(***************************************************************************)
EXTENDS RecheckGate, Naturals, SequenceTheorems, TLAPS

GateInv == GateTypeOK /\ Queued /\ OneCheck

-----------------------------------------------------------------------------
(* Removing an element that occurs once from a queue.                      *)

\* The smallest number of a set.
LEMMA MinIs ==
  ASSUME NEW I, I \subseteq Nat, NEW m \in I, \A n \in I : m <= n
  PROVE  Min(I) = m
<1>1. Min(I) \in I /\ \A n \in I : Min(I) <= n
  BY Zenon DEF Min
<1>2. Min(I) \in Nat /\ m \in Nat /\ Min(I) <= m /\ m <= Min(I)
  BY <1>1
<1> QED
  BY <1>2

\* Where the elements are once the one at k is removed (a waiter of tokio's
\* RwLock that is dropped leaves its own place only).
LEMMA RemovedAt ==
  ASSUME NEW S, NEW q \in Seq(S), NEW k \in DOMAIN q,
         \A i, j \in DOMAIN q : q[i] = q[j] => i = j
  PROVE  /\ RemoveFirst(q, q[k]) \in Seq(S)
         /\ Len(RemoveFirst(q, q[k])) = Len(q) - 1
         /\ \A i \in 1 .. Len(q) - 1 :
              RemoveFirst(q, q[k])[i] = IF i < k THEN q[i] ELSE q[i + 1]
<1> DEFINE I == {i \in 1 .. Len(q) : q[i] = q[k]}
           u == SubSeq(q, 1, k - 1)
           v == SubSeq(q, k + 1, Len(q))
<1>1. I \subseteq Nat /\ k \in I /\ (\A n \in I : k <= n) /\ I # {}
  OBVIOUS
<1>2. Min(I) = k
  <2> HIDE DEF I
  <2> QED
    BY <1>1, MinIs
<1>3. RemoveFirst(q, q[k]) = u \o v
  BY <1>1, <1>2 DEF RemoveFirst, RemoveAt, SelectInSeq
<1>4. u \in Seq(S) /\ Len(u) = k - 1 /\ \A i \in 1 .. k - 1 : u[i] = q[i]
  OBVIOUS
<1>5. v \in Seq(S) /\ Len(v) = Len(q) - k /\ \A i \in 1 .. Len(q) - k : v[i] = q[k + i]
  OBVIOUS
<1> HIDE DEF u, v
<1>6. u \o v \in Seq(S) /\ Len(u \o v) = Len(u) + Len(v)
  BY <1>4, <1>5, ConcatProperties
<1>7. ASSUME NEW i \in 1 .. Len(q) - 1
      PROVE  (u \o v)[i] = IF i < k THEN q[i] ELSE q[i + 1]
  <2>1. CASE i < k
    BY <2>1, <1>4, <1>5
  <2>2. CASE ~(i < k)
    <3>1. (u \o v)[i] = v[i - (k - 1)]
      BY <2>2, <1>4, <1>5
    <3>2. i - (k - 1) \in 1 .. Len(q) - k /\ k + (i - (k - 1)) = i + 1
      BY <2>2
    <3> QED
      BY <2>2, <3>1, <3>2, <1>5
  <2> QED
    BY <2>1, <2>2
<1> QED
  BY <1>3, <1>4, <1>5, <1>6, <1>7

\* Who is not in the queue leaves nothing behind.
LEMMA RemovedAbsent ==
  ASSUME NEW q, NEW c, \A i \in 1 .. Len(q) : q[i] # c
  PROVE  RemoveFirst(q, c) = q
BY DEF RemoveFirst

\* The queue after somebody has left it: still without repetition, the others
\* still in it, and the head the same unless it was the one who left.
LEMMA Removed ==
  ASSUME NEW S, NEW q \in Seq(S), NEW c,
         \A i, j \in DOMAIN q : q[i] = q[j] => i = j
  PROVE  /\ RemoveFirst(q, c) \in Seq(S)
         /\ \A i, j \in DOMAIN RemoveFirst(q, c) :
              RemoveFirst(q, c)[i] = RemoveFirst(q, c)[j] => i = j
         /\ \A d : (\E i \in DOMAIN RemoveFirst(q, c) : RemoveFirst(q, c)[i] = d)
                     <=> d # c /\ \E i \in DOMAIN q : q[i] = d
         /\ q # <<>> /\ Head(q) # c =>
              RemoveFirst(q, c) # <<>> /\ Head(RemoveFirst(q, c)) = Head(q)
         /\ q # <<>> /\ Head(q) = c => RemoveFirst(q, c) = Tail(q)
<1>1. CASE \A i \in DOMAIN q : q[i] # c
  BY <1>1, RemovedAbsent
<1>2. CASE \E i \in DOMAIN q : q[i] = c
  <2> PICK k \in DOMAIN q : q[k] = c
    BY <1>2
  <2> DEFINE r == RemoveFirst(q, c)
  <2>1. /\ r \in Seq(S)
        /\ Len(r) = Len(q) - 1
        /\ \A i \in 1 .. Len(q) - 1 : r[i] = IF i < k THEN q[i] ELSE q[i + 1]
    BY RemovedAt
  <2> HIDE DEF r
  <2>2. \A i, j \in DOMAIN r : r[i] = r[j] => i = j
    <3> SUFFICES ASSUME NEW i \in DOMAIN r, NEW j \in DOMAIN r, r[i] = r[j]
                 PROVE  i = j
      OBVIOUS
    <3> DEFINE I == IF i < k THEN i ELSE i + 1
               J == IF j < k THEN j ELSE j + 1
    <3>1. I \in DOMAIN q /\ J \in DOMAIN q /\ i \in Nat /\ j \in Nat /\ k \in Nat
      BY <2>1
    <3>2. q[I] = q[J]
      BY <2>1
    <3>3. I = J
      BY <3>1, <3>2
    <3> QED
      BY <3>1, <3>3
  <2>3. ASSUME NEW d
        PROVE  (\E i \in DOMAIN r : r[i] = d) <=> d # c /\ \E i \in DOMAIN q : q[i] = d
    <3>1. ASSUME NEW i \in DOMAIN r, r[i] = d
          PROVE  d # c /\ \E j \in DOMAIN q : q[j] = d
      <4>1. CASE i < k
        BY <3>1, <4>1, <2>1
      <4>2. CASE ~(i < k)
        <5>1. i + 1 \in DOMAIN q /\ q[i + 1] = d /\ i + 1 # k
          BY <3>1, <4>2, <2>1
        <5> QED
          BY <5>1
      <4> QED
        BY <4>1, <4>2
    <3>2. ASSUME NEW j \in DOMAIN q, q[j] = d, d # c
          PROVE  \E i \in DOMAIN r : r[i] = d
      <4>1. CASE j < k
        BY <3>2, <4>1, <2>1
      <4>2. CASE j > k
        <5>1. j - 1 \in DOMAIN r /\ r[j - 1] = d
          BY <3>2, <4>2, <2>1
        <5> QED
          BY <5>1
      <4> QED
        BY <3>2, <4>1, <4>2
    <3> QED
      BY <3>1, <3>2
  <2>4. q # <<>> /\ Head(q) # c => r # <<>> /\ Head(r) = Head(q)
    BY <2>1
  <2>5. q # <<>> /\ Head(q) = c => r = Tail(q)
    <3> SUFFICES ASSUME q # <<>>, Head(q) = c
                 PROVE  r = Tail(q)
      OBVIOUS
    <3>1. k = 1
      OBVIOUS
    <3>2. Tail(q) \in Seq(S) /\ Len(Tail(q)) = Len(q) - 1
      OBVIOUS
    <3>3. \A i \in 1 .. Len(q) - 1 : r[i] = q[i + 1] /\ Tail(q)[i] = q[i + 1]
      BY <2>1, <3>1
    <3> QED
      BY <2>1, <3>2, <3>3, SeqEqual
  <2> QED
    BY <2>1, <2>2, <2>3, <2>4, <2>5 DEF r
<1> QED
  BY <1>1, <1>2

-----------------------------------------------------------------------------
(* The steps of the lock.                                                  *)

\* Nobody queues at first.
LEMMA GateInitInv == GateInit => GateInv
<1> SUFFICES ASSUME GateInit
             PROVE  GateInv
  OBVIOUS
<1>1. gate = <<>> /\ recent = FALSE /\ \A c \in Callers : stage[c] = "out"
  BY DEF GateInit
<1>2. gate \in Seq(Callers) /\ DOMAIN gate = {}
  BY <1>1
<1>3. stage \in [Callers -> Stages]
  BY DEF GateInit, Stages
<1> QED
  BY <1>1, <1>2, <1>3 DEF GateInv, GateTypeOK, Queued, OneCheck

\* Joining the queue (write() of get_channel).
LEMMA EnqueueInv ==
  ASSUME GateInv, NEW c \in Callers, Enqueue(c)
  PROVE  GateInv'
<1>1. gate \in Seq(Callers) /\ gate' = Append(gate, c) /\ recent' = recent
  BY DEF GateInv, GateTypeOK, Enqueue
<1>2. /\ stage' = [stage EXCEPT ![c] = IF stage[c] = "want" THEN "write" ELSE "wait"]
      /\ stage \in [Callers -> Stages]
      /\ stage[c] \in {"want", "join"}
  BY DEF GateInv, GateTypeOK, Enqueue, Go
<1>3. /\ gate' \in Seq(Callers)
      /\ Len(gate') = Len(gate) + 1
      /\ \A i \in 1 .. Len(gate) : gate'[i] = gate[i]
      /\ gate'[Len(gate) + 1] = c
  BY <1>1
<1>4. GateTypeOK'
  BY <1>1, <1>2, <1>3 DEF GateInv, GateTypeOK, Stages
<1>5. \A i \in DOMAIN gate : gate[i] # c
  BY <1>2 DEF GateInv, Queued
<1>6. Queued'
  <2>1. \A i, j \in DOMAIN gate' : gate'[i] = gate'[j] => i = j
    BY <1>1, <1>3, <1>5 DEF GateInv, Queued
  <2>2. ASSUME NEW d \in Callers
        PROVE  stage'[d] \in {"write", "wait", "check"} <=> \E i \in DOMAIN gate' : gate'[i] = d
    <3>1. CASE d = c
      BY <3>1, <1>1, <1>2, <1>3
    <3>2. CASE d # c
      <4>1. stage'[d] = stage[d]
        BY <3>2, <1>2
      <4>2. (\E i \in DOMAIN gate' : gate'[i] = d) <=> (\E i \in DOMAIN gate : gate[i] = d)
        BY <3>2, <1>1, <1>3
      <4> QED
        BY <4>1, <4>2 DEF GateInv, Queued
    <3> QED
      BY <3>1, <3>2
  <2> QED
    BY <2>1, <2>2 DEF Queued
<1>7. OneCheck'
  <2> SUFFICES ASSUME NEW d \in Callers, stage'[d] = "check"
               PROVE  HoldsGate(d)'
    BY DEF OneCheck
  <2>1. d # c /\ stage[d] = "check"
    BY <1>2
  <2>2. HoldsGate(d)
    BY <2>1 DEF GateInv, OneCheck
  <2> QED
    BY <2>2, <1>1, <1>3 DEF HoldsGate
<1> QED
  BY <1>4, <1>6, <1>7 DEF GateInv

\* Leaving the queue, from anywhere in it (the drop of a guard or a future).
LEMMA LeaveInv ==
  ASSUME GateInv, NEW c \in Callers, Leave(c)
  PROVE  GateInv'
<1>1. gate \in Seq(Callers) /\ gate' = RemoveFirst(gate, c) /\ recent' = recent
  BY DEF GateInv, GateTypeOK, Leave
<1>2. stage' = [stage EXCEPT ![c] = "out"] /\ stage \in [Callers -> Stages]
  BY DEF GateInv, GateTypeOK, Leave, Go
<1>3. \A i, j \in DOMAIN gate : gate[i] = gate[j] => i = j
  BY DEF GateInv, Queued
<1>4. /\ gate' \in Seq(Callers)
      /\ \A i, j \in DOMAIN gate' : gate'[i] = gate'[j] => i = j
      /\ \A d : (\E i \in DOMAIN gate' : gate'[i] = d)
                   <=> d # c /\ \E i \in DOMAIN gate : gate[i] = d
      /\ gate # <<>> /\ Head(gate) # c => gate' # <<>> /\ Head(gate') = Head(gate)
  <2> DEFINE r == RemoveFirst(gate, c)
  <2>1. /\ r \in Seq(Callers)
        /\ \A i, j \in DOMAIN r : r[i] = r[j] => i = j
        /\ \A d : (\E i \in DOMAIN r : r[i] = d) <=> d # c /\ \E i \in DOMAIN gate : gate[i] = d
        /\ gate # <<>> /\ Head(gate) # c => r # <<>> /\ Head(r) = Head(gate)
    BY <1>1, <1>3, Removed, Zenon
  <2> HIDE DEF r
  <2>2. gate' = r
    BY <1>1 DEF r
  <2> QED
    BY <2>1, <2>2, Zenon
<1>5. GateTypeOK'
  BY <1>1, <1>2, <1>4 DEF GateInv, GateTypeOK, Stages
<1>6. Queued'
  <2>1. ASSUME NEW d \in Callers
        PROVE  stage'[d] \in {"write", "wait", "check"} <=> \E i \in DOMAIN gate' : gate'[i] = d
    BY <1>2, <1>4 DEF GateInv, Queued
  <2> QED
    BY <1>4, <2>1 DEF Queued
<1>7. OneCheck'
  <2> SUFFICES ASSUME NEW d \in Callers, stage'[d] = "check"
               PROVE  HoldsGate(d)'
    BY DEF OneCheck
  <2>1. d # c /\ stage[d] = "check"
    BY <1>2
  <2>2. HoldsGate(d)
    BY <2>1 DEF GateInv, OneCheck
  <2> QED
    BY <2>1, <2>2, <1>4 DEF HoldsGate
<1> QED
  BY <1>5, <1>6, <1>7 DEF GateInv

\* Every step of the lock keeps the queue consistent.
LEMMA GateStep == GateInv /\ [GateNext]_gateVars => GateInv'
<1> SUFFICES ASSUME GateInv, [GateNext]_gateVars
             PROVE  GateInv'
  OBVIOUS
<1>1. CASE Expire
  BY <1>1 DEF Expire, GateInv, GateTypeOK, Queued, OneCheck, HoldsGate
<1>2. ASSUME NEW c \in Callers, TryRead(c)
      PROVE  GateInv'
  BY <1>2 DEF TryRead, Go, GateInv, GateTypeOK, Stages, Queued, OneCheck, HoldsGate
<1>3. ASSUME NEW c \in Callers, Enqueue(c)
      PROVE  GateInv'
  BY <1>3, EnqueueInv
<1>4. ASSUME NEW c \in Callers, Start(c)
      PROVE  GateInv'
  BY <1>4 DEF Start, Go, GateInv, GateTypeOK, Stages, Queued, OneCheck, HoldsGate
<1>5. ASSUME NEW c \in Callers, Leave(c)
      PROVE  GateInv'
  BY <1>5, LeaveInv
<1>6. CASE UNCHANGED gateVars
  BY <1>6 DEF gateVars, GateInv, GateTypeOK, Queued, OneCheck, HoldsGate
<1> QED
  BY <1>1, <1>2, <1>3, <1>4, <1>5, <1>6 DEF GateNext

\* For any callers, however they queue up, give up or are cancelled: who runs a
\* forced check holds the lock, so no two checks run at a time (_guard of
\* get_channel), and the queue holds nobody who has left.
THEOREM GateSafe == GateSpec => [](OneCheck /\ Queued)
<1>1. GateInv => OneCheck /\ Queued
  BY DEF GateInv
<1> QED
  BY <1>1, GateInitInv, GateStep, PTL DEF GateSpec

=============================================================================
