----------------------- MODULE ManagedChannelPoolProofs -----------------------
(***************************************************************************)
(* The pool for any addresses and any finite set of callers.               *)
(***************************************************************************)
EXTENDS ManagedChannelPool, FiniteSetTheorems, TLAPS

\* The lock with the callers of the pool, and what is proved about it.
Lock == INSTANCE RecheckGateProofs WITH stage <- [c \in Callers |-> Stage(c)]

Scans == [pc : ScanPCs, todo : SUBSET Addr, cur : Addr \cup {NoAddr},
          r : SUBSET Addr, b : SUBSET Addr]
Calls == [pc : CallPCs, addr : Addr \cup {NoAddr}, rechecks : SUBSET Addr, over : BOOLEAN]

\* What check_dns knows: an address is in one of its lists at most, and between
\* the answer and the replacement of the stores some address is in one.
ScanOK(s) ==
  /\ s.pc \in {"get", "connect"} <=> s.cur # NoAddr
  /\ s.pc \in {"off", "resolve"} => s.todo = {} /\ s.r = {} /\ s.b = {}
  /\ s.pc = "find" => s.todo \cup s.r \cup s.b # {}
  /\ s.cur \notin s.todo \cup s.r \cup s.b
  /\ s.r \cap s.b = {}
  /\ s.todo \cap (s.r \cup s.b) = {}

\* A caller has futures only where it polls them, and an address only with a
\* channel to it.
CallOK(k, s) ==
  /\ k.pc # "select" => s = Idle /\ k.rechecks = {} /\ ~k.over
  /\ k.pc \in {"have", "report"} => k.addr \in Addr

Local ==
  /\ \A p \in Checkers : ScanOK(scan[p])
  /\ \A c \in Callers : CallOK(call[c], scan[c])

\* Those who may yet add a channel to the address: a caller that reports it, a
\* forced check that has it or will look for it among the broken ones, and a
\* check of the DNS that has not found a channel to it.
Reporters(a) == {c \in Callers : call[c].pc = "report" /\ call[c].addr = a}
Recheckers(a) == {c \in Callers : call[c].pc = "spawn" \/ a \in call[c].rechecks}
Scanners(a) == {p \in Checkers : scan[p].cur = a \/ a \in scan[p].b}

One(P) == IF P THEN 1 ELSE 0

\* The channels there are to an address and those that may yet be added, none
\* of the latter twice.
Owed(a) ==
  ready[a] + One(a \in broken) + One(testing = a)
    + Cardinality(Reporters(a)) + Cardinality(Recheckers(a)) + Cardinality(Scanners(a))

Bounded == \A a \in Addr : Owed(a) <= Cardinality(Callers) + 4

PoolInv == TypeOK /\ Lock!GateInv /\ Local /\ Bounded

-----------------------------------------------------------------------------
(* The lock.                                                               *)

\* The pool and the lock remove from the same queue by the same operator.
LEMMA SameRemoveFirst == \A q, c : RemoveFirst(q, c) = Lock!RemoveFirst(q, c)
BY DEF RemoveFirst, Lock!RemoveFirst, RemoveAt, Lock!RemoveAt, SelectInSeq, Lock!SelectInSeq,
       Min, Lock!Min

\* One caller goes on, the others stay where they are with the lock.
LEMMA StageGo ==
  ASSUME NEW c \in Callers, NEW s, Stage(c)' = s,
         \A d \in Callers \ {c} : Stage(d)' = Stage(d)
  PROVE  Lock!Go(c, s)
BY DEF Lock!Go

\* A step that changes nobody's stage does nothing to the lock.
LEMMA StagesStay ==
  ASSUME \A d \in Callers : Stage(d)' = Stage(d), UNCHANGED <<gate, recent>>
  PROVE  UNCHANGED Lock!gateVars
BY DEF Lock!gateVars

\* The stage depends on nothing but the point a caller is at.
LEMMA StageOfPC ==
  ASSUME NEW d \in Callers, call'[d].pc = call[d].pc
  PROVE  Stage(d)' = Stage(d)
BY DEF Stage

\* Who is at rest has nothing to do with the lock.
LEMMA LockInit == Init => Lock!GateInit
BY DEF Init, AtRest, Lock!GateInit, Stage

\* A step that leaves the lock and the places of all callers alone.
LEMMA LockStays ==
  ASSUME UNCHANGED <<gate, recent>>, \A d \in Callers : call'[d].pc = call[d].pc
  PROVE  [Lock!GateNext]_(Lock!gateVars)
BY StagesStay, StageOfPC

\* What the lock's invariant says of the callers.
LEMMA LockFacts ==
  ASSUME TypeOK, Lock!GateInv
  PROVE  /\ gate \in Seq(Callers)
         /\ \A i, j \in DOMAIN gate : gate[i] = gate[j] => i = j
         /\ \A c \in Callers : call[c].pc \in {"write", "wait", "spawn", "select"}
                                 <=> \E i \in DOMAIN gate : gate[i] = c
         /\ \A c \in Callers : call[c].pc \in {"spawn", "select"} => HasLock(c)
<1>1. \A c \in Callers : [d \in Callers |-> Stage(d)][c] = Stage(c)
  OBVIOUS
<1>2. \A i, j \in DOMAIN gate : gate[i] = gate[j] => i = j
  BY DEF Lock!GateInv, Lock!Queued
<1>3. ASSUME NEW c \in Callers
      PROVE  call[c].pc \in {"write", "wait", "spawn", "select"} <=> \E i \in DOMAIN gate : gate[i] = c
  <2>1. Stage(c) \in {"write", "wait", "check"} <=> \E i \in DOMAIN gate : gate[i] = c
    BY <1>1 DEF Lock!GateInv, Lock!Queued
  <2>2. Stage(c) \in {"write", "wait", "check"} <=> call[c].pc \in {"write", "wait", "spawn", "select"}
    BY DEF Stage
  <2> QED
    BY <2>1, <2>2
<1>4. ASSUME NEW c \in Callers, call[c].pc \in {"spawn", "select"}
      PROVE  HasLock(c)
  <2>1. Stage(c) = "check"
    BY <1>4 DEF Stage
  <2> QED
    BY <1>1, <2>1 DEF Lock!GateInv, Lock!OneCheck, Lock!HoldsGate, HasLock
<1> QED
  BY <1>2, <1>3, <1>4 DEF TypeOK

\* A call that ends, from the queue or from the check.
LEMMA LockEnded ==
  ASSUME TypeOK, NEW c \in Callers, UNCHANGED recent, gate' = RemoveFirst(gate, c),
         call[c].pc \in {"write", "wait", "spawn", "select"}, Stage(c)' = "out",
         \A d \in Callers \ {c} : call'[d] = call[d]
  PROVE  [Lock!GateNext]_(Lock!gateVars)
<1>1. Lock!Go(c, "out")
  BY StageGo, StageOfPC
<1>2. [d \in Callers |-> Stage(d)][c] \in {"write", "wait", "check"}
  BY DEF Stage
<1>3. Lock!Leave(c)
  BY <1>1, <1>2, SameRemoveFirst DEF Lock!Leave
<1> QED
  BY <1>3 DEF Lock!GateNext

\* A caller that does not wait for the lock ends its call, and no place is
\* left.
LEMMA LockAbsent ==
  ASSUME TypeOK, Lock!GateInv, NEW c \in Callers, UNCHANGED recent,
         gate' = RemoveFirst(gate, c),
         Stage(c) = "out", Stage(c)' = "out",
         \A d \in Callers \ {c} : call'[d] = call[d]
  PROVE  [Lock!GateNext]_(Lock!gateVars)
<1>1. \A i \in 1 .. Len(gate) : gate[i] # c
  BY LockFacts DEF Stage
<1>2. gate' = gate
  BY <1>1 DEF RemoveFirst
<1> QED
  BY <1>2, StagesStay, StageOfPC

\* Every step of a caller's is one of the lock's, or none of its business.
LEMMA LockCallerStep ==
  ASSUME TypeOK, Lock!GateInv, Local, NEW c \in Callers,
         GetAny(c) \/ get_channel(c) \/ RequestDone(c) \/ ReportRemove(c) \/ ReportAdd(c) \/ Cancel(c)
  PROVE  [Lock!GateNext]_(Lock!gateVars)
<1> DEFINE stage == [d \in Callers |-> Stage(d)]
<1> USE DEF TypeOK
<1>0. AtRest.pc = "idle"
  BY DEF AtRest
<1>1. ASSUME NEW otherwise, otherwise.pc \in {"idle", "gate"}, GiveAnyOr(c, otherwise)
      PROVE  /\ Stage(c)' = "out"
             /\ \A d \in Callers \ {c} : call'[d] = call[d]
  BY <1>1 DEF GiveAnyOr, AtRest, Stage
<1>2. CASE GetAny(c)
  <2> DEFINE o == [AtRest EXCEPT !.pc = "gate"]
  <2>1. o.pc = "gate"
    BY DEF AtRest
  <2>2. GiveAnyOr(c, o) /\ Stage(c) = "out"
    BY <1>2 DEF GetAny, Stage
  <2> HIDE DEF o
  <2>3. Stage(c)' = "out" /\ \A d \in Callers \ {c} : call'[d] = call[d]
    BY <1>1, <2>1, <2>2
  <2> QED
    BY <1>2, <2>2, <2>3, StagesStay, StageOfPC DEF GetAny
<1>3. CASE TryRead(c)
  <2>1. \A d \in Callers \ {c} : call'[d] = call[d]
    BY <1>3 DEF TryRead
  <2>2. stage[c] = "out" /\ UNCHANGED <<gate, recent>>
    BY <1>3 DEF TryRead, Stage
  <2>3. CASE gate # <<>>
    <3>1. Stage(c)' = "join"
      BY <1>3, <2>3 DEF TryRead, Stage
    <3>2. Lock!TryRead(c)
      BY <2>1, <2>2, <2>3, <3>1, StageGo, StageOfPC DEF Lock!TryRead
    <3> QED
      BY <3>2 DEF Lock!GateNext
  <2>4. CASE gate = <<>> /\ ~recent
    <3>1. Stage(c)' = "want"
      BY <1>3, <2>4 DEF TryRead, Stage
    <3>2. Lock!TryRead(c)
      BY <2>1, <2>2, <2>4, <3>1, StageGo, StageOfPC DEF Lock!TryRead
    <3> QED
      BY <3>2 DEF Lock!GateNext
  <2>5. CASE gate = <<>> /\ recent
    <3>1. Stage(c)' = "out" /\ Stage(c) = "out"
      BY <1>3, <2>5, <1>0 DEF TryRead, Stage
    <3> QED
      BY <2>1, <2>2, <3>1, StagesStay, StageOfPC
  <2> QED
    BY <2>3, <2>4, <2>5
<1>4. CASE Enqueue(c)
  <2>1. \A d \in Callers \ {c} : call'[d] = call[d]
    BY <1>4 DEF Enqueue
  <2>2. /\ stage[c] \in {"want", "join"}
        /\ Stage(c)' = IF stage[c] = "want" THEN "write" ELSE "wait"
    BY <1>4 DEF Enqueue, Stage
  <2>3. Lock!Go(c, IF stage[c] = "want" THEN "write" ELSE "wait")
    BY <2>1, <2>2, StageGo, StageOfPC
  <2>4. Lock!Enqueue(c)
    BY <1>4, <2>2, <2>3 DEF Lock!Enqueue, Enqueue
  <2> QED
    BY <2>4 DEF Lock!GateNext
<1>5. CASE LockedFound(c)
  BY <1>0, <1>1, <1>5, LockEnded DEF LockedFound, Ended
<1>6. CASE LockedEmpty(c)
  <2>1. /\ \A d \in Callers \ {c} : call'[d] = call[d]
        /\ stage[c] = "write" /\ Stage(c)' = "check"
    BY <1>6 DEF LockedEmpty, Stage
  <2>2. Lock!Go(c, "check")
    BY <2>1, StageGo, StageOfPC
  <2>3. Lock!Start(c)
    BY <1>6, <2>1, <2>2 DEF Lock!Start, LockedEmpty, HasLock, Lock!HoldsGate
  <2> QED
    BY <2>3 DEF Lock!GateNext
<1>7. CASE Joined(c)
  <2>1. /\ \A d \in Callers \ {c} : call'[d] = call[d]
        /\ call[c].pc = "wait" /\ Stage(c)' = "out"
    BY <1>7 DEF Joined, Stage
  <2>2. gate \in Seq(Callers) /\ \A i, j \in DOMAIN gate : gate[i] = gate[j] => i = j
    BY LockFacts
  <2>3. gate # <<>> /\ Head(gate) = c => Lock!RemoveFirst(gate, c) = Tail(gate)
    BY <2>2, Lock!Removed
  <2>4. gate' = RemoveFirst(gate, c)
    BY <1>7, <2>3, SameRemoveFirst DEF Joined, HasLock
  <2> QED
    BY <1>7, <2>1, <2>4, LockEnded DEF Joined
<1>8. CASE LastGetAny(c)
  <2>1. Stage(c) = "out" /\ Stage(c)' = "out" /\ \A d \in Callers \ {c} : call'[d] = call[d]
    BY <1>0, <1>1, <1>8 DEF LastGetAny, Stage
  <2> QED
    BY <1>8, <2>1, StagesStay, StageOfPC DEF LastGetAny
<1>9. CASE SpawnRechecks(c)
  <2>1. /\ \A d \in Callers \ {c} : call'[d] = call[d]
        /\ Stage(c) = "check" /\ Stage(c)' = "check"
    BY <1>9 DEF SpawnRechecks, Stage
  <2> QED
    BY <1>9, <2>1, StagesStay, StageOfPC DEF SpawnRechecks
<1>10. CASE \E a \in Addr : Recheck(c, a)
  <2>1. UNCHANGED <<gate, recent>> /\ \A d \in Callers : call'[d].pc = call[d].pc
    BY <1>10 DEF Recheck
  <2> QED
    BY <2>1, LockStays
<1>11. CASE Return(c)
  <2>1. call[c].pc = "select"
    BY <1>11 DEF Return, Local, CallOK
  <2> QED
    BY <1>0, <1>1, <1>11, <2>1, LockEnded DEF Return, Ended
<1>12. CASE RequestDone(c) \/ ReportAdd(c)
  <2>1. /\ \A d \in Callers \ {c} : call'[d] = call[d]
        /\ Stage(c) = "out" /\ Stage(c)' = "out"
    BY <1>0, <1>12 DEF RequestDone, ReportAdd, Stage
  <2> QED
    BY <1>12, <2>1, StagesStay, StageOfPC DEF RequestDone, ReportAdd
<1>13. CASE ReportRemove(c)
  <2>1. /\ \A d \in Callers \ {c} : call'[d] = call[d]
        /\ Stage(c) = "out" /\ Stage(c)' = "out"
    BY <1>13 DEF ReportRemove, Stage
  <2> QED
    BY <1>13, <2>1, StagesStay, StageOfPC DEF ReportRemove
<1>14. CASE Cancel(c)
  <2>1. /\ \A d \in Callers \ {c} : call'[d] = call[d]
        /\ Stage(c)' = "out" /\ gate' = RemoveFirst(gate, c) /\ UNCHANGED recent
    BY <1>0, <1>14 DEF Cancel, Ended, Stage
  <2>2. CASE call[c].pc \in {"write", "wait", "spawn", "select"}
    BY <2>1, <2>2, LockEnded
  <2>3. CASE call[c].pc \in {"last", "report"}
    <3>1. Stage(c) = "out"
      BY <2>3 DEF Stage
    <3> QED
      BY <2>1, <3>1, LockAbsent
  <2> QED
    BY <1>14, <2>2, <2>3 DEF Cancel
<1> QED
  BY <1>2, <1>3, <1>4, <1>5, <1>6, <1>7, <1>8, <1>9, <1>10, <1>11, <1>12, <1>13, <1>14
     DEF get_channel

\* The tasks around the callers leave the lock alone, but for its clock.
LEMMA LockBackground ==
  ASSUME TypeOK, Background
  PROVE  [Lock!GateNext]_(Lock!gateVars)
<1> USE DEF TypeOK
<1>1. CASE Expire
  <2>1. UNCHANGED [d \in Callers |-> Stage(d)]
    BY <1>1 DEF Expire, Stage
  <2>2. Lock!Expire
    BY <1>1, <2>1 DEF Expire, Lock!Expire
  <2> QED
    BY <2>2 DEF Lock!GateNext
<1>2. ASSUME UNCHANGED <<call, gate, recent>>
      PROVE  [Lock!GateNext]_(Lock!gateVars)
  BY <1>2, LockStays
<1>3. CASE DnsTick \/ NextBroken \/ DoctorConnected \/ DoctorFailed \/ ZoneChange
  BY <1>2, <1>3 DEF DnsTick, NextBroken, DoctorConnected, DoctorFailed, ZoneChange
<1>4. ASSUME NEW p \in Checkers, check_dns(p)
      PROVE  [Lock!GateNext]_(Lock!gateVars)
  <2>1. CASE ResolveErr(p) \/ ReplaceBroken(p)
    <3>1. UNCHANGED <<gate, recent>> /\ \A d \in Callers : call'[d].pc = call[d].pc
      <4>1. UNCHANGED <<gate, recent>> /\ ScanOver(p)
        BY <2>1 DEF ResolveErr, ReplaceBroken
      <4>2. CASE p \in Callers
        BY <4>1, <4>2 DEF ScanOver
      <4>3. CASE p \notin Callers
        BY <4>1, <4>3 DEF ScanOver
      <4> QED
        BY <4>2, <4>3
    <3> QED
      BY <3>1, LockStays
  <2>2. CASE ResolveOk(p) \/ (\E a \in Addr : Find(p, a)) \/ GetAddress(p) \/ Connect(p) \/ ReplaceReady(p)
    BY <1>2, <2>2 DEF ResolveOk, Find, GetAddress, Connect, ReplaceReady
  <2> QED
    BY <1>4, <2>1, <2>2 DEF check_dns
<1> QED
  BY <1>1, <1>3, <1>4 DEF Background

\* Every step of the pool is one of the lock's or leaves it alone.
LEMMA LockStep ==
  ASSUME TypeOK, Lock!GateInv, Local, [Next]_vars
  PROVE  [Lock!GateNext]_(Lock!gateVars)
<1>1. CASE UNCHANGED vars
  BY <1>1, LockStays DEF vars
<1> QED
  BY <1>1, LockBackground, LockCallerStep DEF Next

-----------------------------------------------------------------------------
(* Types, and what the locals of check_dns and of get_channel may hold.    *)

\* A call at rest, and a check that is idle or has just begun, are in order.
LEMMA RestOK ==
  /\ Idle \in Scans /\ ScanOK(Idle)
  /\ Started \in Scans /\ ScanOK(Started) /\ Started.pc = "resolve"
  /\ Started.cur = NoAddr /\ Started.b = {}
  /\ AtRest \in Calls /\ CallOK(AtRest, Idle)
BY DEF Idle, Started, Scans, ScanPCs, ScanOK, AtRest, Calls, CallPCs, CallOK

\* The types of the checks and of the calls, by name.
LEMMA TypeFacts ==
  ASSUME TypeOK
  PROVE  scan \in [Checkers -> Scans] /\ call \in [Callers -> Calls]
BY DEF TypeOK, Scans, Calls

\* A check of the DNS goes on without the stores.
LEMMA ScanGoesOn ==
  ASSUME TypeOK, Local, NEW p \in Checkers,
         ResolveOk(p) \/ (\E a \in Addr : Find(p, a)) \/ GetAddress(p) \/ Connect(p) \/ ReplaceReady(p)
  PROVE  /\ scan' \in [Checkers -> Scans]
         /\ ScanOK(scan'[p])
         /\ \A q \in Checkers \ {p} : scan'[q] = scan[q]
         /\ scan[p].pc # "off"
<1> USE DEF TypeOK, Scans, ScanPCs
<1>0. ScanOK(scan[p]) /\ scan[p] \in Scans
  BY DEF Local
<1>1. CASE ResolveOk(p)
  <2> DEFINE s == [scan[p] EXCEPT !.pc = "find", !.todo = zone]
  <2>1. s \in Scans
    BY <1>0
  <2>2. /\ s.pc = "find" /\ s.todo = zone /\ s.cur = scan[p].cur
        /\ s.r = scan[p].r /\ s.b = scan[p].b
    BY <1>0
  <2>3. scan' = [scan EXCEPT ![p] = s] /\ scan[p].pc = "resolve" /\ zone # {}
    BY <1>1 DEF ResolveOk
  <2> HIDE DEF s
  <2>4. scan[p].cur = NoAddr /\ scan[p].r = {} /\ scan[p].b = {}
    BY <1>0, <2>3 DEF ScanOK
  <2>5. zone \subseteq Addr /\ NoAddr \notin zone
    BY NoAddrAssumption
  <2>6. ScanOK(s)
    BY <2>2, <2>3, <2>4, <2>5 DEF ScanOK
  <2> QED
    BY <2>1, <2>3, <2>6
<1>2. ASSUME NEW a \in Addr, Find(p, a)
      PROVE  /\ scan' \in [Checkers -> Scans]
             /\ ScanOK(scan'[p])
             /\ \A q \in Checkers \ {p} : scan'[q] = scan[q]
             /\ scan[p].pc # "off"
  <2>1. scan[p].pc = "find" /\ scan[p].cur = NoAddr /\ a \in scan[p].todo
    BY <1>0, <1>2 DEF Find, ScanOK
  <2>2. CASE Ready!Find(a)
    <3> DEFINE s == [scan[p] EXCEPT !.todo = @ \ {a}, !.r = @ \cup {a}]
    <3>1. s \in Scans /\ ScanOK(s)
      <4>1. s \in Scans
        BY <1>0, <2>1
      <4>2. /\ s.pc = scan[p].pc /\ s.cur = scan[p].cur /\ s.b = scan[p].b
            /\ s.todo = scan[p].todo \ {a} /\ s.r = scan[p].r \cup {a}
        BY <1>0
      <4> QED
        BY <1>0, <2>1, <4>1, <4>2, NoAddrAssumption DEF ScanOK
    <3>2. scan' = [scan EXCEPT ![p] = s]
      BY <1>2, <2>2 DEF Find
    <3> QED
      BY <2>1, <3>1, <3>2
  <2>3. CASE ~Ready!Find(a)
    <3> DEFINE s == [scan[p] EXCEPT !.todo = @ \ {a}, !.cur = a, !.pc = "get"]
    <3>1. s \in Scans /\ ScanOK(s)
      <4>1. s \in Scans
        BY <1>0, <2>1
      <4>2. /\ s.pc = "get" /\ s.cur = a /\ s.b = scan[p].b
            /\ s.todo = scan[p].todo \ {a} /\ s.r = scan[p].r
        BY <1>0
      <4> QED
        BY <1>0, <2>1, <4>1, <4>2, NoAddrAssumption DEF ScanOK
    <3>2. scan' = [scan EXCEPT ![p] = s]
      BY <1>2, <2>3 DEF Find
    <3> QED
      BY <2>1, <3>1, <3>2
  <2> QED
    BY <2>2, <2>3
<1>3. CASE GetAddress(p)
  <2>1. scan[p].pc = "get" /\ scan[p].cur \in Addr
    BY <1>0, <1>3 DEF GetAddress, ScanOK
  <2>2. CASE Broken!GetAddress(scan[p].cur)
    <3> DEFINE s == [scan[p] EXCEPT !.b = @ \cup {scan[p].cur}, !.cur = NoAddr, !.pc = "find"]
    <3>1. s \in Scans /\ ScanOK(s)
      <4>1. s \in Scans
        BY <1>0, <2>1
      <4>2. /\ s.pc = "find" /\ s.cur = NoAddr /\ s.todo = scan[p].todo
            /\ s.b = scan[p].b \cup {scan[p].cur} /\ s.r = scan[p].r
        BY <1>0
      <4> QED
        BY <1>0, <2>1, <4>1, <4>2, NoAddrAssumption DEF ScanOK
    <3>2. scan' = [scan EXCEPT ![p] = s]
      BY <1>3, <2>2 DEF GetAddress
    <3> QED
      BY <2>1, <3>1, <3>2
  <2>3. CASE ~Broken!GetAddress(scan[p].cur)
    <3> DEFINE s == [scan[p] EXCEPT !.pc = "connect"]
    <3>1. s \in Scans /\ ScanOK(s)
      BY <1>0, <2>1 DEF ScanOK
    <3>2. scan' = [scan EXCEPT ![p] = s]
      BY <1>3, <2>3 DEF GetAddress
    <3> QED
      BY <2>1, <3>1, <3>2
  <2> QED
    BY <2>2, <2>3
<1>4. CASE Connect(p)
  <2>1. scan[p].pc = "connect" /\ scan[p].cur \in Addr
    BY <1>0, <1>4 DEF Connect, ScanOK
  <2>2. CASE scan' = [scan EXCEPT ![p].r = @ \cup {scan[p].cur}, ![p].cur = NoAddr, ![p].pc = "find"]
    <3> DEFINE s == [scan[p] EXCEPT !.r = @ \cup {scan[p].cur}, !.cur = NoAddr, !.pc = "find"]
    <3>1. s \in Scans /\ ScanOK(s)
      <4>1. s \in Scans
        BY <1>0, <2>1
      <4>2. /\ s.pc = "find" /\ s.cur = NoAddr /\ s.todo = scan[p].todo
            /\ s.r = scan[p].r \cup {scan[p].cur} /\ s.b = scan[p].b
        BY <1>0
      <4> QED
        BY <1>0, <2>1, <4>1, <4>2, NoAddrAssumption DEF ScanOK
    <3>2. scan' = [scan EXCEPT ![p] = s]
      BY <2>2
    <3> QED
      BY <2>1, <3>1, <3>2
  <2>3. CASE scan' = [scan EXCEPT ![p].b = @ \cup {scan[p].cur}, ![p].cur = NoAddr, ![p].pc = "find"]
    <3> DEFINE s == [scan[p] EXCEPT !.b = @ \cup {scan[p].cur}, !.cur = NoAddr, !.pc = "find"]
    <3>1. s \in Scans /\ ScanOK(s)
      <4>1. s \in Scans
        BY <1>0, <2>1
      <4>2. /\ s.pc = "find" /\ s.cur = NoAddr /\ s.todo = scan[p].todo
            /\ s.b = scan[p].b \cup {scan[p].cur} /\ s.r = scan[p].r
        BY <1>0
      <4> QED
        BY <1>0, <2>1, <4>1, <4>2, NoAddrAssumption DEF ScanOK
    <3>2. scan' = [scan EXCEPT ![p] = s]
      BY <2>3
    <3> QED
      BY <2>1, <3>1, <3>2
  <2> QED
    BY <1>4, <2>2, <2>3 DEF Connect
<1>5. CASE ReplaceReady(p)
  BY <1>0, <1>5 DEF ReplaceReady, ScanOK
<1> QED
  BY <1>1, <1>2, <1>3, <1>4, <1>5

\* A check of the DNS keeps its locals in order; when it is over, so is one of
\* the futures of its caller.
LEMMA ScanLocal ==
  ASSUME TypeOK, Local, NEW p \in Checkers, check_dns(p)
  PROVE  scan' \in [Checkers -> Scans] /\ call' \in [Callers -> Calls] /\ Local'
<1>0. scan \in [Checkers -> Scans] /\ call \in [Callers -> Calls] /\ Idle.pc = "off"
  BY TypeFacts DEF Idle
<1>1. CASE ResolveOk(p) \/ (\E a \in Addr : Find(p, a)) \/ GetAddress(p) \/ Connect(p) \/ ReplaceReady(p)
  <2>1. /\ scan' \in [Checkers -> Scans]
        /\ ScanOK(scan'[p])
        /\ \A q \in Checkers \ {p} : scan'[q] = scan[q]
        /\ scan[p].pc # "off"
    BY <1>1, ScanGoesOn
  <2>2. call' = call
    BY <1>1 DEF ResolveOk, Find, GetAddress, Connect, ReplaceReady
  <2>3. ASSUME NEW c \in Callers
        PROVE  CallOK(call'[c], scan'[c])
    <3>1. CASE c = p
      <4>1. call[c].pc = "select"
        BY <3>1, <2>1, <1>0 DEF Local, CallOK
      <4> QED
        BY <4>1, <2>2 DEF CallOK
    <3>2. CASE c # p
      BY <3>2, <2>1, <2>2 DEF Local, Checkers
    <3> QED
      BY <3>1, <3>2
  <2> QED
    BY <1>0, <2>1, <2>2, <2>3 DEF Local
<1>2. CASE ResolveErr(p) \/ ReplaceBroken(p)
  <2>1. ScanOver(p) /\ scan[p].pc # "off"
    BY <1>2 DEF ResolveErr, ReplaceBroken
  <2>2. scan' = [scan EXCEPT ![p] = Idle]
    BY <2>1 DEF ScanOver
  <2>3. scan' \in [Checkers -> Scans] /\ \A q \in Checkers : ScanOK(scan'[q])
    BY <1>0, <2>2, RestOK DEF Local
  <2>4. CASE p \in Callers
    <3>1. call[p].pc = "select"
      BY <2>1, <2>4, <1>0 DEF Local, CallOK
    <3>2. call' = [call EXCEPT ![p].over = TRUE]
      BY <2>1, <2>4 DEF ScanOver
    <3>3. call' \in [Callers -> Calls] /\ call'[p].pc = "select"
      BY <1>0, <2>4, <3>1, <3>2 DEF Calls
    <3>4. ASSUME NEW c \in Callers
          PROVE  CallOK(call'[c], scan'[c])
      <4>1. CASE c = p
        BY <4>1, <3>3 DEF CallOK
      <4>2. CASE c # p
        BY <4>2, <1>0, <2>2, <3>2 DEF Local, Checkers
      <4> QED
        BY <4>1, <4>2
    <3> QED
      BY <2>3, <3>3, <3>4 DEF Local
  <2>5. CASE p \notin Callers
    <3>1. call' = call /\ \A c \in Callers : scan'[c] = scan[c]
      BY <1>0, <2>1, <2>2, <2>5 DEF ScanOver, Checkers
    <3> QED
      BY <1>0, <2>3, <3>1 DEF Local
  <2> QED
    BY <2>4, <2>5
<1> QED
  BY <1>1, <1>2 DEF check_dns

\* A caller goes on.
LEMMA CallerSet ==
  ASSUME TypeOK, Local, NEW c \in Callers, NEW k \in Calls, NEW s \in Scans,
         ScanOK(s), CallOK(k, s),
         call' = [call EXCEPT ![c] = k], scan' = [scan EXCEPT ![c] = s]
  PROVE  scan' \in [Checkers -> Scans] /\ call' \in [Callers -> Calls] /\ Local'
<1>1. scan \in [Checkers -> Scans] /\ call \in [Callers -> Calls] /\ c \in Checkers
  BY TypeFacts DEF Checkers
<1>2. \A q \in Checkers : ScanOK(scan'[q])
  BY <1>1 DEF Local
<1>3. \A d \in Callers : CallOK(call'[d], scan'[d])
  <2>1. CallOK(call'[c], scan'[c])
    BY <1>1
  <2>2. \A d \in Callers \ {c} : call'[d] = call[d] /\ scan'[d] = scan[d]
    BY <1>1 DEF Checkers
  <2> QED
    BY <2>1, <2>2 DEF Local
<1> QED
  BY <1>1, <1>2, <1>3 DEF Local

\* get_channel, report_broken and a cancellation leave no future behind, and no
\* channel without its address.
LEMMA CallerLocal ==
  ASSUME TypeOK, Local, NEW c \in Callers,
         GetAny(c) \/ get_channel(c) \/ RequestDone(c) \/ ReportRemove(c) \/ ReportAdd(c) \/ Cancel(c)
  PROVE  scan' \in [Checkers -> Scans] /\ call' \in [Callers -> Calls] /\ Local'
<1> DEFINE Goal == scan' \in [Checkers -> Scans] /\ call' \in [Callers -> Calls] /\ Local'
<1>0. /\ scan \in [Checkers -> Scans] /\ call \in [Callers -> Calls] /\ c \in Checkers
      /\ scan[c] \in Scans /\ call[c] \in Calls /\ ScanOK(scan[c]) /\ CallOK(call[c], scan[c])
  BY TypeFacts DEF Checkers, Local
<1>1. ASSUME NEW k \in Calls, NEW s \in Scans, ScanOK(s), CallOK(k, s),
             call' = [call EXCEPT ![c] = k], scan' = [scan EXCEPT ![c] = s]
      PROVE  Goal
  BY <1>1, CallerSet
<1>2. ASSUME NEW k \in Calls, CallOK(k, scan[c]), call' = [call EXCEPT ![c] = k], scan' = scan
      PROVE  Goal
  BY <1>0, <1>1, <1>2
<1>3. ASSUME NEW k \in Calls, CallOK(k, Idle), call' = [call EXCEPT ![c] = k],
             scan' = [scan EXCEPT ![c] = Idle]
      PROVE  Goal
  BY <1>1, <1>3, RestOK
<1> SUFFICES Goal
  OBVIOUS
<1> HIDE DEF Goal
<1>4. ASSUME NEW o \in Calls, CallOK(o, Idle), GiveAnyOr(c, o)
      PROVE  \E k \in Calls : CallOK(k, Idle) /\ call' = [call EXCEPT ![c] = k]
  <2>1. PICK a \in Ready!AnyOf :
          call' = [call EXCEPT ![c] = IF a = NoAddr THEN o ELSE [AtRest EXCEPT !.pc = "have", !.addr = a]]
    BY <1>4 DEF GiveAnyOr
  <2>2. CASE a = NoAddr
    BY <1>4, <2>1, <2>2
  <2>3. CASE a # NoAddr
    <3> DEFINE k == [AtRest EXCEPT !.pc = "have", !.addr = a]
    <3>1. a \in Addr
      BY <2>3 DEF Ready!AnyOf, Ready!Available
    <3>2. k \in Calls /\ CallOK(k, Idle)
      BY <3>1 DEF AtRest, Calls, CallPCs, CallOK
    <3>3. call' = [call EXCEPT ![c] = k]
      BY <2>1, <2>3
    <3> QED
      BY <3>2, <3>3
  <2> QED
    BY <2>2, <2>3
<1>5. call[c].pc # "select" => scan[c] = Idle
  BY <1>0 DEF CallOK
<1>6. CASE GetAny(c)
  <2> DEFINE o == [AtRest EXCEPT !.pc = "gate"]
  <2>1. o \in Calls /\ CallOK(o, Idle)
    BY DEF AtRest, Calls, CallPCs, CallOK
  <2>2. GiveAnyOr(c, o) /\ scan' = scan /\ scan[c] = Idle
    BY <1>5, <1>6 DEF GetAny
  <2> HIDE DEF o
  <2> QED
    BY <1>2, <1>4, <2>1, <2>2
<1>7. CASE TryRead(c)
  <2> DEFINE k == IF gate # <<>> THEN [call[c] EXCEPT !.pc = "join"]
                  ELSE IF recent THEN AtRest
                  ELSE [call[c] EXCEPT !.pc = "want"]
  <2>1. call' = [call EXCEPT ![c] = k] /\ scan' = scan
    BY <1>7 DEF TryRead
  <2>2. k \in Calls /\ CallOK(k, scan[c])
    <3>1. call[c].pc = "gate"
      BY <1>7 DEF TryRead
    <3> QED
      BY <1>0, <1>5, <3>1, RestOK DEF Calls, CallPCs, CallOK
  <2> HIDE DEF k
  <2> QED
    BY <1>2, <2>1, <2>2
<1>8. CASE Enqueue(c)
  <2> DEFINE k == [call[c] EXCEPT !.pc = IF @ = "want" THEN "write" ELSE "wait"]
  <2>1. call' = [call EXCEPT ![c] = k] /\ scan' = scan
    BY <1>8 DEF Enqueue
  <2>2. k \in Calls /\ CallOK(k, scan[c])
    BY <1>0, <1>8 DEF Enqueue, Calls, CallPCs, CallOK
  <2> HIDE DEF k
  <2> QED
    BY <1>2, <2>1, <2>2
<1>9. CASE LockedFound(c) \/ Return(c)
  BY <1>3, <1>4, <1>9, RestOK DEF LockedFound, Return, Ended
<1>10. CASE LockedEmpty(c)
  <2> DEFINE k == [call[c] EXCEPT !.pc = "spawn"]
  <2>1. call' = [call EXCEPT ![c] = k] /\ scan' = scan
    BY <1>10 DEF LockedEmpty
  <2>2. k \in Calls /\ CallOK(k, scan[c])
    BY <1>0, <1>10 DEF LockedEmpty, Calls, CallPCs, CallOK
  <2> HIDE DEF k
  <2> QED
    BY <1>2, <2>1, <2>2
<1>11. CASE Joined(c)
  <2> DEFINE k == [call[c] EXCEPT !.pc = "last"]
  <2>1. call' = [call EXCEPT ![c] = k] /\ scan' = scan
    BY <1>11 DEF Joined
  <2>2. k \in Calls /\ CallOK(k, scan[c])
    BY <1>0, <1>11 DEF Joined, Calls, CallPCs, CallOK
  <2> HIDE DEF k
  <2> QED
    BY <1>2, <2>1, <2>2
<1>12. CASE LastGetAny(c)
  BY <1>2, <1>4, <1>5, <1>12, RestOK DEF LastGetAny
<1>13. CASE SpawnRechecks(c)
  <2> DEFINE k == [call[c] EXCEPT !.pc = "select", !.rechecks = Broken!Addresses]
  <2>1. call' = [call EXCEPT ![c] = k] /\ scan' = [scan EXCEPT ![c] = Started]
    BY <1>13 DEF SpawnRechecks
  <2>2. k \in Calls /\ CallOK(k, Started)
    BY <1>0 DEF Calls, CallPCs, CallOK, Broken!Addresses, TypeOK
  <2> HIDE DEF k
  <2> QED
    BY <1>1, <2>1, <2>2, RestOK
<1>14. ASSUME NEW a \in Addr, Recheck(c, a)
       PROVE  Goal
  <2> DEFINE k == [call[c] EXCEPT !.rechecks = @ \ {a}, !.over = TRUE]
  <2>1. call' = [call EXCEPT ![c] = k] /\ scan' = scan
    BY <1>14 DEF Recheck
  <2>2. call[c].pc = "select"
    BY <1>0, <1>14 DEF Recheck, CallOK
  <2>3. k \in Calls /\ k.pc = "select"
    BY <1>0, <2>2 DEF Calls
  <2>4. CallOK(k, scan[c])
    BY <2>3 DEF CallOK
  <2> HIDE DEF k
  <2> QED
    BY <1>2, <2>1, <2>3, <2>4
<1>15. CASE RequestDone(c) \/ ReportAdd(c)
  BY <1>2, <1>5, <1>15, RestOK DEF RequestDone, ReportAdd
<1>16. CASE ReportRemove(c)
  <2> DEFINE k == [call[c] EXCEPT !.pc = "report"]
  <2>1. call' = [call EXCEPT ![c] = k] /\ scan' = scan
    BY <1>16 DEF ReportRemove
  <2>2. k \in Calls /\ CallOK(k, scan[c])
    BY <1>0, <1>16 DEF ReportRemove, Calls, CallPCs, CallOK
  <2> HIDE DEF k
  <2> QED
    BY <1>2, <2>1, <2>2
<1>17. CASE Cancel(c)
  BY <1>3, <1>17, RestOK DEF Cancel, Ended
<1> QED
  BY <1>6, <1>7, <1>8, <1>9, <1>10, <1>11, <1>12, <1>13, <1>14, <1>15, <1>16, <1>17
     DEF get_channel

\* The doctor's hand-over and the DNS task's timer touch no caller.
LEMMA BackgroundLocal ==
  ASSUME TypeOK, Local, Background
  PROVE  scan' \in [Checkers -> Scans] /\ call' \in [Callers -> Calls] /\ Local'
<1>0. scan \in [Checkers -> Scans] /\ call \in [Callers -> Calls]
  BY TypeFacts
<1>1. CASE DnsTick
  <2>1. call' = call /\ scan' = [scan EXCEPT ![DnsTask] = Started]
    BY <1>1 DEF DnsTick
  <2>2. DnsTask \in Checkers /\ \A c \in Callers : c \in Checkers /\ scan'[c] = scan[c]
    BY <1>0, <2>1, DnsTaskAssumption DEF Checkers
  <2> QED
    BY <1>0, <2>1, <2>2, RestOK DEF Local
<1>2. CASE NextBroken \/ DoctorConnected \/ DoctorFailed \/ ZoneChange \/ Expire
  BY <1>0, <1>2 DEF NextBroken, DoctorConnected, DoctorFailed, ZoneChange, Expire, Local
<1> QED
  BY <1>1, <1>2, ScanLocal DEF Background

\* The stores keep their types.
LEMMA StoresTyped ==
  ASSUME TypeOK, Local, [Next]_vars
  PROVE  /\ zone' \subseteq Addr /\ ready' \in [Addr -> Nat] /\ broken' \subseteq Addr
         /\ testing' \in Addr \cup {NoAddr} /\ recent' \in BOOLEAN
<1> DEFINE Goal == /\ zone' \subseteq Addr /\ ready' \in [Addr -> Nat] /\ broken' \subseteq Addr
                   /\ testing' \in Addr \cup {NoAddr} /\ recent' \in BOOLEAN
<1> SUFFICES Goal
  OBVIOUS
<1> USE DEF TypeOK, stores
<1>1. CASE UNCHANGED vars
  BY <1>1 DEF vars
<1>2. CASE Background
  <2>1. CASE DnsTick \/ ZoneChange \/ Expire
    BY <2>1 DEF DnsTick, ZoneChange, Expire
  <2>2. CASE NextBroken
    BY <2>2 DEF NextBroken, Broken!NextBroken
  <2>3. CASE DoctorConnected
    BY <2>3 DEF DoctorConnected, Broken!Tested, Ready!Add
  <2>4. CASE DoctorFailed
    BY <2>4 DEF DoctorFailed, Broken!TestFailed
  <2>5. ASSUME NEW p \in Checkers, check_dns(p)
        PROVE  Goal
    <3>1. CASE ResolveOk(p) \/ ResolveErr(p) \/ (\E a \in Addr : Find(p, a)) \/ GetAddress(p) \/ Connect(p)
      BY <3>1 DEF ResolveOk, ResolveErr, Find, GetAddress, Connect
    <3>2. CASE ReplaceReady(p)
      BY <3>2 DEF ReplaceReady, Ready!ReplaceWith
    <3>3. CASE ReplaceBroken(p)
      BY <3>3 DEF ReplaceBroken, Broken!ReplaceWith
    <3> QED
      BY <2>5, <3>1, <3>2, <3>3 DEF check_dns
  <2> QED
    BY <1>2, <2>1, <2>2, <2>3, <2>4, <2>5 DEF Background
<1>3. ASSUME NEW c \in Callers,
             GetAny(c) \/ get_channel(c) \/ RequestDone(c) \/ ReportRemove(c) \/ ReportAdd(c) \/ Cancel(c)
      PROVE  Goal
  <2>1. CASE GetAny(c) \/ TryRead(c) \/ Enqueue(c) \/ LockedFound(c) \/ Joined(c) \/ LastGetAny(c)
    BY <2>1 DEF GetAny, TryRead, Enqueue, LockedFound, Joined, LastGetAny
  <2>2. CASE LockedEmpty(c) \/ SpawnRechecks(c) \/ Return(c) \/ RequestDone(c) \/ Cancel(c)
    BY <2>2 DEF LockedEmpty, SpawnRechecks, Return, RequestDone, Cancel
  <2>3. ASSUME NEW a \in Addr, Recheck(c, a)
        PROVE  Goal
    <3>1. CASE Ready!Add(a) /\ UNCHANGED <<broken, testing>>
      BY <2>3, <3>1 DEF Recheck, Ready!Add
    <3>2. CASE Broken!AddAddress(a) /\ UNCHANGED ready
      BY <2>3, <3>2 DEF Recheck, Broken!AddAddress
    <3> QED
      BY <2>3, <3>1, <3>2 DEF Recheck
  <2>4. CASE ReportRemove(c)
    <3>1. call[c].addr \in Addr
      BY <2>4 DEF ReportRemove, Local, CallOK
    <3> QED
      BY <2>4, <3>1 DEF ReportRemove, Ready!Remove
  <2>5. CASE ReportAdd(c)
    <3>1. call[c].addr \in Addr
      BY <2>5 DEF ReportAdd, Local, CallOK
    <3> QED
      BY <2>5, <3>1 DEF ReportAdd, Broken!AddAddress
  <2> QED
    BY <1>3, <2>1, <2>2, <2>3, <2>4, <2>5 DEF get_channel
<1> QED
  BY <1>1, <1>2, <1>3 DEF Next

\* All of the invariant but the bound.
Sound == TypeOK /\ Lock!GateInv /\ Local

\* A new pool is sound ...
LEMMA SoundInit == Init => Sound
<1> SUFFICES ASSUME Init
             PROVE  Sound
  OBVIOUS
<1>1. Lock!GateInv
  BY LockInit, Lock!GateInitInv
<1>2. TypeOK
  BY <1>1, RestOK DEF Init, TypeOK, Ready!Empty, Broken!Init, Scans, Calls,
                      Lock!GateInv, Lock!GateTypeOK
<1>3. Local
  BY RestOK, DnsTaskAssumption DEF Init, Local, Checkers
<1> QED
  BY <1>1, <1>2, <1>3 DEF Sound

\* ... and every step of a task or of a caller leaves it so.
LEMMA SoundStep == Sound /\ [Next]_vars => Sound'
<1> SUFFICES ASSUME Sound, [Next]_vars
             PROVE  Sound'
  OBVIOUS
<1> USE DEF Sound
<1>1. Lock!GateInv'
  BY LockStep, Lock!GateStep
<1>2. scan' \in [Checkers -> Scans] /\ call' \in [Callers -> Calls] /\ Local'
  <2>1. CASE UNCHANGED vars
    BY <2>1, TypeFacts DEF vars, Local
  <2> QED
    BY <2>1, BackgroundLocal, CallerLocal DEF Next
<1>3. gate' \in Seq(Callers)
  BY <1>1 DEF Lock!GateInv, Lock!GateTypeOK
<1>4. TypeOK'
  BY <1>2, <1>3, StoresTyped DEF TypeOK, Scans, Calls
<1> QED
  BY <1>1, <1>2, <1>4

\* Types, the lock and what a caller has at each point of get_channel hold
\* together, whoever is cancelled at which await (get_channel, check_dns).
THEOREM SoundInvariant == Spec => []Sound
BY SoundInit, SoundStep, PTL DEF Spec

\* Every variable of the pool keeps its type, for any addresses and callers.
THEOREM TypeCorrect == Spec => []TypeOK
<1>1. Sound => TypeOK
  BY DEF Sound
<1> QED
  BY <1>1, SoundInvariant, PTL

\* get_channel uses RECHECK_BROKEN_ENDPOINTS as RecheckGate says, wherever it
\* returns and wherever its future is dropped.
THEOREM ImplementsGate == Spec => RefinesGate
<1>1. Lock!GateInit => Gate!GateInit
  BY DEF Lock!GateInit, Gate!GateInit
<1>2. Lock!GateNext => Gate!GateNext
  <2>1. Lock!Expire => Gate!Expire
    BY DEF Lock!Expire, Gate!Expire
  <2>2. ASSUME NEW c \in Callers
        PROVE  /\ Lock!TryRead(c) => Gate!TryRead(c)
               /\ Lock!Enqueue(c) => Gate!Enqueue(c)
               /\ Lock!Start(c) => Gate!Start(c)
               /\ Lock!Leave(c) => Gate!Leave(c)
    <3>1. \A q : Lock!RemoveFirst(q, c) = Gate!RemoveFirst(q, c)
      BY DEF Lock!RemoveFirst, Gate!RemoveFirst, Lock!RemoveAt, Gate!RemoveAt,
             Lock!SelectInSeq, Gate!SelectInSeq, Lock!Min, Gate!Min
    <3>2. \A s : Lock!Go(c, s) => Gate!Go(c, s)
      BY DEF Lock!Go, Gate!Go
    <3>3. Lock!HoldsGate(c) => Gate!HoldsGate(c)
      BY DEF Lock!HoldsGate, Gate!HoldsGate
    <3>4. Lock!TryRead(c) => Gate!TryRead(c)
      BY <3>2 DEF Lock!TryRead, Gate!TryRead
    <3>5. Lock!Enqueue(c) => Gate!Enqueue(c)
      BY <3>2 DEF Lock!Enqueue, Gate!Enqueue
    <3>6. Lock!Start(c) => Gate!Start(c)
      BY <3>2, <3>3 DEF Lock!Start, Gate!Start
    <3>7. Lock!Leave(c) => Gate!Leave(c)
      BY <3>1, <3>2 DEF Lock!Leave, Gate!Leave
    <3> QED
      BY <3>4, <3>5, <3>6, <3>7
  <2> QED
    BY <2>1, <2>2 DEF Lock!GateNext, Gate!GateNext
<1>3. Sound /\ [Next]_vars => [Gate!GateNext]_(Gate!gateVars)
  <2> SUFFICES ASSUME Sound, [Next]_vars
               PROVE  [Gate!GateNext]_(Gate!gateVars)
    OBVIOUS
  <2>1. [Lock!GateNext]_(Lock!gateVars)
    BY LockStep DEF Sound
  <2> QED
    BY <2>1, <1>2 DEF Lock!gateVars, Gate!gateVars
<1>4. Init => Gate!GateInit
  BY <1>1, LockInit
<1> QED
  BY <1>3, <1>4, SoundInvariant, PTL DEF Spec, RefinesGate, Gate!GateSpec

\* A caller with a future, or about to make some, is at the head of the queue.
LEMMA SoundAlone == Sound => OneRecheck
<1> SUFFICES ASSUME Sound, NEW c \in Callers,
                    call[c].pc \in {"spawn", "select"} \/ scan[c] # Idle \/ call[c].rechecks # {}
             PROVE  HasLock(c)
  BY DEF OneRecheck
<1>1. call[c].pc \in {"spawn", "select"}
  BY DEF Sound, Local, CallOK
<1> QED
  BY <1>1, LockFacts DEF Sound

\* Forced checks never overlap, and all they do happens under the lock.
THEOREM ChecksAlone == Spec => []OneRecheck
BY SoundAlone, SoundInvariant, PTL

\* Who is not in the queue has no futures either.
LEMMA SoundLeaves == Sound => NothingHeld
<1> SUFFICES ASSUME Sound, NEW c \in Callers,
                    call[c].pc \notin {"write", "wait", "spawn", "select"}
             PROVE  /\ \A i \in DOMAIN gate : gate[i] # c
                    /\ scan[c] = Idle
                    /\ call[c].rechecks = {}
  BY DEF NothingHeld
<1>1. \A i \in DOMAIN gate : gate[i] # c
  BY LockFacts DEF Sound
<1>2. scan[c] = Idle /\ call[c].rechecks = {}
  BY DEF Sound, Local, CallOK
<1> QED
  BY <1>1, <1>2

\* A call that is over, however it ended, has given up the lock, its place in
\* the queue and its futures.
THEOREM LeavesNothing == Spec => []NothingHeld
BY SoundLeaves, SoundInvariant, PTL

\* A step that empties the pool is the report of a channel, or a DNS check with
\* an answer all of whose addresses are broken: never one without an answer.
LEMMA EmptyingStep ==
  ASSUME Sound, [Next]_vars, Ready!Available # {}, \A a \in Addr : ready'[a] = 0
  PROVE  \/ \E c \in Callers : ReportRemove(c)
         \/ \E p \in Checkers : ReplaceReady(p) /\ scan[p].b # {}
<1> USE DEF stores
<1>1. TypeOK /\ Local
  BY DEF Sound
<1>2. PICK a \in Addr : ready[a] > 0
  BY DEF Ready!Available
<1>3. ready' # ready
  BY <1>1, <1>2 DEF TypeOK
<1>4. ASSUME NEW x \in Addr, Ready!Add(x)
      PROVE  FALSE
  <2>1. ready'[x] = ready[x] + 1 /\ ready[x] \in Nat
    BY <1>1, <1>4 DEF Ready!Add, TypeOK
  <2> QED
    BY <2>1
<1>5. CASE UNCHANGED vars
  BY <1>3, <1>5 DEF vars
<1>6. CASE Background
  <2>1. CASE DnsTick \/ ZoneChange \/ Expire \/ NextBroken \/ DoctorFailed
    BY <1>3, <2>1 DEF DnsTick, ZoneChange, Expire, NextBroken, DoctorFailed
  <2>2. CASE DoctorConnected
    BY <1>1, <1>4, <2>2 DEF DoctorConnected, Broken!Tested, TypeOK
  <2>3. ASSUME NEW p \in Checkers, check_dns(p)
        PROVE  ReplaceReady(p) /\ scan[p].b # {}
    <3>1. CASE ReplaceReady(p)
      <4>1. ScanOK(scan[p]) /\ scan[p].pc = "find" /\ scan[p].todo = {}
        BY <1>1, <3>1 DEF Local, ReplaceReady
      <4>2. scan[p].r \subseteq Addr
        BY <1>1 DEF TypeOK
      <4>3. scan[p].r = {}
        BY <3>1, <4>2 DEF ReplaceReady, Ready!ReplaceWith
      <4> QED
        BY <3>1, <4>1, <4>3 DEF ScanOK
    <3>2. CASE ~ReplaceReady(p)
      BY <1>3, <2>3, <3>2
         DEF check_dns, ResolveOk, ResolveErr, Find, GetAddress, Connect, ReplaceBroken
    <3> QED
      BY <3>1, <3>2
  <2> QED
    BY <1>6, <2>1, <2>2, <2>3 DEF Background
<1>7. ASSUME NEW c \in Callers,
             GetAny(c) \/ get_channel(c) \/ RequestDone(c) \/ ReportRemove(c) \/ ReportAdd(c) \/ Cancel(c)
      PROVE  ReportRemove(c)
  <2>1. ASSUME NEW x \in Addr, Recheck(c, x)
        PROVE  FALSE
    BY <1>3, <1>4, <2>1 DEF Recheck
  <2>2. CASE GetAny(c) \/ TryRead(c) \/ Enqueue(c) \/ LockedFound(c) \/ Joined(c) \/ LastGetAny(c)
    BY <1>3, <2>2 DEF GetAny, TryRead, Enqueue, LockedFound, Joined, LastGetAny
  <2>3. CASE LockedEmpty(c) \/ SpawnRechecks(c) \/ Return(c) \/ RequestDone(c) \/ Cancel(c) \/ ReportAdd(c)
    BY <1>3, <2>3 DEF LockedEmpty, SpawnRechecks, Return, RequestDone, Cancel, ReportAdd
  <2> QED
    BY <1>7, <2>1, <2>2, <2>3 DEF get_channel
<1> QED
  BY <1>5, <1>6, <1>7 DEF Next

\* The pool is never emptied because the name did not resolve, whatever else
\* goes on (check_dns keeps both stores on an error).
THEOREM EmptiedOnlyForCause == Spec => EmptiedForCause
<1>1. Sound /\ [Next]_vars =>
        [Ready!Available # {} /\ (\A a \in Addr : ready'[a] = 0) =>
           \/ \E c \in Callers : ReportRemove(c)
           \/ \E p \in Checkers : ReplaceReady(p) /\ scan[p].b # {}]_vars
  BY EmptyingStep
<1> QED
  BY <1>1, SoundInvariant, PTL DEF Spec, EmptiedForCause

-----------------------------------------------------------------------------
(* Channels to one address do not pile up.                                 *)

\* The DNS task and the callers are finitely many.
LEMMA CheckersFinite ==
  /\ IsFiniteSet(Checkers)
  /\ \A S \in SUBSET Checkers : IsFiniteSet(S) /\ Cardinality(S) \in Nat
BY CallersAssumption, FS_AddElement, FS_Subset, FS_CardinalityType DEF Checkers

\* Fewer, one fewer, and at most one more.
LEMMA Fewer ==
  ASSUME NEW S \in SUBSET Checkers, NEW T \in SUBSET S
  PROVE  /\ Cardinality(S) \in Nat /\ Cardinality(T) \in Nat
         /\ Cardinality(T) <= Cardinality(S)
<1>1. IsFiniteSet(S) /\ T \in SUBSET Checkers
  BY CheckersFinite
<1> QED
  BY <1>1, CheckersFinite, FS_Subset

\* One of a set is gone.
LEMMA OneFewer ==
  ASSUME NEW S \in SUBSET Checkers, NEW p \in S, NEW T \in SUBSET (S \ {p})
  PROVE  /\ Cardinality(S) \in Nat /\ Cardinality(T) \in Nat
         /\ Cardinality(T) <= Cardinality(S) - 1
<1>1. IsFiniteSet(S) /\ Cardinality(S) \in Nat
  BY CheckersFinite
<1>2. Cardinality(S \ {p}) = Cardinality(S) - 1
  BY <1>1, FS_RemoveElement
<1>3. S \ {p} \in SUBSET Checkers
  OBVIOUS
<1> QED
  BY <1>1, <1>2, <1>3, Fewer

\* One at most has joined a set.
LEMMA OneMore ==
  ASSUME NEW S \in SUBSET Checkers, NEW p \in Checkers, NEW T \in SUBSET (S \cup {p})
  PROVE  /\ Cardinality(S) \in Nat /\ Cardinality(T) \in Nat
         /\ Cardinality(T) <= Cardinality(S) + 1
<1>1. IsFiniteSet(S) /\ Cardinality(S) \in Nat
  BY CheckersFinite
<1>2. Cardinality(S \cup {p}) <= Cardinality(S) + 1
  BY <1>1, FS_AddElement
<1>3. S \cup {p} \in SUBSET Checkers
  OBVIOUS
<1>4. Cardinality(S \cup {p}) \in Nat /\ Cardinality(T) \in Nat /\ Cardinality(T) <= Cardinality(S \cup {p})
  BY <1>3, Fewer
<1> QED
  BY <1>1, <1>2, <1>4

\* However the slots are taken: at most one caller runs a forced check, and it
\* reports nothing meanwhile, so there are two more than callers, and one less
\* when a check of the DNS has none (H are the callers that run one).
LEMMA SlotBound ==
  ASSUME NEW Rep \in SUBSET Callers, NEW Rec \in SUBSET Callers, NEW Scn \in SUBSET Checkers,
         NEW H \in SUBSET Callers, \A g, h \in H : g = h,
         Rec \subseteq H, Scn \subseteq H \cup {DnsTask}, Rep \cap H = {}
  PROVE  /\ Cardinality(Rep) \in Nat /\ Cardinality(Rec) \in Nat /\ Cardinality(Scn) \in Nat
         /\ Cardinality(Callers) \in Nat
         /\ Cardinality(Rep) + Cardinality(Rec) + Cardinality(Scn) <= Cardinality(Callers) + 2
         /\ (\E p \in H \cup {DnsTask} : p \notin Scn) =>
              Cardinality(Rep) + Cardinality(Rec) + Cardinality(Scn) <= Cardinality(Callers) + 1
<1>1. Callers \in SUBSET Checkers /\ DnsTask \in Checkers /\ {} \in SUBSET Checkers
  BY DEF Checkers
<1>2. /\ Cardinality(Rep) \in Nat /\ Cardinality(Rec) \in Nat /\ Cardinality(Scn) \in Nat
      /\ Cardinality(Callers) \in Nat /\ Cardinality({}) = 0
  BY <1>1, CheckersFinite, FS_EmptySet
<1>3. CASE H = {}
  <2>1. Rec = {} /\ Cardinality(Rep) <= Cardinality(Callers)
    BY <1>1, <1>3, Fewer
  <2>2. Scn \in SUBSET ({} \cup {DnsTask})
    BY <1>3
  <2>3. Cardinality(Scn) <= 1
    BY <1>1, <1>2, <2>2, OneMore
  <2>4. (\E p \in H \cup {DnsTask} : p \notin Scn) => Scn = {}
    BY <1>3, <2>2
  <2> QED
    BY <1>2, <2>1, <2>3, <2>4
<1>4. ASSUME NEW h \in H
      PROVE  /\ Cardinality(Rep) + Cardinality(Rec) + Cardinality(Scn) <= Cardinality(Callers) + 2
             /\ (\E p \in H \cup {DnsTask} : p \notin Scn) =>
                  Cardinality(Rep) + Cardinality(Rec) + Cardinality(Scn) <= Cardinality(Callers) + 1
  <2>1. H = {h} /\ h \in Callers /\ h \in Checkers
    BY <1>1
  <2>2. Rep \in SUBSET (Callers \ {h}) /\ Rec \in SUBSET ({} \cup {h})
    BY <2>1
  <2>3. Cardinality(Rep) <= Cardinality(Callers) - 1
    BY <1>1, <2>1, <2>2, OneFewer
  <2>4. Cardinality(Rec) <= 1
    BY <1>1, <1>2, <2>1, <2>2, OneMore
  <2>5. Cardinality({h}) = 1 /\ {h} \in SUBSET Checkers
    BY <2>1, FS_Singleton
  <2>6. Scn \in SUBSET ({h} \cup {DnsTask})
    BY <2>1
  <2>7. Cardinality(Scn) <= 2
    BY <1>1, <2>5, <2>6, OneMore
  <2>8. ASSUME NEW p \in H \cup {DnsTask}, p \notin Scn
        PROVE  Cardinality(Scn) <= 1
    <3>1. \E q \in Checkers : Scn \in SUBSET ({} \cup {q})
      BY <1>1, <2>1, <2>6, <2>8
    <3> QED
      BY <1>1, <1>2, <3>1, OneMore
  <2> QED
    BY <1>2, <2>3, <2>4, <2>7, <2>8
<1> QED
  BY <1>2, <1>3, <1>4

\* The callers in a forced check: one at most.
Checks == {c \in Callers : call[c].pc \in {"spawn", "select"}}

\* The slots of the pool are as SlotBound assumes, in every state.
LEMMA SlotsAre ==
  ASSUME Sound, NEW a \in Addr
  PROVE  /\ Reporters(a) \in SUBSET Callers /\ Recheckers(a) \in SUBSET Callers
         /\ Scanners(a) \in SUBSET Checkers /\ Checks \in SUBSET Callers
         /\ \A g, h \in Checks : g = h
         /\ Recheckers(a) \subseteq Checks /\ Scanners(a) \subseteq Checks \cup {DnsTask}
         /\ Reporters(a) \cap Checks = {}
<1>1. \A g, h \in Checks : g = h
  BY LockFacts DEF Sound, Checks, HasLock
<1>2. Recheckers(a) \subseteq Checks
  BY DEF Sound, Local, CallOK, Recheckers, Checks
<1>3. ASSUME NEW p \in Scanners(a), p # DnsTask
      PROVE  p \in Checks
  <2>1. p \in Callers /\ scan[p] # Idle
    BY <1>3, NoAddrAssumption DEF Scanners, Checkers, Idle
  <2> QED
    BY <2>1 DEF Sound, Local, CallOK, Checks
<1> QED
  BY <1>1, <1>2, <1>3 DEF Reporters, Recheckers, Scanners, Checks

\* So the slots of an address are at most two more than the callers, and at most
\* one more while some check that is allowed has none.
LEMMA Slots ==
  Sound => \A a \in Addr :
    /\ Cardinality(Reporters(a)) \in Nat /\ Cardinality(Recheckers(a)) \in Nat
    /\ Cardinality(Scanners(a)) \in Nat /\ Cardinality(Callers) \in Nat
    /\ Cardinality(Reporters(a)) + Cardinality(Recheckers(a)) + Cardinality(Scanners(a))
         <= Cardinality(Callers) + 2
    /\ (\E p \in Checks \cup {DnsTask} : p \notin Scanners(a)) =>
         Cardinality(Reporters(a)) + Cardinality(Recheckers(a)) + Cardinality(Scanners(a))
           <= Cardinality(Callers) + 1
BY SlotsAre, SlotBound

\* What there is of an address in the stores.
Stock(a) == ready[a] + One(a \in broken) + One(testing = a)

\* What the stores and the doctor have of an address is a number.
LEMMA StockType ==
  ASSUME TypeOK
  PROVE  \A a \in Addr : ready[a] \in Nat /\ Stock(a) \in Nat /\ Stock(a) <= ready[a] + 2
BY DEF TypeOK, Stock, One

\* Where there is no channel there is room for all slots; where there is one,
\* for all but that of a check that has none.
Roomy ==
  \A a \in Addr :
    \/ ready[a] = 0
    \/ ready[a] = 1 /\ \E p \in Checks \cup {DnsTask} : p \notin Scanners(a)
    => Owed(a) <= Cardinality(Callers) + 4

\* Every state of the pool has that room ...
LEMMA AlwaysRoomy == Sound => Roomy
<1> SUFFICES ASSUME Sound, NEW a \in Addr,
                    \/ ready[a] = 0
                    \/ ready[a] = 1 /\ \E p \in Checks \cup {DnsTask} : p \notin Scanners(a)
             PROVE  Owed(a) <= Cardinality(Callers) + 4
  BY DEF Roomy
<1>1. Owed(a) = Stock(a) + Cardinality(Reporters(a)) + Cardinality(Recheckers(a)) + Cardinality(Scanners(a))
  BY DEF Owed, Stock
<1>2. ready[a] \in Nat /\ Stock(a) \in Nat /\ Stock(a) <= ready[a] + 2
  BY StockType DEF Sound
<1>3. CASE ready[a] = 0
  BY <1>1, <1>2, <1>3, Slots
<1>4. CASE ready[a] = 1 /\ \E p \in Checks \cup {DnsTask} : p \notin Scanners(a)
  BY <1>1, <1>2, <1>4, Slots
<1> QED
  BY <1>3, <1>4

\* ... and so has the next one.
LEMMA RoomyNext == Sound' => Roomy'
BY AlwaysRoomy, PTL

\* A step adds nothing to the stores and gives nobody a slot.
LEMMA Kept ==
  ASSUME Sound, Bounded, NEW a \in Addr, Stock(a)' \in Nat, Stock(a)' <= Stock(a),
         Reporters(a)' \subseteq Reporters(a), Recheckers(a)' \subseteq Recheckers(a),
         Scanners(a)' \subseteq Scanners(a)
  PROVE  Owed(a)' <= Cardinality(Callers) + 4
<1>1. /\ Owed(a) = Stock(a) + Cardinality(Reporters(a)) + Cardinality(Recheckers(a)) + Cardinality(Scanners(a))
      /\ Owed(a)' = Stock(a)' + Cardinality(Reporters(a)') + Cardinality(Recheckers(a)') + Cardinality(Scanners(a)')
  BY DEF Owed, Stock
<1>2. /\ Reporters(a) \in SUBSET Checkers /\ Recheckers(a) \in SUBSET Checkers
      /\ Scanners(a) \in SUBSET Checkers
  BY SlotsAre DEF Checkers
<1>3. Cardinality(Reporters(a)') <= Cardinality(Reporters(a)) /\ Cardinality(Reporters(a)') \in Nat
  BY <1>2, Fewer
<1>4. Cardinality(Recheckers(a)') <= Cardinality(Recheckers(a)) /\ Cardinality(Recheckers(a)') \in Nat
  BY <1>2, Fewer
<1>5. Cardinality(Scanners(a)') <= Cardinality(Scanners(a)) /\ Cardinality(Scanners(a)') \in Nat
  BY <1>2, Fewer
<1>6. Stock(a) \in Nat /\ Owed(a) <= Cardinality(Callers) + 4
  BY StockType DEF Sound, Bounded
<1> QED
  BY <1>1, <1>3, <1>4, <1>5, <1>6, Slots

\* A step adds one to the stores, and whoever did it gives up a slot.
LEMMA HandedIn ==
  ASSUME Sound, Bounded, NEW a \in Addr, Stock(a)' \in Nat, Stock(a)' <= Stock(a) + 1,
         Reporters(a)' \subseteq Reporters(a), Recheckers(a)' \subseteq Recheckers(a),
         Scanners(a)' \subseteq Scanners(a),
         \/ \E c \in Reporters(a) : c \notin Reporters(a)'
         \/ \E c \in Recheckers(a) : c \notin Recheckers(a)'
         \/ \E p \in Scanners(a) : p \notin Scanners(a)'
  PROVE  Owed(a)' <= Cardinality(Callers) + 4
<1>1. /\ Owed(a) = Stock(a) + Cardinality(Reporters(a)) + Cardinality(Recheckers(a)) + Cardinality(Scanners(a))
      /\ Owed(a)' = Stock(a)' + Cardinality(Reporters(a)') + Cardinality(Recheckers(a)') + Cardinality(Scanners(a)')
  BY DEF Owed, Stock
<1>2. /\ Reporters(a) \in SUBSET Checkers /\ Recheckers(a) \in SUBSET Checkers
      /\ Scanners(a) \in SUBSET Checkers
  BY SlotsAre DEF Checkers
<1>3. /\ Cardinality(Reporters(a)') <= Cardinality(Reporters(a)) /\ Cardinality(Reporters(a)') \in Nat
      /\ (\E c \in Reporters(a) : c \notin Reporters(a)') =>
           Cardinality(Reporters(a)') <= Cardinality(Reporters(a)) - 1
  BY <1>2, Fewer, OneFewer
<1>4. /\ Cardinality(Recheckers(a)') <= Cardinality(Recheckers(a)) /\ Cardinality(Recheckers(a)') \in Nat
      /\ (\E c \in Recheckers(a) : c \notin Recheckers(a)') =>
           Cardinality(Recheckers(a)') <= Cardinality(Recheckers(a)) - 1
  BY <1>2, Fewer, OneFewer
<1>5. /\ Cardinality(Scanners(a)') <= Cardinality(Scanners(a)) /\ Cardinality(Scanners(a)') \in Nat
      /\ (\E p \in Scanners(a) : p \notin Scanners(a)') =>
           Cardinality(Scanners(a)') <= Cardinality(Scanners(a)) - 1
  BY <1>2, Fewer, OneFewer
<1>6. Stock(a) \in Nat /\ Owed(a) <= Cardinality(Callers) + 4
  BY StockType DEF Sound, Bounded
<1> QED
  BY <1>1, <1>3, <1>4, <1>5, <1>6, Slots

\* A channel is removed for a slot (the two halves of report_broken).
LEMMA TakenOut ==
  ASSUME Sound, Bounded, NEW a \in Addr, Stock(a)' \in Nat, Stock(a)' + 1 <= Stock(a),
         NEW c \in Callers, Reporters(a)' \subseteq Reporters(a) \cup {c},
         Recheckers(a)' \subseteq Recheckers(a), Scanners(a)' \subseteq Scanners(a)
  PROVE  Owed(a)' <= Cardinality(Callers) + 4
<1>1. /\ Owed(a) = Stock(a) + Cardinality(Reporters(a)) + Cardinality(Recheckers(a)) + Cardinality(Scanners(a))
      /\ Owed(a)' = Stock(a)' + Cardinality(Reporters(a)') + Cardinality(Recheckers(a)') + Cardinality(Scanners(a)')
  BY DEF Owed, Stock
<1>2. /\ Reporters(a) \in SUBSET Checkers /\ Recheckers(a) \in SUBSET Checkers
      /\ Scanners(a) \in SUBSET Checkers /\ c \in Checkers
  BY SlotsAre DEF Checkers
<1>3. Cardinality(Reporters(a)') <= Cardinality(Reporters(a)) + 1 /\ Cardinality(Reporters(a)') \in Nat
  BY <1>2, OneMore
<1>4. Cardinality(Recheckers(a)') <= Cardinality(Recheckers(a)) /\ Cardinality(Recheckers(a)') \in Nat
  BY <1>2, Fewer
<1>5. Cardinality(Scanners(a)') <= Cardinality(Scanners(a)) /\ Cardinality(Scanners(a)') \in Nat
  BY <1>2, Fewer
<1>6. Stock(a) \in Nat /\ Owed(a) <= Cardinality(Callers) + 4
  BY StockType DEF Sound, Bounded
<1> QED
  BY <1>1, <1>3, <1>4, <1>5, <1>6, Slots

\* Steps that leave what a slot depends on alone, or give it up.
LEMMA SameSlots ==
  ASSUME NEW a \in Addr,
         \A c \in Callers : /\ call'[c].pc = call[c].pc /\ call'[c].addr = call[c].addr
                            /\ call'[c].rechecks = call[c].rechecks
  PROVE  Reporters(a)' = Reporters(a) /\ Recheckers(a)' = Recheckers(a)
BY DEF Reporters, Recheckers

\* A caller that stops reporting and rechecking gives its slots up.
LEMMA GivenUpSlots ==
  ASSUME NEW a \in Addr, NEW c \in Callers, \A d \in Callers \ {c} : call'[d] = call[d],
         call'[c].pc \notin {"report", "spawn"}, call'[c].rechecks = {}
  PROVE  Reporters(a)' \subseteq Reporters(a) /\ Recheckers(a)' \subseteq Recheckers(a)
BY DEF Reporters, Recheckers

\* Checks that do not move keep their slots.
LEMMA SameScans ==
  ASSUME NEW a \in Addr, scan' = scan
  PROVE  Scanners(a)' = Scanners(a)
BY DEF Scanners

\* A check that gets no new address gets no new slot.
LEMMA OneScan ==
  ASSUME NEW a \in Addr, NEW p \in Checkers, \A q \in Checkers \ {p} : scan'[q] = scan[q],
         scan'[p].cur = a \/ a \in scan'[p].b => scan[p].cur = a \/ a \in scan[p].b
  PROVE  Scanners(a)' \subseteq Scanners(a)
BY DEF Scanners

\* A check that ends or begins has no slot.
LEMMA ResetScan ==
  ASSUME TypeOK, NEW a \in Addr, NEW p \in Checkers, NEW s \in {Idle, Started},
         scan' = [scan EXCEPT ![p] = s]
  PROVE  Scanners(a)' = Scanners(a) \ {p}
BY NoAddrAssumption DEF TypeOK, Scanners, Idle, Started

\* A check that is over says so to its caller, who keeps its slots.
LEMMA ScanOverSlots ==
  ASSUME TypeOK, NEW a \in Addr, NEW p \in Checkers, ScanOver(p)
  PROVE  Reporters(a)' = Reporters(a) /\ Recheckers(a)' = Recheckers(a)
<1>1. CASE p \in Callers
  <2>1. call \in [Callers -> Calls] /\ call[p] \in Calls
    BY <1>1, TypeFacts
  <2>2. call' = [call EXCEPT ![p].over = TRUE]
    BY <1>1 DEF ScanOver
  <2> DEFINE k == [call[p] EXCEPT !.over = TRUE]
  <2>3. k.pc = call[p].pc /\ k.addr = call[p].addr /\ k.rechecks = call[p].rechecks
    BY <2>1 DEF Calls
  <2>4. \A c \in Callers : call'[c] = IF c = p THEN k ELSE call[c]
    BY <2>1, <2>2
  <2> HIDE DEF k
  <2> QED
    BY <2>3, <2>4, SameSlots
<1>2. CASE p \notin Callers
  BY <1>2, SameSlots DEF ScanOver
<1> QED
  BY <1>1, <1>2

\* Stores that are not touched stay the same.
LEMMA SameStock ==
  ASSUME Sound, NEW a \in Addr, UNCHANGED stores
  PROVE  Stock(a)' \in Nat /\ Stock(a)' <= Stock(a)
<1>1. Stock(a)' = Stock(a) /\ Stock(a) \in Nat
  BY StockType DEF Stock, stores, Sound
<1> QED
  BY <1>1

\* Checks of the DNS: a slot is taken where there is no channel, and a channel
\* found or made gives it up.
LEMMA BoundedScan ==
  ASSUME Sound, Sound', Bounded, NEW p \in Checkers, check_dns(p), NEW a \in Addr
  PROVE  Owed(a)' <= Cardinality(Callers) + 4
<1> DEFINE Goal == Owed(a)' <= Cardinality(Callers) + 4
<1> SUFFICES Goal
  OBVIOUS
<1>0. TypeOK /\ TypeOK' /\ ScanOK(scan[p]) /\ Roomy'
  BY RoomyNext DEF Sound, Local
<1>1. ASSUME ready'[a] = 0
      PROVE  Goal
  BY <1>0, <1>1 DEF Roomy
<1>2. Stock(a)' \in Nat
  BY <1>0 DEF TypeOK, Stock, One
<1>3. CASE ResolveOk(p) \/ GetAddress(p) \/ Connect(p)
  <2>1. UNCHANGED stores /\ call' = call
    BY <1>3 DEF ResolveOk, GetAddress, Connect
  <2>2. scan'[p].cur = a \/ a \in scan'[p].b => scan[p].cur = a \/ a \in scan[p].b
    <3>1. CASE ResolveOk(p)
      BY <1>0, <3>1 DEF ResolveOk, TypeOK
    <3>2. CASE GetAddress(p)
      BY <1>0, <3>2, NoAddrAssumption DEF GetAddress, TypeOK
    <3>3. CASE Connect(p)
      BY <1>0, <3>3, NoAddrAssumption DEF Connect, TypeOK
    <3> QED
      BY <1>3, <3>1, <3>2, <3>3
  <2>3. \A q \in Checkers \ {p} : scan'[q] = scan[q]
    BY <1>0, <1>3, ScanGoesOn DEF Sound
  <2>4. Scanners(a)' \subseteq Scanners(a)
    BY <2>2, <2>3, OneScan
  <2>5. Reporters(a)' = Reporters(a) /\ Recheckers(a)' = Recheckers(a)
    BY <2>1, SameSlots
  <2> QED
    BY <2>1, <2>4, <2>5, SameStock, Kept
<1>4. CASE ResolveErr(p)
  <2>1. UNCHANGED stores /\ scan' = [scan EXCEPT ![p] = Idle] /\ ScanOver(p)
    BY <1>4 DEF ResolveErr, ScanOver
  <2>2. Scanners(a)' \subseteq Scanners(a)
    BY <1>0, <2>1, ResetScan
  <2>3. Reporters(a)' = Reporters(a) /\ Recheckers(a)' = Recheckers(a)
    BY <1>0, <2>1, ScanOverSlots
  <2> QED
    BY <2>1, <2>2, <2>3, SameStock, Kept
<1>5. ASSUME NEW x \in Addr, Find(p, x)
      PROVE  Goal
  <2>1. UNCHANGED stores /\ call' = call /\ scan[p].pc = "find"
    BY <1>5 DEF Find
  <2>2. CASE x = a /\ ~Ready!Find(x)
    <3>1. ready'[a] = 0
      BY <1>0, <2>1, <2>2 DEF Ready!Find, stores, TypeOK
    <3> QED
      BY <1>1, <3>1
  <2>3. CASE x # a \/ Ready!Find(x)
    <3>1. scan'[p].cur = a \/ a \in scan'[p].b => scan[p].cur = a \/ a \in scan[p].b
      BY <1>0, <1>5, <2>3 DEF Find, TypeOK
    <3>2. \A q \in Checkers \ {p} : scan'[q] = scan[q]
      BY <1>0, <1>5, ScanGoesOn DEF Sound
    <3>3. Scanners(a)' \subseteq Scanners(a)
      BY <3>1, <3>2, OneScan
    <3>4. Reporters(a)' = Reporters(a) /\ Recheckers(a)' = Recheckers(a)
      BY <2>1, SameSlots
    <3> QED
      BY <2>1, <3>3, <3>4, SameStock, Kept
  <2> QED
    BY <2>2, <2>3
<1>6. CASE ReplaceReady(p)
  <2>1. ready'[a] = IF a \in scan[p].r THEN 1 ELSE 0
    BY <1>6 DEF ReplaceReady, Ready!ReplaceWith
  <2>2. CASE a \notin scan[p].r
    BY <1>1, <2>1, <2>2
  <2>3. CASE a \in scan[p].r
    <3>1. scan[p].pc = "find" /\ scan[p].cur = NoAddr /\ a \notin scan[p].b
      BY <1>0, <1>6, <2>3 DEF ScanOK, ReplaceReady
    <3>2. scan'[p].cur = NoAddr /\ a \notin scan'[p].b
      BY <1>0, <1>6, <3>1 DEF ReplaceReady, TypeOK
    <3>3. p \notin Scanners(a)'
      BY <3>2, NoAddrAssumption DEF Scanners
    <3>4. p \in Checks' \cup {DnsTask}
      <4>1. CASE p \in Callers
        <5>1. scan[p] # Idle
          BY <3>1 DEF Idle
        <5>2. call[p].pc = "select" /\ call' = call
          BY <1>6, <4>1, <5>1 DEF Sound, Local, CallOK, ReplaceReady
        <5> QED
          BY <4>1, <5>2 DEF Checks
      <4>2. CASE p \notin Callers
        BY <4>2 DEF Checkers
      <4> QED
        BY <4>1, <4>2
    <3> QED
      BY <1>0, <2>1, <2>3, <3>3, <3>4 DEF Roomy
  <2> QED
    BY <2>2, <2>3
<1>7. CASE ReplaceBroken(p)
  <2>1. /\ ready' = ready /\ testing' = testing /\ broken' = scan[p].b
        /\ scan' = [scan EXCEPT ![p] = Idle] /\ ScanOver(p)
    BY <1>7 DEF ReplaceBroken, Broken!ReplaceWith, ScanOver
  <2>2. Scanners(a)' = Scanners(a) \ {p}
    BY <1>0, <2>1, ResetScan
  <2>3. Reporters(a)' = Reporters(a) /\ Recheckers(a)' = Recheckers(a)
    BY <1>0, <2>1, ScanOverSlots
  <2>4. CASE a \in scan[p].b
    <3>1. p \in Scanners(a)
      BY <2>4 DEF Scanners
    <3>2. Stock(a)' <= Stock(a) + 1
      BY <1>0, <2>1 DEF Stock, One, TypeOK
    <3>3. \E q \in Scanners(a) : q \notin Scanners(a)'
      BY <2>2, <3>1
    <3> QED
      BY <1>2, <2>2, <2>3, <3>2, <3>3, HandedIn
  <2>5. CASE a \notin scan[p].b
    <3>1. Stock(a)' <= Stock(a)
      BY <1>0, <2>1, <2>5 DEF Stock, One, TypeOK
    <3> QED
      BY <1>2, <2>2, <2>3, <3>1, Kept
  <2> QED
    BY <2>4, <2>5
<1> QED
  BY <1>3, <1>4, <1>5, <1>6, <1>7 DEF check_dns

\* The doctor moves an address from one store to the other.
LEMMA BoundedBackground ==
  ASSUME Sound, Sound', Bounded, Background, NEW a \in Addr
  PROVE  Owed(a)' <= Cardinality(Callers) + 4
<1> DEFINE Goal == Owed(a)' <= Cardinality(Callers) + 4
<1> SUFFICES Goal
  OBVIOUS
<1>0. TypeOK /\ TypeOK'
  BY DEF Sound
<1>1. Stock(a)' \in Nat
  BY <1>0 DEF TypeOK, Stock, One
<1>2. ASSUME call' = call, Scanners(a)' \subseteq Scanners(a), Stock(a)' <= Stock(a)
      PROVE  Goal
  <2>1. Reporters(a)' = Reporters(a) /\ Recheckers(a)' = Recheckers(a)
    BY <1>2, SameSlots
  <2> QED
    BY <1>1, <1>2, <2>1, Kept
<1>3. CASE DnsTick
  <2>1. call' = call /\ UNCHANGED stores /\ scan' = [scan EXCEPT ![DnsTask] = Started]
    BY <1>3 DEF DnsTick
  <2>2. DnsTask \in Checkers
    BY DEF Checkers
  <2>3. Scanners(a)' \subseteq Scanners(a)
    BY <1>0, <2>1, <2>2, ResetScan
  <2> QED
    BY <1>2, <2>1, <2>3, SameStock
<1>4. CASE ZoneChange \/ Expire
  <2>1. call' = call /\ scan' = scan /\ UNCHANGED stores
    BY <1>4 DEF ZoneChange, Expire
  <2> QED
    BY <1>2, <2>1, SameStock, SameScans
<1>5. CASE NextBroken
  <2>1. call' = call /\ scan' = scan /\ ready' = ready
    BY <1>5 DEF NextBroken
  <2>2. Stock(a)' <= Stock(a)
    BY <1>0, <1>5, <2>1, NoAddrAssumption DEF NextBroken, Broken!NextBroken, Stock, One, TypeOK
  <2> QED
    BY <1>2, <2>1, <2>2, SameScans
<1>6. CASE DoctorConnected
  <2>1. call' = call /\ scan' = scan
    BY <1>6 DEF DoctorConnected
  <2>2. Stock(a)' <= Stock(a)
    <3>1. testing \in Addr /\ testing' = NoAddr /\ broken' = broken /\ ready' = [ready EXCEPT ![testing] = @ + 1]
      BY <1>0, <1>6 DEF DoctorConnected, Broken!Tested, Ready!Add, TypeOK
    <3> QED
      BY <1>0, <3>1, NoAddrAssumption DEF Stock, One, TypeOK
  <2> QED
    BY <1>2, <2>1, <2>2, SameScans
<1>7. CASE DoctorFailed
  <2>1. call' = call /\ scan' = scan /\ ready' = ready
    BY <1>7 DEF DoctorFailed
  <2>2. Stock(a)' <= Stock(a)
    BY <1>0, <1>7, <2>1, NoAddrAssumption DEF DoctorFailed, Broken!TestFailed, Stock, One, TypeOK
  <2> QED
    BY <1>2, <2>1, <2>2, SameScans
<1> QED
  BY <1>3, <1>4, <1>5, <1>6, <1>7, BoundedScan DEF Background

\* Callers: a report takes a channel for its slot, or there was none; a forced
\* check takes its slots when the pool is empty.
LEMMA BoundedCaller ==
  ASSUME Sound, Sound', Bounded, NEW c \in Callers, NEW a \in Addr,
         GetAny(c) \/ get_channel(c) \/ RequestDone(c) \/ ReportRemove(c) \/ ReportAdd(c) \/ Cancel(c)
  PROVE  Owed(a)' <= Cardinality(Callers) + 4
<1> DEFINE Goal == Owed(a)' <= Cardinality(Callers) + 4
<1> SUFFICES Goal
  OBVIOUS
<1>0. /\ TypeOK /\ TypeOK' /\ CallOK(call[c], scan[c]) /\ Roomy' /\ c \in Checkers
      /\ AtRest.pc = "idle" /\ AtRest.rechecks = {}
  BY RoomyNext DEF Sound, Local, Checkers, AtRest
<1>1. ASSUME ready'[a] = 0
      PROVE  Goal
  BY <1>0, <1>1 DEF Roomy
<1>2. Stock(a)' \in Nat
  BY <1>0 DEF TypeOK, Stock, One
<1>3. ASSUME \/ scan' = scan
             \/ scan' = [scan EXCEPT ![c] = Idle]
             \/ scan' = [scan EXCEPT ![c] = Started]
      PROVE  Scanners(a)' \subseteq Scanners(a)
  BY <1>0, <1>3, SameScans, ResetScan
<1>4. ASSUME NEW o, o.pc \in {"idle", "gate"}, o.rechecks = {}, GiveAnyOr(c, o)
      PROVE  /\ \A d \in Callers \ {c} : call'[d] = call[d]
             /\ call'[c].pc \notin {"report", "spawn"} /\ call'[c].rechecks = {}
  BY <1>0, <1>4 DEF GiveAnyOr, AtRest, TypeOK
<1>5. ASSUME UNCHANGED stores, Scanners(a)' \subseteq Scanners(a),
             \A d \in Callers \ {c} : call'[d] = call[d],
             call'[c].pc \notin {"report", "spawn"}, call'[c].rechecks = {}
      PROVE  Goal
  BY <1>5, GivenUpSlots, SameStock, Kept
<1> HIDE DEF Goal
<1>6. CASE GetAny(c)
  <2> DEFINE o == [AtRest EXCEPT !.pc = "gate"]
  <2>1. o.pc = "gate" /\ o.rechecks = {}
    BY DEF AtRest
  <2>2. GiveAnyOr(c, o) /\ UNCHANGED stores /\ scan' = scan
    BY <1>6 DEF GetAny
  <2> HIDE DEF o
  <2> QED
    BY <1>3, <1>4, <1>5, <2>1, <2>2
<1>7. CASE LockedFound(c) \/ Return(c) \/ LastGetAny(c)
  <2>1. GiveAnyOr(c, AtRest) /\ UNCHANGED stores /\ (scan' = scan \/ scan' = [scan EXCEPT ![c] = Idle])
    BY <1>7 DEF LockedFound, Return, LastGetAny, Ended
  <2> QED
    BY <1>0, <1>3, <1>4, <1>5, <2>1
<1>8. CASE TryRead(c) \/ Enqueue(c) \/ Joined(c)
  <2>1. UNCHANGED stores /\ scan' = scan /\ \A d \in Callers \ {c} : call'[d] = call[d]
    BY <1>0, <1>8 DEF TryRead, Enqueue, Joined, TypeOK
  <2>2. call[c].rechecks = {}
    BY <1>0, <1>8 DEF TryRead, Enqueue, Joined, CallOK
  <2>3. call'[c].pc \notin {"report", "spawn"} /\ call'[c].rechecks = {}
    <3>1. CASE TryRead(c)
      BY <1>0, <2>2, <3>1 DEF TryRead, TypeOK
    <3>2. CASE Enqueue(c)
      BY <1>0, <2>2, <3>2 DEF Enqueue, TypeOK
    <3>3. CASE Joined(c)
      BY <1>0, <2>2, <3>3 DEF Joined, TypeOK
    <3> QED
      BY <1>8, <3>1, <3>2, <3>3
  <2> QED
    BY <1>3, <1>5, <2>1, <2>3
<1>9. CASE RequestDone(c) \/ Cancel(c)
  <2>1. /\ UNCHANGED stores /\ (scan' = scan \/ scan' = [scan EXCEPT ![c] = Idle])
        /\ call' = [call EXCEPT ![c] = AtRest]
    BY <1>9 DEF RequestDone, Cancel, Ended
  <2>2. /\ \A d \in Callers \ {c} : call'[d] = call[d]
        /\ call'[c].pc \notin {"report", "spawn"} /\ call'[c].rechecks = {}
    BY <1>0, <2>1 DEF TypeOK
  <2> QED
    BY <1>3, <1>5, <2>1, <2>2
<1>10. CASE LockedEmpty(c)
  <2>1. ready' = ready /\ ready[a] \in Nat /\ ~(ready[a] > 0)
    BY <1>0, <1>10 DEF LockedEmpty, Ready!Available, stores, TypeOK
  <2> QED
    BY <1>1, <2>1
<1>11. CASE SpawnRechecks(c)
  <2>1. /\ UNCHANGED stores /\ scan' = [scan EXCEPT ![c] = Started] /\ call[c].pc = "spawn"
        /\ \A d \in Callers \ {c} : call'[d] = call[d]
        /\ call'[c].pc = "select"
    BY <1>0, <1>11 DEF SpawnRechecks, TypeOK
  <2>2. Reporters(a)' \subseteq Reporters(a) /\ Recheckers(a)' \subseteq Recheckers(a)
    BY <2>1 DEF Reporters, Recheckers
  <2> QED
    BY <1>3, <2>1, <2>2, SameStock, Kept DEF Goal
<1>12. ASSUME NEW x \in Addr, Recheck(c, x)
       PROVE  Goal
  <2>1. /\ scan' = scan /\ x \in call[c].rechecks /\ testing' = testing
        /\ \A d \in Callers \ {c} : call'[d] = call[d]
        /\ call'[c].pc = call[c].pc /\ call'[c].addr = call[c].addr
        /\ call'[c].rechecks = call[c].rechecks \ {x}
    BY <1>0, <1>12 DEF Recheck, Broken!AddAddress, TypeOK
  <2>2. Reporters(a)' \subseteq Reporters(a) /\ Recheckers(a)' \subseteq Recheckers(a)
    BY <2>1 DEF Reporters, Recheckers
  <2>3. Scanners(a)' \subseteq Scanners(a)
    BY <1>3, <2>1
  <2>4. \/ ready' = [ready EXCEPT ![x] = @ + 1] /\ broken' = broken
        \/ broken' = broken \cup {x} /\ ready' = ready
    BY <1>12 DEF Recheck, Ready!Add, Broken!AddAddress
  <2>5. CASE x = a
    <3>1. Stock(a)' <= Stock(a) + 1
      BY <1>0, <2>1, <2>4, <2>5 DEF Stock, One, TypeOK
    <3>2. call[c].pc = "select"
      BY <1>0, <2>1 DEF CallOK
    <3>3. c \in Recheckers(a) /\ c \notin Recheckers(a)'
      BY <2>1, <2>5, <3>2 DEF Recheckers
    <3> QED
      BY <1>2, <2>2, <2>3, <3>1, <3>3, HandedIn DEF Goal
  <2>6. CASE x # a
    <3>1. Stock(a)' <= Stock(a)
      BY <1>0, <2>1, <2>4, <2>6 DEF Stock, One, TypeOK
    <3> QED
      BY <1>2, <2>2, <2>3, <3>1, Kept DEF Goal
  <2> QED
    BY <2>5, <2>6
<1>13. CASE ReportRemove(c)
  <2>1. /\ scan' = scan /\ broken' = broken /\ testing' = testing
        /\ call[c].pc = "have" /\ call[c].addr \in Addr
        /\ ready' = [ready EXCEPT ![call[c].addr] = IF @ > 0 THEN @ - 1 ELSE 0]
        /\ \A d \in Callers \ {c} : call'[d] = call[d]
        /\ call'[c].pc = "report" /\ call'[c].addr = call[c].addr
        /\ call'[c].rechecks = call[c].rechecks
    BY <1>0, <1>13 DEF ReportRemove, Ready!Remove, CallOK, TypeOK
  <2>2. Recheckers(a)' \subseteq Recheckers(a)
    BY <2>1 DEF Recheckers
  <2>3. Scanners(a)' \subseteq Scanners(a)
    BY <1>3, <2>1
  <2>4. CASE call[c].addr = a /\ ready[a] > 0
    <3>1. Stock(a)' + 1 <= Stock(a)
      BY <1>0, <2>1, <2>4 DEF Stock, One, TypeOK
    <3>2. Reporters(a)' \subseteq Reporters(a) \cup {c}
      BY <2>1 DEF Reporters
    <3> QED
      BY <1>2, <2>2, <2>3, <3>1, <3>2, TakenOut DEF Goal
  <2>5. CASE call[c].addr = a /\ ~(ready[a] > 0)
    BY <1>0, <1>1, <2>1, <2>5 DEF TypeOK
  <2>6. CASE call[c].addr # a
    <3>1. Stock(a)' <= Stock(a)
      BY <1>0, <2>1, <2>6 DEF Stock, One, TypeOK
    <3>2. Reporters(a)' \subseteq Reporters(a)
      BY <2>1, <2>6 DEF Reporters
    <3> QED
      BY <1>2, <2>2, <2>3, <3>1, <3>2, Kept DEF Goal
  <2> QED
    BY <2>4, <2>5, <2>6
<1>14. CASE ReportAdd(c)
  <2>1. /\ scan' = scan /\ ready' = ready /\ testing' = testing
        /\ call[c].pc = "report" /\ broken' = broken \cup {call[c].addr}
        /\ \A d \in Callers \ {c} : call'[d] = call[d]
        /\ call'[c].pc = "idle" /\ call'[c].rechecks = {}
    BY <1>0, <1>14 DEF ReportAdd, Broken!AddAddress, TypeOK
  <2>2. Reporters(a)' \subseteq Reporters(a) /\ Recheckers(a)' \subseteq Recheckers(a)
    BY <2>1, GivenUpSlots
  <2>3. Scanners(a)' \subseteq Scanners(a)
    BY <1>3, <2>1
  <2>4. CASE call[c].addr = a
    <3>1. Stock(a)' <= Stock(a) + 1
      BY <1>0, <2>1 DEF Stock, One, TypeOK
    <3>2. c \in Reporters(a) /\ c \notin Reporters(a)'
      BY <2>1, <2>4 DEF Reporters
    <3> QED
      BY <1>2, <2>2, <2>3, <3>1, <3>2, HandedIn DEF Goal
  <2>5. CASE call[c].addr # a
    <3>1. Stock(a)' <= Stock(a)
      BY <1>0, <2>1, <2>5 DEF Stock, One, TypeOK
    <3> QED
      BY <1>2, <2>2, <2>3, <3>1, Kept DEF Goal
  <2> QED
    BY <2>4, <2>5
<1> QED
  BY <1>6, <1>7, <1>8, <1>9, <1>10, <1>11, <1>12, <1>13, <1>14 DEF get_channel

\* A new pool owes nothing.
LEMMA BoundedInit == Init => Bounded
<1> SUFFICES ASSUME Init, NEW a \in Addr
             PROVE  Owed(a) <= Cardinality(Callers) + 4
  BY DEF Bounded
<1>1. Roomy
  BY SoundInit, AlwaysRoomy
<1>2. ready[a] = 0
  BY DEF Init, Ready!Empty
<1> QED
  BY <1>1, <1>2 DEF Roomy

\* No step exceeds what is owed.
LEMMA BoundedStep == Sound /\ Bounded /\ [Next]_vars => Bounded'
<1> SUFFICES ASSUME Sound, Bounded, [Next]_vars, NEW a \in Addr
             PROVE  Owed(a)' <= Cardinality(Callers) + 4
  BY DEF Bounded
<1>1. Sound'
  BY SoundStep
<1>2. CASE UNCHANGED vars
  <2>1. UNCHANGED stores /\ call' = call /\ scan' = scan
    BY <1>2 DEF vars, stores
  <2> QED
    BY <2>1, SameStock, SameSlots, SameScans, Kept
<1> QED
  BY <1>1, <1>2, BoundedBackground, BoundedCaller DEF Next

\* The invariant holds of a new pool ...
LEMMA PoolInvInit == Init => PoolInv
BY SoundInit, BoundedInit DEF Sound, PoolInv

\* ... and is kept by every step of either task and of every caller.
LEMMA PoolInvStep == PoolInv /\ [Next]_vars => PoolInv'
<1>1. PoolInv <=> Sound /\ Bounded
  BY DEF Sound, PoolInv
<1>2. PoolInv' <=> Sound' /\ Bounded'
  BY DEF Sound, PoolInv
<1> QED
  BY <1>1, <1>2, SoundStep, BoundedStep

\* The stores, the checks and the calls stay as one another relies on them to
\* be, with any number of callers that may be cancelled at any await: the
\* invariant that the bound on the channels rests on (get_channel, check_dns,
\* report_broken, recheck_broken_endpoint).
THEOREM PoolInvariant == Spec => []PoolInv
BY PoolInvInit, PoolInvStep, PTL DEF Spec

\* The channels are among what is owed.
LEMMA OwedBounds == PoolInv => PoolBounded
<1> SUFFICES ASSUME PoolInv, NEW a \in Addr
             PROVE  ready[a] <= Cardinality(Callers) + 4
  BY DEF PoolBounded
<1>1. Sound /\ Owed(a) <= Cardinality(Callers) + 4
  BY DEF PoolInv, Sound, Bounded
<1>2. ready[a] \in Nat
  BY <1>1 DEF Sound, TypeOK
<1> QED
  BY <1>1, <1>2, Slots DEF Owed, One

\* However many reports, checks and cancellations there are, there are never
\* more than four channels to an address beyond one per caller: what may add
\* one is a report, a forced check, a DNS check, the store or the doctor, and
\* it adds one for each time it was given the address (report_broken,
\* recheck_broken_endpoint, check_dns).
THEOREM ChannelsBounded == Spec => []PoolBounded
BY OwedBounds, PoolInvariant, PTL

=============================================================================
