-------------------------- MODULE PoolProcessProofs --------------------------
(***************************************************************************)
(* PoolProcess for any pools and any finite set of callers: each count of  *)
(* an Arc<AbortOnDrop> is the number of pool values that still have their  *)
(* reference, so the step that aborts a task is that of the last holder.   *)
(***************************************************************************)
EXTENDS PoolProcess, RecheckGateProofs, FiniteSetTheorems

\* The callers whose value of pool p still has its reference to task t.
Holders(p, t) == {c \in Callers : own[c] = p /\ (c \in drops => t = "doctor")}

PoolsTypeOK ==
  /\ own \in [Callers -> Pools \cup {NoPool}]
  /\ drops \subseteq Callers
  /\ arcs \in [Pools -> [Tasks -> Nat]]
  /\ task \in [Pools -> [Tasks -> TaskStates]]

\* The counts are exact.
Counted == \A p \in Pools : \A t \in Tasks : arcs[p][t] = Cardinality(Holders(p, t))

\* A half dropped value is a value, and a value is of a pool that was built.
Built ==
  /\ \A c \in drops : own[c] # NoPool
  /\ \A c \in Callers : \A t \in Tasks : own[c] # NoPool => task[own[c]][t] # "none"

\* A task that runs has a holder.
HeldWhileRunning ==
  \A p \in Pools : \A t \in Tasks : task[p][t] = "running" => Holders(p, t) # {}

PoolsInv == PoolsTypeOK /\ Counted /\ Built /\ AliveWhileHeld /\ HeldWhileRunning

ProcessInv == GateInv /\ PoolsInv

-----------------------------------------------------------------------------
\* Holders are counted with natural numbers, up to the number of callers.
LEMMA HoldersFinite ==
  \A p, t : /\ IsFiniteSet(Holders(p, t))
            /\ Cardinality(Holders(p, t)) \in 0 .. Cardinality(Callers)
<1> SUFFICES ASSUME NEW p, NEW t
             PROVE  /\ IsFiniteSet(Holders(p, t))
                    /\ Cardinality(Holders(p, t)) \in 0 .. Cardinality(Callers)
  OBVIOUS
<1>1. Holders(p, t) \in SUBSET Callers
  BY DEF Holders
<1>2. IsFiniteSet(Holders(p, t)) /\ Cardinality(Holders(p, t)) <= Cardinality(Callers)
  BY <1>1, CallersAssumption, FS_Subset
<1>3. Cardinality(Holders(p, t)) \in Nat /\ Cardinality(Callers) \in Nat
  BY <1>2, CallersAssumption, FS_CardinalityType
<1> QED
  BY <1>2, <1>3

\* A strong count is at most the number of callers, since it counts some.
LEMMA TypesFromInv == ProcessInv => TypeOK
<1> SUFFICES ASSUME ProcessInv
             PROVE  TypeOK
  OBVIOUS
<1>1. \A p \in Pools : \A t \in Tasks : arcs[p][t] \in 0 .. Cardinality(Callers)
  BY HoldersFinite DEF ProcessInv, PoolsInv, Counted
<1>2. arcs \in [Pools -> [Tasks -> 0 .. Cardinality(Callers)]]
  BY <1>1 DEF ProcessInv, PoolsInv, PoolsTypeOK
<1> QED
  BY <1>2 DEF ProcessInv, PoolsInv, PoolsTypeOK, TypeOK, GateInv

\* No pool is there at first.
LEMMA InitInv == Init => ProcessInv
<1> SUFFICES ASSUME Init
             PROVE  ProcessInv
  OBVIOUS
<1>1. GateInv
  BY GateInitInv DEF Init
<1>2. PoolsTypeOK /\ Built /\ AliveWhileHeld /\ HeldWhileRunning
  BY DEF Init, PoolsTypeOK, Built, AliveWhileHeld, HeldWhileRunning, Holds, TaskStates
<1>3. ASSUME NEW p \in Pools, NEW t \in Tasks
      PROVE  arcs[p][t] = Cardinality(Holders(p, t))
  <2>1. Holders(p, t) = {}
    BY NoPoolAssumption DEF Init, Holders
  <2> QED
    BY <2>1, FS_EmptySet DEF Init
<1> QED
  BY <1>1, <1>2, <1>3 DEF ProcessInv, PoolsInv, Counted

-----------------------------------------------------------------------------
(* The steps.                                                              *)

\* build: nobody held the pool, and the builder holds it once.
LEMMA BuildInv ==
  ASSUME PoolsInv, NEW c \in Callers, NEW p \in Pools, build(c, p)
  PROVE  PoolsInv'
<1> USE DEF PoolsInv
<1>1. PoolsTypeOK'
  BY DEF PoolsTypeOK, build, TaskStates
<1>2. \A d \in Callers : own[d] # p
  <2>1. "dns" \in Tasks /\ task[p]["dns"] = "none" /\ p # NoPool
    BY NoPoolAssumption DEF build, Tasks
  <2> QED
    BY <2>1 DEF Built
<1>3. c \notin drops /\ c \notin drops'
  BY DEF Built, build
<1>4. Built' /\ AliveWhileHeld'
  BY <1>2, <1>3, NoPoolAssumption DEF Built, AliveWhileHeld, Holds, build, PoolsTypeOK
<1>5. ASSUME NEW q \in Pools, NEW t \in Tasks
      PROVE  arcs'[q][t] = Cardinality(Holders(q, t)')
  <2>1. CASE q = p
    <3>1. Holders(q, t)' = {c}
      BY <2>1, <1>2, <1>3, NoPoolAssumption DEF Holders, build, PoolsTypeOK
    <3> QED
      BY <2>1, <3>1, FS_Singleton DEF build, PoolsTypeOK
  <2>2. CASE q # p
    <3>1. Holders(q, t)' = Holders(q, t)
      BY <2>2, NoPoolAssumption DEF Holders, build, PoolsTypeOK
    <3> QED
      BY <2>2, <3>1 DEF build, PoolsTypeOK, Counted
  <2> QED
    BY <2>1, <2>2
<1>6. HeldWhileRunning'
  <2>1. c \in Holders(p, "dns")' /\ c \in Holders(p, "doctor")'
    BY <1>3 DEF Holders, build, PoolsTypeOK
  <2>2. ASSUME NEW q \in Pools, NEW t \in Tasks, q # p
        PROVE  task'[q] = task[q] /\ Holders(q, t)' = Holders(q, t)
    BY <2>2, NoPoolAssumption DEF Holders, build, PoolsTypeOK
  <2>3. ASSUME NEW q \in Pools, NEW t \in Tasks, task'[q][t] = "running"
        PROVE  Holders(q, t)' # {}
    BY <2>1, <2>2, <2>3 DEF HeldWhileRunning, Tasks
  <2> QED
    BY <2>3 DEF HeldWhileRunning
<1> QED
  BY <1>1, <1>4, <1>5, <1>6 DEF Counted

\* Clone: one more holder of both tasks.
LEMMA CloneInv ==
  ASSUME PoolsInv, NEW c \in Callers, NEW d \in Callers, clone(c, d)
  PROVE  PoolsInv'
<1> USE DEF PoolsInv
<1> DEFINE p == own[c]
<1>1. p \in Pools /\ c \notin drops
  BY DEF PoolsTypeOK, clone, Usable
<1>2. PoolsTypeOK'
  BY <1>1 DEF PoolsTypeOK, clone
<1>3. d \notin drops /\ d \notin drops'
  BY DEF Built, clone
<1>4. Built' /\ AliveWhileHeld'
  BY <1>1, <1>3, NoPoolAssumption DEF Built, AliveWhileHeld, Holds, clone, PoolsTypeOK
<1>5. ASSUME NEW q \in Pools, NEW t \in Tasks
      PROVE  arcs'[q][t] = Cardinality(Holders(q, t)')
  <2>1. CASE q = p
    <3>1. Holders(q, t)' = Holders(q, t) \cup {d} /\ d \notin Holders(q, t)
      BY <2>1, <1>1, <1>3, NoPoolAssumption DEF Holders, clone, PoolsTypeOK
    <3>2. arcs'[q][t] = arcs[q][t] + 1
      BY <2>1, <1>1 DEF clone, PoolsTypeOK
    <3>3. Cardinality(Holders(q, t) \cup {d}) = Cardinality(Holders(q, t)) + 1
      BY <3>1, FS_AddElement, HoldersFinite
    <3>4. arcs[q][t] = Cardinality(Holders(q, t))
      BY DEF Counted
    <3> QED
      BY <3>1, <3>2, <3>3, <3>4
  <2>2. CASE q # p
    <3>1. Holders(q, t)' = Holders(q, t)
      BY <2>2, <1>1, NoPoolAssumption DEF Holders, clone, PoolsTypeOK
    <3> QED
      BY <2>2, <3>1 DEF clone, PoolsTypeOK, Counted
  <2> QED
    BY <2>1, <2>2
<1>6. HeldWhileRunning'
  <2>1. task' = task
    BY DEF clone
  <2>2. ASSUME NEW q \in Pools, NEW t \in Tasks
        PROVE  Holders(q, t) \subseteq Holders(q, t)'
    BY <1>3, NoPoolAssumption DEF Holders, clone, PoolsTypeOK
  <2>3. ASSUME NEW q \in Pools, NEW t \in Tasks, task'[q][t] = "running"
        PROVE  Holders(q, t)' # {}
    BY <2>1, <2>2, <2>3 DEF HeldWhileRunning
  <2> QED
    BY <2>3 DEF HeldWhileRunning
<1> QED
  BY <1>2, <1>4, <1>5, <1>6 DEF Counted

\* A finite set without one of its elements has one fewer.
LEMMA OneFewerHolder ==
  ASSUME NEW S, IsFiniteSet(S), NEW x \in S
  PROVE  Cardinality(S \ {x}) = Cardinality(S) - 1
BY FS_RemoveElement

\* One Arc is dropped: the count stays exact, a task that is aborted has no
\* holder left, and one that goes on has some (Drop of AbortOnDrop).
LEMMA ReleaseCounts ==
  ASSUME PoolsInv, NEW c \in Callers, NEW t \in Tasks, NEW p \in Pools,
         c \in Holders(p, t), release(p, t),
         Holders(p, t)' = Holders(p, t) \ {c},
         \A q \in Pools : \A u \in Tasks :
           ~(q = p /\ u = t) => Holders(q, u)' = Holders(q, u)
  PROVE  /\ Counted'
         /\ arcs' \in [Pools -> [Tasks -> Nat]]
         /\ task' \in [Pools -> [Tasks -> TaskStates]]
         /\ \A q \in Pools : \A u \in Tasks :
              task'[q][u] # task[q][u] =>
                /\ q = p /\ u = t /\ Holders(q, u)' = {}
                /\ task'[q][u] = "aborted" /\ task[q][u] = "running"
         /\ HeldWhileRunning'
<1> USE DEF PoolsInv
<1>1. Cardinality(Holders(p, t)) = arcs[p][t] /\ IsFiniteSet(Holders(p, t))
  BY HoldersFinite DEF Counted
<1>2. Cardinality(Holders(p, t)) # 0
  BY <1>1, FS_EmptySet
<1>3. Cardinality(Holders(p, t) \ {c}) = arcs[p][t] - 1
  BY <1>1, OneFewerHolder
<1>4. arcs[p][t] \in Nat /\ arcs[p][t] - 1 \in Nat
  BY <1>1, <1>2 DEF PoolsTypeOK
<1>5. arcs' = [arcs EXCEPT ![p][t] = arcs[p][t] - 1]
  BY DEF release
<1>6. arcs' \in [Pools -> [Tasks -> Nat]]
  BY <1>4, <1>5 DEF PoolsTypeOK
<1>7. ASSUME NEW q \in Pools, NEW u \in Tasks
      PROVE  arcs'[q][u] = Cardinality(Holders(q, u)')
  <2>1. CASE q = p /\ u = t
    BY <2>1, <1>3, <1>5 DEF PoolsTypeOK
  <2>2. CASE ~(q = p /\ u = t)
    <3>1. arcs'[q][u] = arcs[q][u]
      BY <2>2, <1>5 DEF PoolsTypeOK
    <3> QED
      BY <2>2, <3>1 DEF Counted
  <2> QED
    BY <2>1, <2>2
<1>8. task' \in [Pools -> [Tasks -> TaskStates]]
  BY DEF PoolsTypeOK, release, TaskStates
<1>9. ASSUME NEW q \in Pools, NEW u \in Tasks, task'[q][u] # task[q][u]
      PROVE  /\ q = p /\ u = t /\ Holders(q, u)' = {}
             /\ task'[q][u] = "aborted" /\ task[q][u] = "running"
  <2>1. /\ arcs[p][t] = 1 /\ task[p][t] = "running"
        /\ task' = [task EXCEPT ![p][t] = "aborted"]
    BY <1>9 DEF release
  <2>2. q = p /\ u = t /\ task'[q][u] = "aborted"
    BY <2>1, <1>9 DEF PoolsTypeOK
  <2>3. Cardinality(Holders(p, t) \ {c}) = 0 /\ IsFiniteSet(Holders(p, t) \ {c})
    BY <2>1, <1>1, <1>3, FS_RemoveElement
  <2>4. Holders(p, t) \ {c} = {}
    BY <2>3, FS_EmptySet
  <2> QED
    BY <2>1, <2>2, <2>4
<1>10. ASSUME NEW q \in Pools, NEW u \in Tasks, task'[q][u] = "running"
       PROVE  Holders(q, u)' # {}
  <2>1. task[q][u] = "running"
    BY <1>9, <1>10
  <2>2. CASE q = p /\ u = t
    <3>1. arcs[p][t] # 1
      BY <1>10, <2>1, <2>2 DEF release, PoolsTypeOK
    <3>2. Cardinality(Holders(p, t) \ {c}) # 0
      BY <3>1, <1>3, <1>4
    <3> QED
      BY <2>2, <3>2, FS_EmptySet
  <2>3. CASE ~(q = p /\ u = t)
    BY <2>1, <2>3 DEF HeldWhileRunning
  <2> QED
    BY <2>2, <2>3
<1> QED
  BY <1>6, <1>7, <1>8, <1>9, <1>10 DEF Counted, HeldWhileRunning

\* The first field goes: the value has no reference to the resolver task.
LEMMA DropDnsInv ==
  ASSUME PoolsInv, NEW c \in Callers, DropDns(c)
  PROVE  PoolsInv'
<1> USE DEF PoolsInv
<1> PICK p \in Pools : own[c] = p
  BY DEF PoolsTypeOK, DropDns, Usable
<1>1. c \notin drops /\ own' = own /\ drops' = drops \cup {c}
  BY DEF PoolsTypeOK, DropDns, Usable
<1>2. "dns" \in Tasks /\ release(p, "dns")
  BY DEF DropDns, Tasks
<1>3. c \in Holders(p, "dns") /\ Holders(p, "dns")' = Holders(p, "dns") \ {c}
  BY <1>1 DEF Holders
<1>4. ASSUME NEW q \in Pools, NEW u \in Tasks, ~(q = p /\ u = "dns")
      PROVE  Holders(q, u)' = Holders(q, u)
  BY <1>1, <1>4 DEF Holders, Tasks
<1> DEFINE Aborted(q, u) == /\ q = p /\ u = "dns" /\ Holders(q, u)' = {}
                            /\ task'[q][u] = "aborted" /\ task[q][u] = "running"
<1>5. /\ Counted'
      /\ arcs' \in [Pools -> [Tasks -> Nat]]
      /\ task' \in [Pools -> [Tasks -> TaskStates]]
      /\ \A q \in Pools : \A u \in Tasks : task'[q][u] # task[q][u] => Aborted(q, u)
      /\ HeldWhileRunning'
  BY <1>1, <1>2, <1>3, <1>4, ReleaseCounts
<1>6. PoolsTypeOK'
  BY <1>1, <1>5 DEF PoolsTypeOK
<1>7. Built'
  <2>1. \A d \in drops' : own'[d] # NoPool
    BY <1>1, NoPoolAssumption DEF Built, PoolsTypeOK
  <2>2. ASSUME NEW d \in Callers, NEW u \in Tasks, own'[d] # NoPool
        PROVE  task'[own'[d]][u] # "none"
    <3>1. own'[d] = own[d] /\ own[d] \in Pools /\ task[own[d]][u] # "none"
      BY <2>2, <1>1 DEF Built, PoolsTypeOK
    <3> QED
      BY <3>1, <1>5
  <2> QED
    BY <2>1, <2>2 DEF Built
<1>8. AliveWhileHeld'
  BY <1>1, <1>5 DEF AliveWhileHeld, Holds, Holders, PoolsTypeOK
<1> QED
  BY <1>5, <1>6, <1>7, <1>8

\* The second field goes, and the value with it.
LEMMA DropDoctorInv ==
  ASSUME PoolsInv, NEW c \in Callers, DropDoctor(c)
  PROVE  PoolsInv'
<1> USE DEF PoolsInv
<1> PICK p \in Pools : own[c] = p
  BY DEF PoolsTypeOK, Built, DropDoctor
<1>1. /\ c \in drops /\ drops' = drops \ {c}
      /\ own' = [own EXCEPT ![c] = NoPool]
  BY DEF PoolsTypeOK, Built, DropDoctor
<1>2. "doctor" \in Tasks /\ release(p, "doctor")
  BY DEF DropDoctor, Tasks
<1>3. c \in Holders(p, "doctor") /\ Holders(p, "doctor")' = Holders(p, "doctor") \ {c}
  BY <1>1, NoPoolAssumption DEF Holders, PoolsTypeOK
<1>4. ASSUME NEW q \in Pools, NEW u \in Tasks, ~(q = p /\ u = "doctor")
      PROVE  Holders(q, u)' = Holders(q, u)
  BY <1>1, <1>4, NoPoolAssumption DEF Holders, PoolsTypeOK
<1> DEFINE Aborted(q, u) == /\ q = p /\ u = "doctor" /\ Holders(q, u)' = {}
                            /\ task'[q][u] = "aborted" /\ task[q][u] = "running"
<1>5. /\ Counted'
      /\ arcs' \in [Pools -> [Tasks -> Nat]]
      /\ task' \in [Pools -> [Tasks -> TaskStates]]
      /\ \A q \in Pools : \A u \in Tasks : task'[q][u] # task[q][u] => Aborted(q, u)
      /\ HeldWhileRunning'
  BY <1>1, <1>2, <1>3, <1>4, ReleaseCounts
<1>6. PoolsTypeOK'
  BY <1>1, <1>5 DEF PoolsTypeOK
<1>7. Built'
  <2>1. \A d \in drops' : own'[d] # NoPool
    BY <1>1, NoPoolAssumption DEF Built, PoolsTypeOK
  <2>2. ASSUME NEW d \in Callers, NEW u \in Tasks, own'[d] # NoPool
        PROVE  task'[own'[d]][u] # "none"
    <3>1. own'[d] = own[d] /\ own[d] \in Pools /\ task[own[d]][u] # "none"
      BY <2>2, <1>1 DEF Built, PoolsTypeOK
    <3> QED
      BY <3>1, <1>5
  <2> QED
    BY <2>1, <2>2 DEF Built
<1>8. AliveWhileHeld'
  BY <1>1, <1>5 DEF AliveWhileHeld, Holds, Holders, PoolsTypeOK
<1> QED
  BY <1>5, <1>6, <1>7, <1>8

\* A task ends once it was aborted, or dies: nobody loses a reference.
LEMMA TaskInv ==
  ASSUME PoolsInv, NEW p \in Pools, NEW t \in Tasks, End(p, t) \/ Die(p, t)
  PROVE  PoolsInv'
<1> USE DEF PoolsInv
<1>1. PoolsTypeOK'
  <2>1. CASE End(p, t)
    BY <2>1 DEF PoolsTypeOK, End, TaskStates
  <2>2. CASE Die(p, t)
    BY <2>2 DEF PoolsTypeOK, Die, TaskStates
  <2> QED
    BY <2>1, <2>2
<1>2. Counted'
  BY DEF Counted, Holders, End, Die
<1>3. AliveWhileHeld'
  BY DEF AliveWhileHeld, Holds, End, Die, PoolsTypeOK
<1>4. Built'
  <2>1. /\ own' = own /\ drops' = drops
        /\ \A q \in Pools : \A u \in Tasks : task[q][u] # "none" => task'[q][u] # "none"
    BY DEF PoolsTypeOK, End, Die
  <2>2. ASSUME NEW d \in Callers, NEW u \in Tasks, own'[d] # NoPool
        PROVE  task'[own'[d]][u] # "none"
    <3>1. own'[d] = own[d] /\ own[d] \in Pools /\ task[own[d]][u] # "none"
      BY <2>1, <2>2 DEF Built, PoolsTypeOK
    <3> QED
      BY <2>1, <3>1
  <2> QED
    BY <2>1, <2>2 DEF Built
<1>5. HeldWhileRunning'
  <2>1. /\ own' = own /\ drops' = drops
        /\ \A q \in Pools : \A u \in Tasks : task'[q][u] = "running" => task[q][u] = "running"
    BY DEF PoolsTypeOK, End, Die
  <2> QED
    BY <2>1 DEF HeldWhileRunning, Holders
<1> QED
  BY <1>1, <1>2, <1>3, <1>4, <1>5

\* Steps that are not about pools keep their part of the invariant.
LEMMA PoolsStutter == PoolsInv /\ UNCHANGED pools => PoolsInv'
BY DEF pools, PoolsInv, PoolsTypeOK, Counted, Holders, Built, AliveWhileHeld, Holds,
       HeldWhileRunning

\* The pools and their tasks step without the lock, or the lock without them.
LEMMA StepInv == ProcessInv /\ [Next]_vars => ProcessInv'
<1> SUFFICES ASSUME ProcessInv, [Next]_vars
             PROVE  ProcessInv'
  OBVIOUS
<1> USE DEF ProcessInv
<1>1. ASSUME UNCHANGED gateVars
      PROVE  GateInv'
  BY <1>1, GateStep
<1>2. ASSUME NEW c \in Callers, NEW p \in Pools, build(c, p)
      PROVE  ProcessInv'
  BY <1>1, <1>2, BuildInv DEF build
<1>3. ASSUME NEW c \in Callers, NEW d \in Callers, clone(c, d)
      PROVE  ProcessInv'
  BY <1>1, <1>3, CloneInv DEF clone
<1>4. ASSUME NEW c \in Callers, DropDns(c)
      PROVE  ProcessInv'
  BY <1>1, <1>4, DropDnsInv DEF DropDns
<1>5. ASSUME NEW c \in Callers, DropDoctor(c)
      PROVE  ProcessInv'
  BY <1>1, <1>5, DropDoctorInv DEF DropDoctor
<1>6. ASSUME NEW p \in Pools, NEW t \in Tasks, End(p, t) \/ Die(p, t)
      PROVE  ProcessInv'
  BY <1>1, <1>6, TaskInv DEF End, Die
<1>7. ASSUME NEW c \in Callers, TryRead(c) \/ get_channel(c) \/ Cancel(c), UNCHANGED pools
      PROVE  ProcessInv'
  <2>1. GateNext
    BY <1>7 DEF GateNext, get_channel, Cancel
  <2> QED
    BY <1>7, <2>1, GateStep, PoolsStutter
<1>8. ASSUME Expire, UNCHANGED pools
      PROVE  ProcessInv'
  <2>1. GateNext
    BY <1>8 DEF GateNext
  <2> QED
    BY <1>8, <2>1, GateStep, PoolsStutter
<1>9. ASSUME UNCHANGED vars
      PROVE  ProcessInv'
  BY <1>9, <1>1, PoolsStutter DEF vars
<1> QED
  BY <1>2, <1>3, <1>4, <1>5, <1>6, <1>7, <1>8, <1>9 DEF Next

-----------------------------------------------------------------------------
\* Each strong count is the number of values that hold the Arc, and the lock is
\* queued for as get_channel does: the invariant behind the theorems below.
THEOREM InductiveInvariant == Spec => []ProcessInv
BY InitInv, StepInv, PTL DEF Spec

\* The state has its type, and no Arc is dropped below zero or held more often
\* than there are values.
THEOREM TypeCorrect == Spec => []TypeOK
BY InductiveInvariant, TypesFromInv, PTL

\* "continue to run until the last copy is dropped", for any number of pools
\* and clones: a task is aborted only when no value has a reference to it, in
\* whichever order values are cloned and dropped (AbortOnDrop, Clone).
THEOREM NoEarlyAbort == Spec => []AliveWhileHeld
<1>1. ProcessInv => AliveWhileHeld
  BY DEF ProcessInv, PoolsInv
<1> QED
  BY <1>1, InductiveInvariant, PTL

\* "... until the last copy is dropped", for any number of pools and clones: the
\* step that drops the last reference aborts the task, so none runs on without a
\* pool (AbortOnDrop::drop).
THEOREM NoTaskLeftRunning == Spec => []NoOrphan
<1>1. ASSUME ProcessInv
      PROVE  NoOrphan
  <2> SUFFICES ASSUME NEW p \in Pools, NEW t \in Tasks, task[p][t] = "running"
               PROVE  \E c \in Callers : own[c] = p /\ Holds(c, t)
    BY DEF NoOrphan
  <2>1. PICK c \in Holders(p, t) : TRUE
    BY <1>1 DEF ProcessInv, PoolsInv, HeldWhileRunning
  <2> QED
    BY <2>1, NoPoolAssumption DEF Holders, Holds
<1> QED
  BY <1>1, InductiveInvariant, PTL

\* No two forced checks run at a time in the process, of however many pools:
\* the lock is a static of get_channel and its guard outlives the check.
THEOREM OneCheckInProcess == Spec => []OneCheck
<1>1. ProcessInv => OneCheck
  BY DEF ProcessInv, GateInv
<1> QED
  BY <1>1, InductiveInvariant, PTL

=============================================================================
