----------------------------- MODULE PoolProcess ------------------------------
(***************************************************************************)
(* The life of pools in a process (soda-pool/src/pool.rs): build starts    *)
(* the two background tasks, clones share them, and AbortOnDrop, in an Arc *)
(* of its own for each task, aborts a task when the last clone is dropped. *)
(* Calls of get_channel borrow a clone; the lock for forced checks is the  *)
(* process's (RecheckGate).  What the tasks and the calls do to the stores *)
(* is in ManagedChannelPool.                                               *)
(***************************************************************************)
EXTENDS RecheckGate, Naturals, FiniteSets

CONSTANTS
  Pools,    (* the pools the process builds                                *)
  NoPool    (* the absence of one                                          *)

ASSUME NoPoolAssumption == NoPool \notin Pools
ASSUME CallersAssumption == IsFiniteSet(Callers)

\* A caller owns at most one ManagedChannelPool value, a clone or the original.
VARIABLES
  own,    (* the pool that each caller's value belongs to                  *)
  drops,  (* the callers whose value is half dropped                       *)
  arcs,   (* the strong count of each Arc<AbortOnDrop>                     *)
  task    (* the background tasks of each pool                             *)

pools == <<own, drops, arcs, task>>
vars == <<pools, gateVars>>

-----------------------------------------------------------------------------
Tasks == {"dns", "doctor"}

\* "aborted": abort() was called, and the task has not come to an await yet.
\* "died": it panicked; nothing restarts it.
TaskStates == {"none", "running", "aborted", "ended", "died"}

TypeOK ==
  /\ GateTypeOK
  /\ own \in [Callers -> Pools \cup {NoPool}]
  /\ drops \subseteq Callers
  /\ arcs \in [Pools -> [Tasks -> 0 .. Cardinality(Callers)]]
  /\ task \in [Pools -> [Tasks -> TaskStates]]

Init ==
  /\ GateInit
  /\ own = [c \in Callers |-> NoPool]
  /\ drops = {}
  /\ arcs = [p \in Pools |-> [t \in Tasks |-> 0]]
  /\ task = [p \in Pools |-> [t \in Tasks |-> "none"]]

\* ManagedChannelPoolBuilder::build: both tasks are spawned with clones of the
\* stores, and the pool has the only reference to each AbortOnDrop.
build(c, p) ==
  /\ own[c] = NoPool
  /\ task[p] = [t \in Tasks |-> "none"]
  /\ own' = [own EXCEPT ![c] = p]
  /\ arcs' = [arcs EXCEPT ![p] = [t \in Tasks |-> 1]]
  /\ task' = [task EXCEPT ![p] = [t \in Tasks |-> "running"]]
  /\ UNCHANGED <<drops, gateVars>>

Usable(c) == own[c] # NoPool /\ c \notin drops

\* Mutant: the clone does not count as an owner of the doctor.
clone_uncounted(c, d) ==
  /\ Usable(c)
  /\ own[d] = NoPool
  /\ own' = [own EXCEPT ![d] = own[c]]
  /\ arcs' = [arcs EXCEPT ![own[c]]["dns"] = @ + 1]
  /\ UNCHANGED <<drops, task, gateVars>>

\* Clone: the original is borrowed until the clone is complete, so no count
\* is 0 in between and one step will do.
clone(c, d) ==
  /\ Usable(c)
  /\ own[d] = NoPool
  /\ own' = [own EXCEPT ![d] = own[c]]
  /\ arcs' = [arcs EXCEPT ![own[c]] = [t \in Tasks |-> @[t] + 1]]
  /\ UNCHANGED <<drops, task, gateVars>>

\* Mutant: the doctor is not aborted.
release_without_abort(p, t) ==
  /\ arcs' = [arcs EXCEPT ![p][t] = @ - 1]
  /\ task' = IF t = "dns" /\ arcs[p][t] = 1 /\ task[p][t] = "running"
               THEN [task EXCEPT ![p][t] = "aborted"] ELSE task

\* One Arc is dropped; the last one drops AbortOnDrop, which aborts the task.
release(p, t) ==
  /\ arcs' = [arcs EXCEPT ![p][t] = @ - 1]
  /\ task' = IF arcs[p][t] = 1 /\ task[p][t] = "running"
               THEN [task EXCEPT ![p][t] = "aborted"] ELSE task

\* A pool value is dropped, its fields in order.  Another thread may clone or
\* drop its own in between.  A call in progress borrows the value.
DropDns(c) ==
  /\ Usable(c)
  /\ stage[c] = "out"
  /\ release(own[c], "dns")
  /\ drops' = drops \cup {c}
  /\ UNCHANGED <<own, gateVars>>

DropDoctor(c) ==
  /\ c \in drops
  /\ release(own[c], "doctor")
  /\ drops' = drops \ {c}
  /\ own' = [own EXCEPT ![c] = NoPool]
  /\ UNCHANGED gateVars

\* An aborted task comes to an await and ends, letting go of the stores.
End(p, t) ==
  /\ task[p][t] = "aborted"
  /\ task' = [task EXCEPT ![p][t] = "ended"]
  /\ UNCHANGED <<own, drops, arcs, gateVars>>

\* A task panics: the doctor in a full failure counter, either one in an
\* expect() of EndpointTemplate::build.
Die(p, t) ==
  /\ task[p][t] \in {"running", "aborted"}
  /\ task' = [task EXCEPT ![p][t] = "died"]
  /\ UNCHANGED <<own, drops, arcs, gateVars>>

\* get_channel of the caller's pool: joining the queue, and what follows once
\* the lock is granted.
get_channel(c) == Enqueue(c) \/ (HoldsGate(c) /\ (Start(c) \/ Leave(c)))

\* The call is cancelled before its turn.
Cancel(c) == ~HoldsGate(c) /\ Leave(c)

Next ==
  \/ \E c \in Callers : \E p \in Pools : build(c, p)
  \/ \E c, d \in Callers : clone(c, d)
  \/ \E c \in Callers : DropDns(c) \/ DropDoctor(c)
  \/ \E p \in Pools : \E t \in Tasks : End(p, t) \/ Die(p, t)
  \/ \E c \in Callers : Usable(c) /\ (TryRead(c) \/ get_channel(c) \/ Cancel(c)) /\ UNCHANGED pools
  \/ Expire /\ UNCHANGED pools

\* The runtime polls what is ready, checks end, tasks come to their awaits and
\* a value that is being dropped is dropped to its end.  Nobody has to cancel.
Spec ==
  /\ Init /\ [][Next]_vars
  /\ \A p \in Pools : \A t \in Tasks : WF_vars(End(p, t))
  /\ \A c \in Callers : WF_vars(DropDoctor(c)) /\ WF_vars(get_channel(c) /\ UNCHANGED pools)

-----------------------------------------------------------------------------
\* The caller's value still has its reference to the task.
Holds(c, t) == own[c] # NoPool /\ (c \in drops => t = "doctor")

\* "continue to run until the last copy is dropped" (lib.rs): no task is aborted
\* while any clone has its reference, calls in progress on it included, however
\* clones are made and dropped at the same time (Clone, AbortOnDrop).
AliveWhileHeld ==
  \A c \in Callers : \A t \in Tasks : Holds(c, t) => task[own[c]][t] \in {"running", "died"}

\* "... until the last copy is dropped": a task that runs has some clone that
\* still refers to it, so none is left behind when the clones of two threads are
\* dropped at the same time (AbortOnDrop::drop).
NoOrphan ==
  \A p \in Pools : \A t \in Tasks :
    task[p][t] = "running" => \E c \in Callers : own[c] = p /\ Holds(c, t)

\* A pool that was built and of which no clone is left.
Abandoned(p) == task[p]["dns"] # "none" /\ \A c \in Callers : own[c] # p

\* "... until the last copy is dropped": then both tasks end, and with them the
\* last references to the stores, wherever the tasks were (AbortOnDrop::drop;
\* the tasks must own no clone of the pool itself).
TasksEnd ==
  \A p \in Pools : Abandoned(p) ~> \A t \in Tasks : task[p][t] \in {"ended", "died"}

\* A call that queues for the process-wide lock gets through although calls of
\* other pools check before it, are cancelled, or their pools are dropped.
GateServed == \A c \in Callers : stage[c] \in {"want", "join", "write", "wait"} ~> stage[c] = "out"

=============================================================================
