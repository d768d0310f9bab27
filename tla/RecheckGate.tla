----------------------------- MODULE RecheckGate ------------------------------
(***************************************************************************)
(* RECHECK_BROKEN_ENDPOINTS, the lock that forced checks of get_channel    *)
(* take (soda-pool/src/pool.rs), without the pools: a static, so there is  *)
(* one for all pools of a process.  ManagedChannelPool implements it for   *)
(* the callers of one pool; PoolProcess uses it for those of several.      *)
(*                                                                         *)
(* tokio's RwLock is fair: write() queues, and try_read fails while        *)
(* anybody holds the write lock or queues for it.                          *)
(***************************************************************************)
EXTENDS Sequences, SequencesExt

CONSTANT Callers   (* tasks that call get_channel                          *)

VARIABLES
  gate,    (* the queue for the write lock, the holder first               *)
  recent,  (* less than MIN_INTERVAL since the stored time                 *)
  stage    (* where each caller is with the lock                           *)

gateVars == <<gate, recent, stage>>

\* "want" and "join": the branch taken after try_read; "write" and "wait": in
\* the queue on it; "check": the forced check.
Stages == {"out", "want", "join", "write", "wait", "check"}

GateTypeOK ==
  /\ gate \in Seq(Callers)
  /\ recent \in BOOLEAN
  /\ stage \in [Callers -> Stages]

GateInit ==
  /\ gate = <<>>
  /\ recent = FALSE
  /\ stage = [c \in Callers |-> "out"]

HoldsGate(c) == gate # <<>> /\ Head(gate) = c

Go(c, s) == stage' = [stage EXCEPT ![c] = s]

\* try_read, by a caller that found no channel and will not return None.
TryRead(c) ==
  /\ stage[c] = "out"
  /\ \/ gate # <<>> /\ Go(c, "join")
     \/ gate = <<>> /\ ~recent /\ Go(c, "want")
  /\ UNCHANGED <<gate, recent>>

\* The first poll of write().
Enqueue(c) ==
  /\ stage[c] \in {"want", "join"}
  /\ gate' = Append(gate, c)
  /\ Go(c, IF stage[c] = "want" THEN "write" ELSE "wait")
  /\ UNCHANGED recent

\* Mutant: the guard is dropped at once.
StartUnguarded(c) ==
  /\ stage[c] = "write"
  /\ HoldsGate(c)
  /\ recent' = TRUE
  /\ Go(c, "check")
  /\ gate' = Tail(gate)

\* The lock is granted, there is still no channel: the time is stored and the
\* check begins.
Start(c) ==
  /\ stage[c] = "write"
  /\ HoldsGate(c)
  /\ recent' = TRUE
  /\ Go(c, "check")
  /\ UNCHANGED gate

\* Mutant: who leaves before its turn keeps its place.
LeaveInQueue(c) ==
  /\ stage[c] \in {"write", "wait", "check"}
  /\ gate' = IF HoldsGate(c) THEN Tail(gate) ELSE gate
  /\ Go(c, "out")
  /\ UNCHANGED recent

\* The guard, or the place in the queue, is given up: a channel was found on
\* the lock, the check is over, the wait was all there was to do, or the
\* future is dropped.
Leave(c) ==
  /\ stage[c] \in {"write", "wait", "check"}
  /\ gate' = RemoveFirst(gate, c)
  /\ Go(c, "out")
  /\ UNCHANGED recent

\* MIN_INTERVAL has passed.
Expire == recent /\ recent' = FALSE /\ UNCHANGED <<gate, stage>>

GateNext ==
  \/ Expire
  \/ \E c \in Callers : TryRead(c) \/ Enqueue(c) \/ Start(c) \/ Leave(c)

GateSpec == GateInit /\ [][GateNext]_gateVars

-----------------------------------------------------------------------------
\* The queue holds exactly those that wait for the lock or check under it, and
\* each of them once.
Queued ==
  /\ \A i, j \in DOMAIN gate : gate[i] = gate[j] => i = j
  /\ \A c \in Callers :
       stage[c] \in {"write", "wait", "check"} <=> \E i \in DOMAIN gate : gate[i] = c

\* No two forced checks run at a time in the process, of one pool or of two,
\* however callers queue up, give up or are cancelled (_guard in get_channel).
OneCheck == \A c \in Callers : stage[c] = "check" => HoldsGate(c)

=============================================================================
