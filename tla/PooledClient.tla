----------------------------- MODULE PooledClient -----------------------------
(***************************************************************************)
(* A method of a generated client: the retry loop of macros.rs             *)
(* (define_method), which soda-pool-build/src/generator.rs generates in    *)
(* the same words, with the retry policies of retry.rs, on top of the pool *)
(* of ManagedChannelPool.  Every caller of the pool makes one request at a *)
(* time.  What a step of the loop does to the pool is the pool's own       *)
(* action.                                                                 *)
(***************************************************************************)
EXTENDS Naturals, FiniteSets

CONSTANTS
  Addr, NoAddr, Callers, DnsTask,   (* as in ManagedChannelPool            *)
  U8Max,   (* the largest value of `tries'; 255 in the code                *)
  Limit    (* the try at which any policy but the default one gives up     *)

ASSUME NoAddrAssumption == NoAddr \notin Addr
ASSUME DnsTaskAssumption == DnsTask \notin Callers
ASSUME CallersAssumption == IsFiniteSet(Callers)
ASSUME U8MaxAssumption == U8Max \in Nat \ {0}
ASSUME LimitAssumption == Limit \in 1 .. U8Max

VARIABLES
  zone, ready, broken, testing, scan, call, gate, recent,  (* the pool     *)
  req     (* each caller's request: where its loop is and its locals       *)

Pool == INSTANCE ManagedChannelPool

pool == <<zone, ready, broken, testing, scan, call, gate, recent>>
vars == <<pool, req>>

-----------------------------------------------------------------------------
\* A status with a source comes from the client library, one without from the
\* server.
Errors == {"transport", "server"}

\* DefaultRetryPolicy, and any other RetryPolicy.
Policies == {"default", "other"}

ServerStatus == {"Alive", "Dead"}
RetryTime == {"DoNotRetry", "Immediately", "After"}

\* RP::should_retry: the possible results.  A policy of the user's may answer
\* as it likes until the try at which it gives up.
should_retry(rp, err, tries) ==
  IF rp = "default"
    THEN IF err = "transport" THEN {<<"Dead", "Immediately">>} ELSE {<<"Alive", "DoNotRetry">>}
    ELSE ServerStatus \X (IF tries < Limit THEN RetryTime ELSE {"DoNotRetry"})

\* No request, the last one having ended with `out'.  `err' is the error of the
\* latest try, `retry' what the policy said to it.
Ended(out) == [pc |-> "none", rp |-> "default", tries |-> 0, err |-> "none",
               retry |-> "DoNotRetry", out |-> out]

Outs == Errors \cup {"none", "ok", "unavailable", "panic", "dropped"}

TypeOK ==
  req \in [Callers -> [pc : {"none", "get", "send", "report", "sleep"}, rp : Policies,
                       tries : 0 .. U8Max, err : Errors \cup {"none"},
                       retry : RetryTime, out : Outs]]

Init == Pool!Init /\ req = [c \in Callers |-> Ended("none")]

Set(c, r) == req' = [req EXCEPT ![c] = r]

-----------------------------------------------------------------------------
\* A call of the method (rp = "default") or of its _with_retry form.
Begin(c, rp) ==
  /\ req[c].pc = "none"
  /\ Set(c, [Ended("none") EXCEPT !.pc = "get", !.rp = rp, !.tries = 1])
  /\ UNCHANGED pool

\* Mutant: a counter without an end.
NextTryWide(c, r) == Set(c, [r EXCEPT !.pc = "get", !.tries = @ + 1])

\* Mutant: the tries are not counted.
NextTryUncounted(c, r) == Set(c, [r EXCEPT !.pc = "get"])

\* The top of the loop again: `tries += 1' on a u8, which wraps or panics at
\* the end of its range, according to the build.
NextTry(c, r) ==
  \/ Set(c, [r EXCEPT !.pc = "get", !.tries = (@ + 1) % (U8Max + 1)])
  \/ r.tries = U8Max /\ Set(c, Ended("panic"))

\* What follows the report, if there is one: return, go on, or sleep first.
AfterError(c, r) ==
  CASE r.retry = "DoNotRetry"  -> Set(c, Ended(r.err))
    [] r.retry = "Immediately" -> NextTry(c, r)
    [] r.retry = "After"       -> Set(c, [r EXCEPT !.pc = "sleep"])

\* Mutant: without a channel the loop goes round again.
GetChannelUntilOne(c) ==
  /\ req[c].pc = "get"
  /\ Pool!GetAny(c) \/ Pool!get_channel(c)
  /\ Set(c, IF call'[c].pc = "have" THEN [req[c] EXCEPT !.pc = "send"] ELSE req[c])

\* A step of pool.get_channel().  It ends with a channel, or with None, which
\* ends the request with a status of the client's own.
GetChannel(c) ==
  /\ req[c].pc = "get"
  /\ Pool!GetAny(c) \/ Pool!get_channel(c)
  /\ Set(c, CASE call'[c].pc = "have"    -> [req[c] EXCEPT !.pc = "send"]
              [] call'[c] = Pool!AtRest  -> Ended("unavailable")
              [] OTHER                   -> req[c])

\* The server answers.
Succeeds(c) ==
  /\ req[c].pc = "send"
  /\ Pool!RequestDone(c)
  /\ Set(c, Ended("ok"))

\* Mutant: the channel is kept in a variable of the loop.
FailsHolding(c) ==
  /\ req[c].pc = "send"
  /\ \E e \in Errors : \E result \in should_retry(req[c].rp, e, req[c].tries) :
       LET r == [req[c] EXCEPT !.err = e, !.retry = result[2]]
       IN  IF result[1] = "Dead"
             THEN Pool!ReportRemove(c) /\ Set(c, [r EXCEPT !.pc = "report"])
             ELSE AfterError(c, r) /\ UNCHANGED pool

\* The try fails and the policy decides; a dead server is reported first.
Fails(c) ==
  /\ req[c].pc = "send"
  /\ \E e \in Errors : \E result \in should_retry(req[c].rp, e, req[c].tries) :
       LET r == [req[c] EXCEPT !.err = e, !.retry = result[2]]
       IN  IF result[1] = "Dead"
             THEN Pool!ReportRemove(c) /\ Set(c, [r EXCEPT !.pc = "report"])
             ELSE Pool!RequestDone(c) /\ AfterError(c, r)

\* The second half of report_broken, and what follows it.
Report(c) ==
  /\ req[c].pc = "report"
  /\ Pool!ReportAdd(c)
  /\ AfterError(c, req[c])

\* The sleep of RetryTime::After is over.
Wake(c) ==
  /\ req[c].pc = "sleep"
  /\ NextTry(c, req[c])
  /\ UNCHANGED pool

\* The future of the request is dropped at one of its awaits.
Drop(c) ==
  /\ \/ Pool!Cancel(c)
     \/ req[c].pc = "send" /\ Pool!RequestDone(c)
     \/ req[c].pc = "sleep" /\ UNCHANGED pool
  /\ Set(c, Ended("dropped"))

\* The pool's own tasks, and the world.
Others == Pool!Background /\ UNCHANGED req

Method(c) == GetChannel(c) \/ Succeeds(c) \/ Fails(c) \/ Report(c) \/ Wake(c)

Next ==
  \/ Others
  \/ \E c \in Callers : (\E rp \in Policies : Begin(c, rp)) \/ Method(c) \/ Drop(c)

\* The runtime polls ready tasks; lookups, connection attempts and calls end.
Spec ==
  /\ Init /\ [][Next]_vars
  /\ WF_vars(Pool!DnsTick /\ UNCHANGED req)
  /\ \A p \in Callers \cup {DnsTask} : WF_vars(Pool!check_dns(p) /\ UNCHANGED req)
  /\ \A c \in Callers : WF_vars(Method(c))

-----------------------------------------------------------------------------
\* A request that is over, or asleep between two tries, has nothing of the pool,
\* whichever step it ended or was dropped in: no channel, no report to make, no
\* place in the queue of the lock that all pools share, no check of its own.
NothingKept ==
  \A c \in Callers : req[c].pc \in {"none", "sleep"} =>
    /\ call[c] = Pool!AtRest
    /\ scan[c] = Pool!Idle
    /\ \A i \in DOMAIN gate : gate[i] # c

\* A request whose policy gives up at some try comes to an end, whatever the
\* servers, the DNS and the pool's tasks do between its tries and during them
\* (the loop).  The other callers are inside get_channel: that it returns
\* whoever of them queues, checks or is cancelled is Pool!GetChannelReturns.
RequestReturns ==
  \A c \in Callers :
    req[c].pc # "none" /\ req[c].rp = "other" ~> req[c].pc = "none"

\* From some moment on no request of c's finds a server dead.
NoMoreDead(c) == <>[][~(req[c].pc = "send" /\ req'[c].pc = "report")]_vars

\* "I also don't have a limit on the number of retries" (DefaultRetryPolicy):
\* only servers found dead, one after the other, keep a request with the
\* default policy going.  Once there are no more of them it ends, also when the
\* pool is empty and stays so, when its check fails, and when a failed try and
\* its report have just emptied it.
DefaultReturns ==
  \A c \in Callers :
    NoMoreDead(c) => (req[c].pc # "none" /\ req[c].rp = "default" ~> req[c].pc = "none")

=============================================================================
