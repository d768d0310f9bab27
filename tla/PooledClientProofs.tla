-------------------------- MODULE PooledClientProofs --------------------------
(***************************************************************************)
(* The generated client for any addresses, any finite set of callers and   *)
(* any width of `tries'.  Its requests use the pool as the pool's own      *)
(* specification says, so what is proved of the pool is carried over.      *)
(***************************************************************************)
EXTENDS PooledClient, TLAPS

\* The pool, and what is proved about it.
Proved == INSTANCE ManagedChannelPoolProofs

\* What the pool's proofs assume of its constants.
LEMMA PoolConstants ==
  NoAddr \notin Addr /\ DnsTask \notin Callers /\ Proved!IsFiniteSet(Callers)
BY NoAddrAssumption, DnsTaskAssumption, CallersAssumption DEF IsFiniteSet, Proved!IsFiniteSet

-----------------------------------------------------------------------------
(* The pool of PooledClient and the pool of the proofs are one: their      *)
(* definitions are the same, through two INSTANCEs.                        *)

\* The two name the same initial states.
LEMMA SameInit == Pool!Init <=> Proved!Init
BY DEF Pool!Init, Proved!Init, Pool!Checkers, Proved!Checkers, Pool!Idle, Proved!Idle,
       Pool!Started, Proved!Started, Pool!AtRest, Proved!AtRest,
       Pool!Ready!Empty, Proved!Ready!Empty, Pool!Broken!Init, Proved!Broken!Init

\* The two have the same steps.
LEMMA SameNext == Pool!Next <=> Proved!Next
BY DEF Pool!Next, Proved!Next, Pool!Background, Proved!Background,
       Pool!DnsTick, Proved!DnsTick, Pool!NextBroken, Proved!NextBroken,
       Pool!DoctorConnected, Proved!DoctorConnected, Pool!DoctorFailed, Proved!DoctorFailed,
       Pool!ZoneChange, Proved!ZoneChange, Pool!Expire, Proved!Expire,
       Pool!check_dns, Proved!check_dns, Pool!ResolveOk, Proved!ResolveOk,
       Pool!ResolveErr, Proved!ResolveErr, Pool!Find, Proved!Find,
       Pool!GetAddress, Proved!GetAddress, Pool!Connect, Proved!Connect,
       Pool!ReplaceReady, Proved!ReplaceReady, Pool!ReplaceBroken, Proved!ReplaceBroken,
       Pool!ScanOver, Proved!ScanOver, Pool!Checkers, Proved!Checkers,
       Pool!Idle, Proved!Idle, Pool!Started, Proved!Started, Pool!AtRest, Proved!AtRest,
       Pool!stores, Proved!stores, Pool!HasLock, Proved!HasLock,
       Pool!GetAny, Proved!GetAny, Pool!get_channel, Proved!get_channel,
       Pool!TryRead, Proved!TryRead, Pool!Enqueue, Proved!Enqueue,
       Pool!LockedFound, Proved!LockedFound, Pool!LockedEmpty, Proved!LockedEmpty,
       Pool!Joined, Proved!Joined, Pool!LastGetAny, Proved!LastGetAny,
       Pool!SpawnRechecks, Proved!SpawnRechecks, Pool!Recheck, Proved!Recheck,
       Pool!Return, Proved!Return, Pool!Ended, Proved!Ended,
       Pool!GiveAnyOr, Proved!GiveAnyOr, Pool!RequestDone, Proved!RequestDone,
       Pool!ReportRemove, Proved!ReportRemove, Pool!ReportAdd, Proved!ReportAdd,
       Pool!Cancel, Proved!Cancel, Pool!RemoveFirst, Proved!RemoveFirst,
       Pool!RemoveAt, Proved!RemoveAt, Pool!SelectInSeq, Proved!SelectInSeq,
       Pool!Min, Proved!Min,
       Pool!Ready!AnyOf, Proved!Ready!AnyOf, Pool!Ready!Available, Proved!Ready!Available,
       Pool!Ready!Find, Proved!Ready!Find, Pool!Ready!Add, Proved!Ready!Add,
       Pool!Ready!Remove, Proved!Ready!Remove,
       Pool!Ready!ReplaceWith, Proved!Ready!ReplaceWith,
       Pool!Broken!GetAddress, Proved!Broken!GetAddress,
       Pool!Broken!Addresses, Proved!Broken!Addresses,
       Pool!Broken!AddAddress, Proved!Broken!AddAddress,
       Pool!Broken!ReplaceWith, Proved!Broken!ReplaceWith,
       Pool!Broken!NextBroken, Proved!Broken!NextBroken,
       Pool!Broken!Tested, Proved!Broken!Tested,
       Pool!Broken!TestFailed, Proved!Broken!TestFailed

\* What is said of the pool is the same with either name.
LEMMA SameFacts ==
  /\ Pool!TypeOK <=> Proved!TypeOK
  /\ Pool!OneRecheck <=> Proved!OneRecheck
  /\ Pool!NothingHeld <=> Proved!NothingHeld
  /\ Pool!PoolBounded <=> Proved!PoolBounded
BY DEF Pool!TypeOK, Proved!TypeOK, Pool!Checkers, Proved!Checkers,
       Pool!ScanPCs, Proved!ScanPCs, Pool!CallPCs, Proved!CallPCs,
       Pool!OneRecheck, Proved!OneRecheck, Pool!HasLock, Proved!HasLock,
       Pool!Idle, Proved!Idle, Pool!NothingHeld, Proved!NothingHeld,
       Pool!PoolBounded, Proved!PoolBounded, Pool!Cardinality, Proved!Cardinality

-----------------------------------------------------------------------------
(* Every step of a request is a step of the pool, or none of its business. *)

\* No step of the loop does to the pool what get_channel, report_broken or
\* the end of a call does not.
LEMMA PoolStep == [Next]_vars => [Pool!Next]_(Pool!vars)
<1> SUFFICES ASSUME [Next]_vars
             PROVE  [Pool!Next]_(Pool!vars)
  OBVIOUS
<1>1. UNCHANGED pool => UNCHANGED Pool!vars
  BY DEF pool, Pool!vars
<1>2. ASSUME NEW c \in Callers,
             Pool!GetAny(c) \/ Pool!get_channel(c) \/ Pool!RequestDone(c) \/ Pool!ReportRemove(c)
               \/ Pool!ReportAdd(c) \/ Pool!Cancel(c)
      PROVE  Pool!Next
  BY <1>2 DEF Pool!Next
<1>3. CASE UNCHANGED vars
  BY <1>1, <1>3 DEF vars
<1>4. CASE Others
  BY <1>4 DEF Others, Pool!Next
<1>5. ASSUME NEW c \in Callers, (\E rp \in Policies : Begin(c, rp)) \/ Method(c) \/ Drop(c)
      PROVE  [Pool!Next]_(Pool!vars)
  <2>1. CASE (\E rp \in Policies : Begin(c, rp)) \/ Wake(c)
    BY <1>1, <2>1 DEF Begin, Wake
  <2>2. CASE GetChannel(c) \/ Succeeds(c) \/ Report(c)
    BY <1>2, <2>2 DEF GetChannel, Succeeds, Report
  <2>3. CASE Fails(c)
    BY <1>2, <2>3 DEF Fails
  <2>4. CASE Drop(c)
    BY <1>1, <1>2, <2>4 DEF Drop
  <2> QED
    BY <1>5, <2>1, <2>2, <2>3, <2>4 DEF Method
<1> QED
  BY <1>3, <1>4, <1>5 DEF Next

\* The clients implement the pool's specification: whatever requests do, the
\* pool sees calls of get_channel and report_broken in their order, each ended
\* or dropped where the pool allows it (define_method).
THEOREM UsesPoolAsSpecified == Spec => Pool!Spec
<1>1. Init => Pool!Init
  BY DEF Init
<1> QED
  BY <1>1, PoolStep, PTL DEF Spec, Pool!Spec

\* The pool's invariant, under the clients.
LEMMA PoolInvUnderClients ==
  /\ Init => Proved!PoolInv
  /\ Proved!PoolInv /\ [Next]_vars => Proved!PoolInv'
<1>1. Init => Proved!PoolInv
  BY SameInit, PoolConstants, Proved!PoolInvInit DEF Init
<1>2. [Pool!Next]_(Pool!vars) => [Proved!Next]_(Proved!vars)
  BY SameNext DEF Pool!vars, Proved!vars
<1> QED
  BY <1>1, <1>2, PoolStep, PoolConstants, Proved!PoolInvStep

\* ... and what it says of the pool.
LEMMA PoolFacts ==
  Proved!PoolInv => Pool!TypeOK /\ Pool!OneRecheck /\ Pool!NothingHeld /\ Pool!PoolBounded
<1>1. Proved!PoolInv => Proved!Sound /\ Proved!TypeOK
  BY DEF Proved!PoolInv, Proved!Sound
<1>2. Proved!Sound => Proved!OneRecheck /\ Proved!NothingHeld
  BY PoolConstants, Proved!SoundAlone, Proved!SoundLeaves
<1>3. Proved!PoolInv => Proved!PoolBounded
  BY PoolConstants, Proved!OwedBounds
<1> QED
  BY <1>1, <1>2, <1>3, SameFacts

\* So what is proved of the pool holds under the clients: forced checks do not
\* overlap, nobody outside one keeps a lock or a future, and channels to one
\* address do not pile up, however requests are retried, reported and dropped.
THEOREM PoolSafeUnderClients ==
  Spec => [](Pool!TypeOK /\ Pool!OneRecheck /\ Pool!NothingHeld /\ Pool!PoolBounded)
BY PoolInvUnderClients, PoolFacts, PTL DEF Spec
-----------------------------------------------------------------------------
(* The requests.                                                           *)

Requests ==
  [pc : {"none", "get", "send", "report", "sleep"}, rp : Policies, tries : 0 .. U8Max,
   err : Errors \cup {"none"}, retry : RetryTime, out : Outs]

\* Where the loop is, and where the pool thinks its caller is.
InStep(r, k) ==
  /\ r.pc \in {"none", "sleep"} => k = Pool!AtRest
  /\ r.pc = "get" => k.pc \notin {"have", "report"}
  /\ r.pc = "send" => k.pc = "have"
  /\ r.pc = "report" => k.pc = "report"

ClientInv ==
  /\ TypeOK
  /\ Proved!PoolInv
  /\ \A c \in Callers : InStep(req[c], call[c])

\* Setting the request of one caller.
LEMMA SetOne ==
  ASSUME TypeOK, NEW c \in Callers, NEW r \in Requests, Set(c, r)
  PROVE  /\ TypeOK'
         /\ \A d \in Callers : req'[d] = IF d = c THEN r ELSE req[d]
BY DEF TypeOK, Requests, Set

\* A request that is over is one, whatever it ended with.
LEMMA EndedIs ==
  ASSUME NEW out \in Outs
  PROVE  Ended(out) \in Requests /\ Ended(out).pc = "none"
BY U8MaxAssumption DEF Ended, Requests, Policies, RetryTime

\* `tries += 1' stays in its range.
LEMMA TriesRange ==
  ASSUME NEW n \in 0 .. U8Max
  PROVE  (n + 1) % (U8Max + 1) \in 0 .. U8Max
BY U8MaxAssumption

\* The top of the loop: on with the next try, or a panic of the addition.
LEMMA NextTryGives ==
  ASSUME NEW c \in Callers, NEW r \in Requests, NextTry(c, r)
  PROVE  \E q \in Requests : Set(c, q) /\ q.pc \in {"get", "none"}
<1>1. CASE Set(c, [r EXCEPT !.pc = "get", !.tries = (@ + 1) % (U8Max + 1)])
  <2> DEFINE q == [r EXCEPT !.pc = "get", !.tries = (r.tries + 1) % (U8Max + 1)]
  <2>1. (r.tries + 1) % (U8Max + 1) \in 0 .. U8Max
    BY TriesRange DEF Requests
  <2>2. q \in Requests /\ q.pc = "get"
    BY <2>1 DEF Requests
  <2>3. Set(c, q)
    BY <1>1
  <2> HIDE DEF q
  <2> QED
    BY <2>2, <2>3
<1>2. CASE Set(c, Ended("panic"))
  BY <1>2, EndedIs DEF Outs
<1> QED
  BY <1>1, <1>2 DEF NextTry

\* After an error: the request is over, goes on, or sleeps first.
LEMMA AfterErrorGives ==
  ASSUME NEW c \in Callers, NEW r \in Requests, AfterError(c, r)
  PROVE  \E q \in Requests : Set(c, q) /\ q.pc \in {"get", "sleep", "none"}
<1>1. r.retry \in {"DoNotRetry", "Immediately", "After"} /\ r.err \in Outs
  BY DEF Requests, RetryTime, Outs
<1>2. CASE r.retry = "DoNotRetry"
  <2>1. Set(c, Ended(r.err))
    BY <1>2 DEF AfterError
  <2> QED
    BY <1>1, <2>1, EndedIs
<1>3. CASE r.retry = "Immediately"
  <2>1. NextTry(c, r)
    BY <1>3 DEF AfterError
  <2> QED
    BY <2>1, NextTryGives
<1>4. CASE r.retry = "After"
  <2> DEFINE q == [r EXCEPT !.pc = "sleep"]
  <2>1. Set(c, q)
    BY <1>4 DEF AfterError
  <2>2. q \in Requests /\ q.pc = "sleep"
    BY DEF Requests
  <2> HIDE DEF q
  <2> QED
    BY <2>1, <2>2
<1> QED
  BY <1>1, <1>2, <1>3, <1>4

-----------------------------------------------------------------------------
(* What the steps of the pool do to the callers.                           *)

\* The types of a caller and of its check, and that it has futures only where
\* it polls them.
LEMMA CallerFacts ==
  ASSUME Proved!PoolInv
  PROVE  /\ call \in [Callers -> Proved!Calls]
         /\ \A c \in Callers : call[c].pc # "select" =>
              scan[c] = Pool!Idle /\ call[c].rechecks = {} /\ ~call[c].over
BY DEF Proved!PoolInv, Proved!TypeOK, Proved!Calls, Proved!Local, Proved!CallOK, Proved!Idle,
       Pool!Idle

\* The pool's own tasks touch a caller only in a check of its own.
LEMMA BackgroundCalls ==
  ASSUME Proved!PoolInv, Pool!Background, NEW c \in Callers
  PROVE  call'[c] = call[c] \/ (call[c].pc = "select" /\ call'[c].pc = "select")
<1>1. CASE UNCHANGED call
  BY <1>1
<1>2. ASSUME NEW p \in Pool!Checkers, Pool!ScanOver(p), scan[p].pc # "off"
      PROVE  call'[c] = call[c] \/ (call[c].pc = "select" /\ call'[c].pc = "select")
  <2>1. CASE p \notin Callers
    BY <1>2, <2>1 DEF Pool!ScanOver
  <2>2. CASE p \in Callers
    <3>1. call[p].pc = "select"
      BY <1>2, <2>2, CallerFacts DEF Pool!Idle
    <3>2. call \in [Callers -> Proved!Calls] /\ call' = [call EXCEPT ![p].over = TRUE]
      BY <1>2, <2>2, CallerFacts DEF Pool!ScanOver
    <3>3. call[p] \in Proved!Calls
      BY <2>2, <3>2
    <3>4. [call[p] EXCEPT !.over = TRUE].pc = call[p].pc
      BY <3>3 DEF Proved!Calls
    <3> QED
      BY <3>1, <3>2, <3>4
  <2> QED
    BY <2>1, <2>2
<1>3. UNCHANGED call
        \/ \E p \in Pool!Checkers : Pool!ScanOver(p) /\ scan[p].pc # "off"
  <2>1. CASE Pool!DnsTick \/ Pool!NextBroken \/ Pool!DoctorConnected \/ Pool!DoctorFailed
              \/ Pool!ZoneChange \/ Pool!Expire
    BY <2>1 DEF Pool!DnsTick, Pool!NextBroken, Pool!DoctorConnected, Pool!DoctorFailed,
                Pool!ZoneChange, Pool!Expire
  <2>2. ASSUME NEW p \in Pool!Checkers, Pool!check_dns(p)
        PROVE  UNCHANGED call \/ (Pool!ScanOver(p) /\ scan[p].pc # "off")
    BY <2>2 DEF Pool!check_dns, Pool!ResolveOk, Pool!ResolveErr, Pool!Find, Pool!GetAddress,
                Pool!Connect, Pool!ReplaceReady, Pool!ReplaceBroken
  <2> QED
    BY <2>1, <2>2 DEF Pool!Background
<1> QED
  BY <1>1, <1>2, <1>3

\* A step of get_channel is of one caller, which has no channel before and has
\* none to report after.
LEMMA GetCalls ==
  ASSUME Proved!PoolInv, NEW c \in Callers, Pool!GetAny(c) \/ Pool!get_channel(c)
  PROVE  /\ call'[c].pc # "report"
         /\ \A d \in Callers : d # c => call'[d] = call[d]
<1>1. call \in [Callers -> Proved!Calls]
  BY CallerFacts
<1>2. ASSUME NEW x, Pool!GiveAnyOr(c, x), x.pc # "report"
      PROVE  call'[c].pc # "report" /\ \A d \in Callers : d # c => call'[d] = call[d]
  BY <1>1, <1>2 DEF Pool!GiveAnyOr, Pool!AtRest
<1>3. Pool!AtRest.pc = "idle" /\ [Pool!AtRest EXCEPT !.pc = "gate"].pc = "gate"
  BY DEF Pool!AtRest
<1>4. CASE Pool!GetAny(c)
  BY <1>2, <1>3, <1>4 DEF Pool!GetAny
<1>5. CASE Pool!LockedFound(c) \/ Pool!LastGetAny(c) \/ Pool!Return(c)
  BY <1>2, <1>3, <1>5 DEF Pool!LockedFound, Pool!LastGetAny, Pool!Return
<1>6. call[c] \in Proved!Calls
  BY <1>1
<1>7. CASE Pool!TryRead(c)
  BY <1>1, <1>3, <1>6, <1>7 DEF Pool!TryRead, Proved!Calls
<1>8. CASE Pool!Enqueue(c)
  BY <1>1, <1>6, <1>8 DEF Pool!Enqueue, Proved!Calls
<1>9. CASE Pool!LockedEmpty(c)
  BY <1>1, <1>6, <1>9 DEF Pool!LockedEmpty, Proved!Calls
<1>10. CASE Pool!Joined(c)
  BY <1>1, <1>6, <1>10 DEF Pool!Joined, Proved!Calls
<1>11. CASE Pool!SpawnRechecks(c)
  BY <1>1, <1>6, <1>11 DEF Pool!SpawnRechecks, Proved!Calls
<1>12. ASSUME NEW a \in Addr, Pool!Recheck(c, a)
       PROVE  call'[c].pc # "report" /\ \A d \in Callers : d # c => call'[d] = call[d]
  <2>1. call[c].pc = "select"
    BY <1>12, CallerFacts DEF Pool!Recheck
  <2> QED
    BY <1>1, <1>6, <1>12, <2>1 DEF Pool!Recheck, Proved!Calls
<1> QED
  BY <1>4, <1>5, <1>7, <1>8, <1>9, <1>10, <1>11, <1>12 DEF Pool!get_channel

\* The end of a call, a report and a cancellation are of one caller.
LEMMA OtherCalls ==
  ASSUME Proved!PoolInv, NEW c \in Callers
  PROVE  /\ Pool!RequestDone(c) \/ Pool!ReportAdd(c) \/ Pool!Cancel(c) => call'[c] = Pool!AtRest
         /\ Pool!ReportRemove(c) => call'[c].pc = "report"
         /\ Pool!RequestDone(c) \/ Pool!ReportAdd(c) \/ Pool!Cancel(c) \/ Pool!ReportRemove(c)
              => \A d \in Callers : d # c => call'[d] = call[d]
<1>1. call \in [Callers -> Proved!Calls] /\ call[c] \in Proved!Calls
  BY CallerFacts
<1>2. Pool!ReportRemove(c) =>
        call'[c].pc = "report" /\ \A d \in Callers : d # c => call'[d] = call[d]
  BY <1>1 DEF Pool!ReportRemove, Proved!Calls
<1> QED
  BY <1>1, <1>2 DEF Pool!RequestDone, Pool!ReportAdd, Pool!Cancel

-----------------------------------------------------------------------------
(* The steps of a request.                                                 *)

\* A step of a request leaves the others alone and keeps in step with the pool.
LEMMA RequestStep ==
  ASSUME ClientInv, NEW c \in Callers,
         (\E rp \in Policies : Begin(c, rp)) \/ Method(c) \/ Drop(c)
  PROVE  /\ \A d \in Callers : d # c => call'[d] = call[d]
         /\ \E q \in Requests : Set(c, q) /\ InStep(q, call'[c])
<1> DEFINE Goal == \E q \in Requests : Set(c, q) /\ InStep(q, call'[c])
           Frame == \A d \in Callers : d # c => call'[d] = call[d]
<1>1. req[c] \in Requests /\ InStep(req[c], call[c]) /\ Proved!PoolInv
  BY DEF ClientInv, TypeOK, Requests
<1>2. Pool!AtRest.pc = "idle"
  BY DEF Pool!AtRest
<1>3. UNCHANGED pool => call' = call
  BY DEF pool
\* A request that is over, goes on or sleeps, its call being over.
<1>4. ASSUME NEW q \in Requests, q.pc \in {"get", "sleep", "none"}, Set(c, q),
             call'[c] = Pool!AtRest
      PROVE  Goal
  BY <1>2, <1>4 DEF InStep
<1> HIDE DEF Goal, Frame
<1>5. ASSUME NEW out \in Outs, Set(c, Ended(out)), call'[c] = Pool!AtRest
      PROVE  Goal
  BY <1>4, <1>5, EndedIs
<1>6. CASE \E rp \in Policies : Begin(c, rp)
  <2>1. PICK rp \in Policies : Begin(c, rp)
    BY <1>6
  <2> DEFINE q == [Ended("none") EXCEPT !.pc = "get", !.rp = rp, !.tries = 1]
  <2>2. q \in Requests /\ q.pc = "get"
    <3>1. Ended("none") \in Requests
      BY EndedIs DEF Outs
    <3>2. 1 \in 0 .. U8Max
      BY U8MaxAssumption
    <3> QED
      BY <3>1, <3>2 DEF Requests
  <2>3. Set(c, q) /\ call' = call /\ req[c].pc = "none"
    BY <1>3, <2>1 DEF Begin
  <2> HIDE DEF q
  <2>4. call'[c] = Pool!AtRest
    BY <1>1, <2>3 DEF InStep
  <2>5. Goal
    BY <1>4, <2>2, <2>3, <2>4
  <2> QED
    BY <2>3, <2>5 DEF Goal, Frame
<1>7. CASE GetChannel(c)
  <2>1. req[c].pc = "get" /\ call'[c].pc # "report" /\ Frame
    BY <1>1, <1>7, GetCalls DEF GetChannel, Frame
  <2>2. ASSUME call'[c].pc = "have"
        PROVE  Goal
    <3> DEFINE q == [req[c] EXCEPT !.pc = "send"]
    <3>1. q \in Requests /\ q.pc = "send"
      BY <1>1 DEF Requests
    <3>2. call'[c] # Pool!AtRest
      BY <1>2, <2>2
    <3>3. Set(c, q)
      BY <1>7, <2>2, <3>2 DEF GetChannel
    <3> HIDE DEF q
    <3> QED
      BY <2>2, <3>1, <3>3 DEF Goal, InStep
  <2>3. ASSUME call'[c] = Pool!AtRest
        PROVE  Goal
    <3>1. Set(c, Ended("unavailable"))
      BY <1>2, <1>7, <2>3 DEF GetChannel
    <3> QED
      BY <1>5, <2>3, <3>1 DEF Outs
  <2>4. ASSUME call'[c].pc # "have" /\ call'[c] # Pool!AtRest
        PROVE  Goal
    <3>1. Set(c, req[c])
      BY <1>7, <2>4 DEF GetChannel
    <3> QED
      BY <1>1, <2>1, <2>4, <3>1 DEF Goal, InStep
  <2> QED
    BY <2>1, <2>2, <2>3, <2>4 DEF Goal, Frame
<1>8. CASE Succeeds(c)
  <2>1. call'[c] = Pool!AtRest /\ Frame
    BY <1>1, <1>8, OtherCalls DEF Succeeds, Frame
  <2>2. Goal
    BY <1>5, <1>8, <2>1 DEF Succeeds, Outs
  <2> QED
    BY <2>1, <2>2 DEF Goal, Frame
<1>9. CASE Fails(c)
  <2>1. PICK e \in Errors : \E result \in should_retry(req[c].rp, e, req[c].tries) :
          LET r == [req[c] EXCEPT !.err = e, !.retry = result[2]]
          IN  IF result[1] = "Dead"
                THEN Pool!ReportRemove(c) /\ Set(c, [r EXCEPT !.pc = "report"])
                ELSE Pool!RequestDone(c) /\ AfterError(c, r)
    BY <1>9 DEF Fails
  <2>2. PICK result \in should_retry(req[c].rp, e, req[c].tries) :
          LET r == [req[c] EXCEPT !.err = e, !.retry = result[2]]
          IN  IF result[1] = "Dead"
                THEN Pool!ReportRemove(c) /\ Set(c, [r EXCEPT !.pc = "report"])
                ELSE Pool!RequestDone(c) /\ AfterError(c, r)
    BY <2>1
  <2>3. result[2] \in RetryTime
    BY DEF should_retry, RetryTime, ServerStatus
  <2> DEFINE r == [req[c] EXCEPT !.err = e, !.retry = result[2]]
  <2>4. r \in Requests
    BY <1>1, <2>3 DEF Requests
  <2>5. IF result[1] = "Dead"
          THEN Pool!ReportRemove(c) /\ Set(c, [r EXCEPT !.pc = "report"])
          ELSE Pool!RequestDone(c) /\ AfterError(c, r)
    BY <2>2
  <2> HIDE DEF r
  <2>6. CASE result[1] = "Dead"
    <3> DEFINE q == [r EXCEPT !.pc = "report"]
    <3>1. q \in Requests /\ q.pc = "report"
      BY <2>4 DEF Requests
    <3>2. Set(c, q) /\ call'[c].pc = "report" /\ Frame
      BY <1>1, <2>5, <2>6, OtherCalls DEF Frame
    <3> HIDE DEF q
    <3> QED
      BY <3>1, <3>2 DEF Goal, Frame, InStep
  <2>7. CASE result[1] # "Dead"
    <3>1. call'[c] = Pool!AtRest /\ AfterError(c, r) /\ Frame
      BY <1>1, <2>5, <2>7, OtherCalls DEF Frame
    <3>2. Goal
      BY <1>4, <2>4, <3>1, AfterErrorGives
    <3> QED
      BY <3>1, <3>2 DEF Goal, Frame
  <2> QED
    BY <2>6, <2>7
<1>10. CASE Report(c)
  <2>1. call'[c] = Pool!AtRest /\ AfterError(c, req[c]) /\ Frame
    BY <1>1, <1>10, OtherCalls DEF Report, Frame
  <2>2. Goal
    BY <1>1, <1>4, <2>1, AfterErrorGives
  <2> QED
    BY <2>1, <2>2 DEF Goal, Frame
<1>11. CASE Wake(c)
  <2>1. req[c].pc = "sleep" /\ NextTry(c, req[c]) /\ call' = call
    BY <1>3, <1>11 DEF Wake
  <2>2. call'[c] = Pool!AtRest
    BY <1>1, <2>1 DEF InStep
  <2>3. Goal
    BY <1>1, <1>4, <2>1, <2>2, NextTryGives
  <2> QED
    BY <2>1, <2>3 DEF Goal, Frame
<1>12. CASE Drop(c)
  <2>1. Set(c, Ended("dropped"))
    BY <1>12 DEF Drop
  <2>2. call'[c] = Pool!AtRest /\ Frame
    BY <1>1, <1>3, <1>12, OtherCalls DEF Drop, Frame, InStep
  <2>3. Goal
    BY <1>5, <2>1, <2>2 DEF Outs
  <2> QED
    BY <2>2, <2>3 DEF Goal, Frame
<1> QED
  BY <1>6, <1>7, <1>8, <1>9, <1>10, <1>11, <1>12 DEF Method

\* Nobody has a request at first.
LEMMA ClientInit == Init => ClientInv
<1> SUFFICES ASSUME Init
             PROVE  ClientInv
  OBVIOUS
<1>1. Proved!PoolInv
  BY PoolInvUnderClients
<1>2. \A c \in Callers : req[c] = Ended("none") /\ call[c] = Pool!AtRest
  BY DEF Init, Pool!Init
<1>3. Ended("none") \in Requests /\ Ended("none").pc = "none"
  BY EndedIs DEF Outs
<1>4. TypeOK
  BY <1>3 DEF Init, TypeOK, Requests
<1> QED
  BY <1>1, <1>2, <1>3, <1>4 DEF ClientInv, InStep

\* Every step keeps the invariant.
LEMMA ClientStep == ClientInv /\ [Next]_vars => ClientInv'
<1> SUFFICES ASSUME ClientInv, [Next]_vars
             PROVE  ClientInv'
  OBVIOUS
<1>1. Proved!PoolInv'
  BY PoolInvUnderClients DEF ClientInv
<1>2. CASE UNCHANGED <<req, call>>
  <2>1. TypeOK'
    BY <1>2 DEF ClientInv, TypeOK
  <2> QED
    BY <1>1, <1>2, <2>1 DEF ClientInv
<1>3. CASE UNCHANGED vars
  BY <1>2, <1>3 DEF vars, pool
<1>4. CASE Others
  <2>1. TypeOK'
    BY <1>4 DEF ClientInv, TypeOK, Others
  <2>2. ASSUME NEW c \in Callers
        PROVE  InStep(req[c], call'[c])
    <3>1. call'[c] = call[c] \/ (call[c].pc = "select" /\ call'[c].pc = "select")
      BY <1>4, BackgroundCalls DEF ClientInv, Others
    <3>2. InStep(req[c], call[c])
      BY DEF ClientInv
    <3> QED
      BY <3>1, <3>2 DEF InStep, Pool!AtRest
  <2> QED
    BY <1>1, <1>4, <2>1, <2>2 DEF ClientInv, Others
<1>5. ASSUME NEW c \in Callers, (\E rp \in Policies : Begin(c, rp)) \/ Method(c) \/ Drop(c)
      PROVE  ClientInv'
  <2>1. PICK q \in Requests : Set(c, q) /\ InStep(q, call'[c])
    BY <1>5, RequestStep
  <2>2. \A d \in Callers : d # c => call'[d] = call[d]
    BY <1>5, RequestStep
  <2>3. TypeOK' /\ \A d \in Callers : req'[d] = IF d = c THEN q ELSE req[d]
    BY <2>1, SetOne DEF ClientInv
  <2>4. \A d \in Callers : InStep(req'[d], call'[d])
    BY <2>1, <2>2, <2>3 DEF ClientInv
  <2> QED
    BY <1>1, <2>3, <2>4 DEF ClientInv
<1> QED
  BY <1>3, <1>4, <1>5 DEF Next

-----------------------------------------------------------------------------
\* Every request stays in step with the pool: the loop is where the pool thinks
\* that its caller is (define_method, get_channel, report_broken).
THEOREM ClientInvariant == Spec => []ClientInv
BY ClientInit, ClientStep, PTL DEF Spec

\* `tries' stays a u8 and a request what its policy and its servers made it.
THEOREM TypeCorrect == Spec => []TypeOK
<1>1. ClientInv => TypeOK
  BY DEF ClientInv
<1> QED
  BY <1>1, ClientInvariant, PTL

\* However a request ends, and wherever it is dropped, and while it sleeps, it
\* has no channel, no lock and no future in the pool.
THEOREM KeepsNothing == Spec => []NothingKept
<1>1. ClientInv => NothingKept
  <2> SUFFICES ASSUME ClientInv, NEW c \in Callers, req[c].pc \in {"none", "sleep"}
               PROVE  /\ call[c] = Pool!AtRest
                      /\ scan[c] = Pool!Idle
                      /\ \A i \in DOMAIN gate : gate[i] # c
    BY DEF NothingKept
  <2>1. call[c] = Pool!AtRest
    BY DEF ClientInv, InStep
  <2>2. call[c].pc \notin {"write", "wait", "spawn", "select"}
    BY <2>1 DEF Pool!AtRest
  <2>3. Pool!NothingHeld
    BY PoolFacts DEF ClientInv
  <2> QED
    BY <2>1, <2>2, <2>3 DEF Pool!NothingHeld
<1> QED
  BY <1>1, ClientInvariant, PTL

=============================================================================
