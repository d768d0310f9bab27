# soda-pool: a TLA+ verification project

`soda-pool` is a client-side connection pool for gRPC (tonic). A pool resolves
one host name, keeps a channel to every address that accepts connections,
remembers the addresses that do not, and hands channels out in turn. This
directory holds a TLA+ model of it, the TLC runs that check the model on small
instances, and proofs, checked by TLAPS, of what holds for all instances.

Paths below are relative to `src/`; "pool.rs" and the like are under
`soda-pool/src/`.

## 1. Inventory

| Component | State | Operations | Interaction |
|---|---|---|---|
| `BackoffTracker` (broken_endpoints.rs) | a timestamp whose low nanosecond byte is the failure count | `from_failed_times`, `calculate_backoff`, `set_retires`, `get_retires` | part of each entry of `BrokenEndpoints` |
| `BrokenEndpoints` (broken_endpoints.rs) | mutex around a `BinaryHeap<DelayedAddress>`; a `Notify` | `replace_with`, `get_address`, `add_address`, `re_add_address`, `next_broken_ip_address`, `addresses` | filled by reports and checks, emptied by the doctor task and by DNS checks |
| `ReadyChannels` (ready_channels.rs) | rwlock around a `Vec`; an atomic index | `find`, `get_any`, `add`, `remove`, `replace_with` | read by callers, written by reports, the doctor and DNS checks |
| DNS task (pool.rs, `build`, `check_dns`) | none between rounds; two local lists during one | resolve, look at each address, replace both stores | both stores, the name server, the servers |
| Doctor task (pool.rs, `build`, `recheck_broken_endpoint`) | the entry it tests | take an entry, connect, `add` or `re_add_address` | both stores |
| `ManagedChannelPool` (pool.rs) | the two stores; a *static* rwlock with the time of the last forced check | `get_channel`, `report_broken`, `clone`, drop | runs `check_dns` and rechecks itself when the pool is empty |
| Pooled client (macros.rs, `soda-pool-build/src/generator.rs`), `RetryPolicy` (retry.rs) | number of tries | the retry loop | `get_channel`, `report_broken` |
| Pool lifetime (pool.rs, `AbortOnDrop`, `Clone`) | an `Arc` per background task in every clone | build, clone, drop | aborts the tasks when the last clone is gone |
| `EndpointTemplate` (endpoint_template.rs) | a validated URL and 20 options | `new`, `build`, `domain`, setters | builds the endpoint of each address |
| Client generator (`soda-pool-build`) | files | `build_clients`, `build_all_clients`, parser, generator | at build time only |
| Mock pool, examples, benchmark | | | |

What is hard here:

* **Two stores, two locks.** An address moves between the stores in two locked
  steps (`report_broken`, `check_dns`, the recheck). Everything that runs in
  between sees, or overwrites, half of the move.
* **Stale copies.** `check_dns` decides about an address, then connects to
  others for seconds, then writes both lists back. The forced recheck works on
  copies of heap entries that the doctor may hold at the same time.
* **A hand-made condition variable.** The doctor unlocks the heap and only then
  waits on the `Notify`, racing a sleep in a `select!`.
* **A lock as a barrier.** Callers that find the pool empty use a write lock
  both to be the only one that checks and to wait for the one that does;
  callers can be cancelled at every `await`. The lock is a static, so callers of
  different pools meet in it too.
* **Two clocks.** An entry is due by the wall clock, which may be set; the doctor
  sleeps by the timer's.
* **Checked once, relied on later.** The template checks its URL and its TLS
  config for one host, and unwraps the same conversions for every other.
* **First result wins.** The forced check returns at the first future that
  finishes and drops the others where they are.
* **Numbers.** A `u8` of failures, a capped exponential, a counter hidden in a
  timestamp, and an index that wraps.

What makes each component correct: an address has one entry in the broken
store, and the doctor never misses that the store has something for it;
`get_any` takes turns and never indexes outside the list; `remove` takes out
what was reported and nothing else; forced checks never overlap; channels to
one address do not pile up; no race loses an address of the DNS for good, and
none takes one out of the pool without a cause; every call of `get_channel`
returns; the background tasks live exactly as long as the pool; an endpoint has
the settings that were asked for. The hazards, each at its line, are listed in
`PROJECT.json`.

## 2. Modules

```
Backoff  <---  BrokenEndpoints  --implements-->  BrokenSet  <--+
                                                               |-- ManagedChannelPool
                                                               |     ^          |
               ReadyChannels    --implements-->  ChannelBag <--+     |      implements
                                                              PooledClient      v
                                               PoolProcess  --extends-->  RecheckGate

EndpointTemplate          SodaPoolBuild
```

Each module but the two abstract stores and `Backoff` has a `...Proofs` module
that extends it; the facts about `Backoff` are in `BrokenEndpointsProofs`. `PoolProcessProofs` also extends `RecheckGateProofs`;
`ManagedChannelPoolProofs` INSTANCEs `RecheckGateProofs`, and
`PooledClientProofs` INSTANCEs `ManagedChannelPoolProofs`: what is proved of the
lock is used for the pool, and what is proved of the pool for the clients.

The pool module is built on the two abstract stores (it INSTANCEs `BrokenSet`
and `ChannelBag`), and each real store is shown to implement its abstract one.
So heaps, clocks, wakeups and indices are looked at where they matter and
nowhere else. In the same way the pool implements `RecheckGate`, the lock of
forced checks without the stores, and `PoolProcess` uses that lock for several
pools.

* **Backoff**: `calculate_backoff`, the `u8` addition of `re_add_address`, and
  `set_retires` / `get_retires`. The width of the counter (`U8Max`, 255 in the
  code) and the cap (`MaxShift`, 6 in the code) are constants.
* **BrokenSet** (abstract): the set of broken addresses and the one being
  tested.
* **BrokenEndpoints**: the heap with its entries, the `Notify` (a permit and at
  most one waiter), and the doctor as a process: *look* at the heap under the
  mutex, then *wait* or *sleep* without it, then look again; *test* while it
  connects. `IsPeek` is `BinaryHeap::peek`: entries are ordered by time, and a
  max-heap gives the latest. Time is in seconds relative to now; `Tick` ages
  everything at once, and `SetClock` sets the wall clock, which moves the entries
  and not the doctor's timer. `skew` is how far it was set altogether, `drift` how
  far since the doctor fell asleep. Callers are environment: `add_address` is a report,
  `re_add_address` a forced recheck with a copy, `replace_with` a DNS check with
  any heap such a check can bring. `peak` is a history variable: a copy carries
  only counts its address has really had.
* **ChannelBag** (abstract): the number of channels per address.
* **ReadyChannels**: the list, the index (its range is the constant
  `IndexMod`), `swap_remove`, and replacement. `served` is a history variable:
  how often each position was handed out since the list last changed.
* **ManagedChannelPool**: both tasks and any number of callers. `scan[p]` is the
  `check_dns` of p (the DNS task, or a caller's forced check) with its two local
  lists; `call[c]` is where caller c is in `get_channel` or `report_broken`;
  `gate` is the queue of the static write lock, its holder first; `recent` says
  that less than 500 ms have passed since the stored time. One action is what
  happens between two points at which another task can run. `Cancel` drops a
  caller's future at an `await` (also what a panic of the caller's task
  amounts to).
* **RecheckGate** (abstract): the static lock. `stage[c]` is what caller c wants
  of it, `gate` the queue with the holder first, `recent` the 500 ms.
* **PoolProcess**: callers that build, clone and drop pools and call
  `get_channel` on them. `own[c]` is the pool the caller's value belongs to,
  `arcs` the strong count of each `Arc<AbortOnDrop>`, `task` the state of each
  background task. A drop takes two steps, one per `Arc`; `abort()` marks a task,
  which ends at its next `await`; a task may die of a panic. What `get_channel`
  does to the stores is left to `ManagedChannelPool`.
* **EndpointTemplate**: `new` with its checks in order, all 20 setters in any
  order, `build` and `domain`. A setting goes from its setter to a field
  (`field`) to a method of tonic's `Endpoint` (`method`); `asked` is a history
  variable. A URL is what the code asks of it: its kind of host, and the hosts
  with which its text makes a `Uri`. A TLS config is the set of addresses whose
  endpoints take it.
* **PooledClient**: the retry loop of a client method (`define_method` in
  macros.rs; generator.rs writes out the same loop), with `DefaultRetryPolicy` or
  any other policy that gives up at try `Limit`, on top of `ManagedChannelPool`:
  each step of the loop takes the pool's own action along. `tries` is a `u8`
  (`U8Max`) that wraps or panics, according to the build.
* **SodaPoolBuild**: the client generator, on its own. The parser is operators
  on an abstract syntax tree (which modules, implementations and methods it
  takes, and what it rejects), in which items are sets, as their order decides
  nothing, and a suffix is a field (`client`) or a number (`retries`, `pools`);
  the generator is what its output looks like to
  that parser; `build_clients` and `build_all_clients` are actions on a
  directory. A listing returns everything that was there when it began and may
  or may not return what is written meanwhile. `start` is a history variable.
* **MC...** modules instantiate these for TLC; **...Proofs** hold the proofs.

Operators marked *Mutant* are faulty variants of the definition that follows
them. Nothing uses them; replacing the definition by one of them must break the
property it is listed with in `PROJECT.json`.

### Choices worth knowing

* `tokio::sync::Notify`, `RwLock`, futures, the resolver and the servers are
  external and modelled from how the code uses them: `notify_one` completes the
  registered waiter or stores the only permit; a `Notified` future that is
  dropped after it was notified passes the notification on; `try_read` fails
  while somebody holds or queues for the write lock, which is first come, first
  served.
* The wall clock of the entries is set by at most `MaxSkew` seconds altogether,
  forward or back. In the pool modules the 500 ms are over at any moment
  (`Expire`), which includes every clock that goes forward; that the wall clock is
  set back, which would make the last check recent again, is left out. Waiting for a mutex takes no time.
* Nothing is known of which addresses tonic takes a URL or a TLS config for, so
  the model allows any set of them, for a config also none.
* Addition on the full failure counter depends on the build: it wraps in
  release and panics with overflow checks. `BrokenEndpoints` allows both for the
  doctor. In the pool module the doctor never panics (a release build).
* A DNS answer lists an address once. A name that resolves to nothing is an
  error, and `check_dns` then leaves both stores alone, so the pool keeps
  servers that were all taken out of the DNS at once (`ResolveErr`).
* In the pool module the doctor may take any broken address at any time, which
  includes every order and delay the heap can produce.

## 3. Runs

| Run | Instance | Result |
|---|---|---|
| `ready_channels` | 3 addresses, up to 4 channels, index modulo 8 | holds |
| `broken_endpoints` | 2 addresses, counter 0..2, backoff 1 or 2 s, clock set by 1 s | holds |
| `pool_safety` | 1 address, 3 callers | holds |
| `pool_liveness` | 1 address, 2 callers | holds |
| `client` | 1 address, 1 caller, `tries` 0..3, policies that give up at try 2 | holds |
| `builder` | directories of up to 3 entries, two builds in a row | holds |
| `endpoint_template` | 2 addresses, 2 values, up to 3 setters | holds |
| `pool_process` | 2 pools, 3 callers | holds |
| `doctor_starvation` | as `broken_endpoints`, counter 0..3, clock not set | violated |
| `throttle` | 1 address, 2 callers | violated |
| `report_removes` | 1 address, 1 caller | violated |
| `none_all_rechecked` | 2 addresses, 1 caller | violated |

**ready_channels.** `Balanced`: while the list stays the same, no position is
handed out twice more often than another. (Where the index wraps in the middle
of a round the count starts anew; at 2^64 that is of no consequence, and the
model makes it happen.) `RefinesChannelBag`: the list is a bag. The bag allows
any operation on any address, so `OperationsAgree` says more: each operation is
the bag operation of the same name on the same address; in particular
`swap_remove` removes the reported address only.

**broken_endpoints.** `OneEntryPerAddress`; `NoLostWakeup`: the doctor never
blocks on a non-empty heap with no notification under way; `SleepsForLatest`:
while it sleeps, its timer is that of the latest entry of the heap as it is now,
give or take what the clock was set since it fell asleep (an entry that is due
earlier is slept past: that is `doctor_starvation`); `BackoffGrows`: a report, a
recheck or a test shortens the wait of an address only if it takes its failure
count back, and a failed test of the doctor's does so only where the `u8` cannot
count it;
`RefinesBrokenSet`; and `DoctorProgress`: when only the doctor acts, something broken means that
the doctor tests something in time.

**pool_safety.** `OneRecheck`: whoever is in a forced check holds the lock, and
no future of a forced check outlives its call. `NothingHeld`: a caller that is
neither waiting for the lock nor checking has left nothing of a check behind,
whichever way it left. `PoolBounded`: never more than
|Callers| + 4 channels to one address. More than one can exist (see
`report_removes`); the bound is tight: with 1, 2 and 3 callers TLC reaches 5, 6
and 7.
`EmptiedForCause`: a pool that has channels is emptied by the report of its last
one, or by a check that got an answer and found addresses of it broken, never
because the name did not resolve for a while.
`RefinesGate`: the pool uses the lock as `RecheckGate` says, so its safety
(`OneCheck`), which `pool_process` shows for several pools, is the pool's too.

**pool_liveness.** `GetChannelReturns`: every call comes back, whoever is
cancelled while holding or queueing for the lock. `TrackedAgain`: a report that
falls between the two `replace_with` calls of a DNS check (or is cut between its
own two steps) can drop an address from both stores; if the address stays in
the DNS, a later check brings it back.

**client.** `RequestReturns`: a request whose policy gives up at some try ends,
whatever the servers, the DNS and the pool do in between. `DefaultReturns`: the
default policy has no limit, so a server that fails each time it comes back keeps
a request going; once no more servers are found dead it ends, also when the pool
is empty and stays so. `NothingKept`: a request that is over, or asleep before its next
try, holds no channel, no place in the queue of the shared lock and no check,
whichever step it ended or was dropped in. There is one request at a time: two on
the loop are too many states for TLC. What a request has to wait for others in is
`get_channel`, and that every call of it returns, with two callers that queue,
check and are cancelled, is `GetChannelReturns` of `pool_liveness`.

**builder.** `AllBuilt`: when `build_all_clients` is through, the directory holds
a pooled version beside each file with clients and nothing else new, whatever
the order of the listing, whichever of its own files it was shown, and also when
run again. `OnlyPooledWritten`: at any moment, and after any error, every file
is as it was or as a full build would have it. Both leave out one case
(`NoClash`): a user's file `x_pool.rs` that has clients itself, beside an `x.rs`
that has some; it is overwritten, before or after its own turn.
`UpToDate` covers that case: whichever way the listing goes, every file that
still has clients has the pooled version of what is in it now.

**endpoint_template.** `BuiltAsAsked`: whatever setters were called, in whatever
order, again or to unset, `build` gives every method of `Endpoint` what the
setter of that name was last given. `PanicsOnlyUntested`: the `expect`s of
`build`, `domain` and `tls_config` fail only for an address that the earlier
check was not made with, when url, http or tonic treat that address differently
from the domain name, or from 127.0.0.1. No order of calls makes them fail. That a
setter called after `tls_config` does not is assumed: the model lets tonic take a
TLS config for an address or not, whatever else is set.

**pool_process.** `AliveWhileHeld`: no task is aborted while a clone that refers
to it is left, however clones are made and dropped concurrently. `NoOrphan`
and `TasksEnd`: when the last one is gone no task is left running, and both
end. `OneCheck`: forced checks of all pools
of the process run one at a time. `GateServed`: who queues for the lock gets
through, whichever pools before it check, are cancelled or are dropped.

### Disagreements between the code and what is written about it

* `doctor_starvation`: the heap gives the *latest* test time, so while one
  address keeps failing, another that is long due is never tested.
  (broken_endpoints.rs:83 "the next broken IP address that should be tested".)
* `throttle`: the 500 ms limit is read before the write lock is awaited and not
  again after, so callers that queued run a forced check each
  (pool.rs:229 "no more than once every 500ms").
* `report_removes`: a forced recheck adds a channel and leaves the address
  among the broken ones; the doctor adds a second channel, and `report_broken`
  removes one of them (pool.rs:305 "will remove the endpoint from the pool").
* `none_all_rechecked`: the first future to finish decides, so `None` may be
  returned while other broken servers have not been tried (pool.rs:228 "recheck
  connections to all servers currently marked as dead").
* Not a run, the code does it every time: after 255 failures in a row the count
  becomes 0 and the wait drops from 64 s to 1 s (or the doctor panics, with
  overflow checks). `BackoffGrows` says that no other test of the doctor's shortens
  a wait. What else does takes the count back with it: a new first report, a forced
  recheck of a copy older than the entry, an older entry a DNS check writes back.
* Not a run: when the pool runs empty between two tries, the caller gets
  "No ready channels" and the error of the try is dropped (retry.rs:17 "the last
  error will be returned to the caller").
* Not a run: the lock and the time of the last forced check are the process's.
  A pool without channels returns `None` because another pool has just checked
  its own servers, or waits for that check and learns nothing of its own
  (pool.rs:228-233).
* Not a run: `new` tries the conversion to a `Uri` with the domain name, where
  endpoint_template.rs:446 says "after substituting hostname for an IP address".
* Not runs, but what the `builder` model does (`Outcome`, `list`): a file name
  that is no identifier (`google.rpc.rs`), or a file that is not Rust, ends
  `build_all_clients`, where the documentation says that files without clients
  are skipped; so does an entry `health.RS`, which is looked for as `health.rs`;
  a service `google.rpc` given without extension is looked for as `google.rs`;
  and a pooled version that cannot be written, because a directory has its name,
  is a panic and no `BuilderError`.
* Not a run: macros.rs:92 says of `DoNotRetry` "do not report broken endpoint";
  a policy that answers `(Dead, DoNotRetry)` has it reported before.
* Not a run: pool.rs:223 says the channel "is selected randomly"; it is taken
  in turn.

### Why the bounds are enough

* *Addresses.* In the pool module addresses do not interact except through the
  choice of `get_any` and the order of a scan, so one address already shows
  every race of one address; `none_all_rechecked` needs two. In
  `BrokenEndpoints` they compete for the top of the heap: two.
* *Callers.* Three: one that checks, one that came to check and queues, one
  that only waits; and reports besides. The liveness run has two because of its
  size.
  In `PoolProcess` three: one in a check, one queueing, and one that clones or
  drops; with two pools, so that two callers are of one pool and one of another.
* *Counter.* `U8Max = 2` and `MaxShift = 1` reach the cap of the backoff, the
  end of the counter and its wrap-around. The proofs have no such bound.
* *Clock.* `MaxSkew = 1`: set once, in either direction, at any moment. The
  proofs have it at any value up to `Horizon`.
* *Setters.* `MaxCalls = 3`: a setter, another one, and the first again, or two
  before a TLS config. Each setting is independent of the others but for the TLS
  check, which looks at one URL, one config and the new one. Two values tell an
  old setting from a new one.
* *Time.* `Horizon = 1`: how long an entry is overdue matters only for the order
  of overdue entries, and two levels give both orders.
* *Index.* 8 is no multiple of 3, so wrapping in mid-round happens, and it is
  one of 2 and 4, so the other case happens too.
* *Files.* One file has every shape the parser distinguishes (with one method),
  beside two others of few shapes: no clients, a name that is no identifier,
  another extension, the name of a pooled version (also for a directory). `MaxBuilds = 2`: a second
  build is what a third one would be (`BuildingAgainChangesNothing`).
* `MaxLen` bounds `add` in `ReadyChannels`; nothing else is capped. In the pool
  the number of channels is bounded by `PoolBounded` itself.

### Fairness

* `BrokenEndpoints!FairSpec`: weak fairness of the doctor (the runtime polls a
  task that is ready; a connection attempt ends, since `connect` has the
  timeouts of the endpoint or the system's) and of `Tick` (time passes).
* `ManagedChannelPool!LiveSpec`: weak fairness of each check in progress, of
  each call and report once begun, and of the DNS task's interval. Nothing is
  assumed of callers beginning or ending requests, of cancellation, of the
  doctor, of the name server or of `Expire`.
* `SyncSpec` adds strong fairness of `ResolveOk(DnsTask)`: the name server does
  not fail forever on a name that has addresses. `TrackedAgain` needs it;
  without an answer nothing can bring an address back.
* `PoolProcess!Spec`: weak fairness of each aborted task reaching an `await`
  (tokio's abort), of a drop once begun, and of each call once it queues for the
  lock. Nobody has to cancel, clone, drop or call anything.
* `PooledClient!Spec`: the same, for the steps of a request instead of bare
  calls; a call to a server ends, with or without an answer. Nothing is assumed
  of requests beginning or being dropped.

## 4. Proofs

Every safety property of the runs is also a theorem, for every value of the
constants. The assumptions are named in the
modules that declare the constants:

* `U8Max` is a positive number, `MaxShift` one of 0..6, `Horizon` a natural
  number, `MaxSkew` at most `Horizon`, `IndexMod` positive, `MaxLen`,
  `MaxCalls` and `MaxBuilds` natural numbers: the ranges of the code's integers, and the bounds of
  the model at any size.
* `NoAddr` is no address, `NoPool` no pool, `DnsTask` no caller, `BadText` not
  `None`: these stand for the absence of a value, or for a task of the pool's own.
* `Callers`, and in `ReadyChannels` `Addr`, are finite: a process has finitely
  many tasks, and addresses are 32 or 128 bits. Counting needs it.
* `Localhost` is an address.
* `Sources` are directories (`IsDirectory`): functions from file names to files.
  Whatever the files hold is allowed. `Idents` are some of the `Stems`.

There is no bound on the number of addresses, callers, pools, channels, calls,
files, clients or methods.

**BrokenEndpointsProofs.** First the arithmetic. `BackoffBounds` and `BackoffAtMost64`: a wait is between one
second and 2^MaxShift, at most 64. `BackoffMonotone`: more failures never mean
a shorter wait, so one gets shorter only with its count.
`RetiresRoundTrip`: the count stored in the timestamp is read back, the
nanoseconds stay valid (also in a leap second), and the time moves by less than
256 ns.

The inductive invariant of the store is

    IInv == TypeOK /\ OneEntryPerAddress /\ NoLostWakeup /\ SleepsForLatest

Each part is needed by another: the wakeup properties need the types; popping
an entry takes its address out of the set only because the entry is the only
one (`PopRemoves`). `SleepsForLatest` speaks of the entry that is
the latest now, not of the one the doctor looked at, which makes it inductive:
time and the clock move all entries alike and leave the latest one the latest (an
entry overdue by `Horizon` stays where it is). The crux is that every operation that puts something into
the heap leaves the doctor signalled (`NotifySignals`), so only the doctor's
own steps and the clock have to preserve the rest. A clock that is set moves all
entries by one second and adds one to `skew`, and to `drift` if the doctor sleeps,
which is why `TypeOK` and `BackoffGrows` carry `+ skew` and `SleepsForLatest`
`+ drift`. `TypeCorrect`, `UniqueEntries`, `WakeupsKept`
and `SleepsBounded` follow; `WaitsGrow` follows from the types, which bound what is left of a wait by
its backoff, and from `BackoffMonotone`; and `Refinement`
shows that `BrokenEndpoints` implements `BrokenSet` for any set of addresses:
the pool module stands on a proved abstraction.

**ReadyChannelsProofs.** `Balanced` alone is not inductive: that no position was
served twice more often than another does not say that the next one to be served
is among those that were served less. `Window` says which ones were: the last m
before the index, cyclically, for some m less than the length. The lemmas are
about `%`: how the position moves with the index (`ModNext`), also when the index
itself wraps. `RoundRobin` follows. For the refinement, each operation is shown to
change the number of positions of one address as `ChannelBag` says
(`OperationsImplement`), also where `swap_remove` moves the last channel into the
gap; then `ImplementsChannelBag`. That `get_any` never indexes outside the list is part of
both.

**RecheckGateProofs.** `OneCheck` needs `Queued`: a caller is in the queue exactly
while its stage is "write", "wait" or "check", and once, and who checks is at the
head. The work is in what removing an entry does to a queue without duplicates
(`Removed`).

**PoolProcessProofs.** `NoEarlyAbort` needs the strong counts to be right:
`Counted` says that the count of each `Arc` is the number of callers that hold
one, which every step of clone and of the two-step drop must keep; `Built` that
nobody holds a pool that was not built. The converse, `NoTaskLeftRunning`, is
inductive with them: the drop that does not abort the task sees a count above one,
which is a holder left (`ReleaseCounts`). The lock's part is `RecheckGateProofs`.

**ManagedChannelPoolProofs.** Two layers. `Sound` is the types, the lock's
invariant for the callers' stages, and `Local`: which lists a check has at each of
its points (disjoint ones, and some address in them once there was an answer), and
that a caller has futures only while it polls them. From it follow `ImplementsGate`,
`ChecksAlone`, `LeavesNothing` and `EmptiedOnlyForCause`; the last needs `Local`
because a check that got an answer must have put each address into one of its
lists.

`ChannelsBounded` needs a potential. `Owed(a)` counts the channels to an address
and those that may yet be added, each once: one for the entry in the store, one
for the doctor's test, one for each caller that has removed a channel and has not
yet added the entry, one for a forced check that has the address to recheck or has
yet to copy the store, one for each DNS check that has it as broken. `Bounded`, that
this is at most |Callers| + 4, is inductive: a step that adds a channel gives up
what it was owed for, except a check that replaces the list. But after a
replacement there is at most one channel, and because forced checks do not overlap
(`Sound`) the slots of reporters, recheckers and scanners together are at most
|Callers| + 2 (`SlotBound`), or one less if the check that replaced the list has
none left.

**PooledClientProofs.** `UsesPoolAsSpecified`: the clients implement the pool's
specification, so its theorems hold under them (`PoolSafeUnderClients`). The
invariant adds `InStep`: the loop of each request is where the pool thinks its
caller is; `KeepsNothing` is that and the pool's `NothingHeld`.

**EndpointTemplateProofs.** The invariant says of a template that exists what its
checks have let through (`Checked`) and that its fields hold what the setters were
given (`Stored`); `FieldOf` and `MethodOf`, that the two renamings of a setting are
inverse to one another, make `settings` return it.

**SodaPoolBuildProofs.** Everything rests on `PooledVersionHasNoClients`: the
parser finds no client in what the generator writes. The properties are not
inductive; the invariant says, at every step of a build, that

* a file the build has created has no clients (`CreatedHaveNoClients`);
* without a clash, each file is as it was or is the pooled version of what a client
  file held at the start (`KeptOrWritten`), so sources are read as they were;
* what the listing has returned and still has clients is up to date
  (`ListedUpToDate`). A write keeps this because the file it overwrites has no
  clients any more, and because no two sources have one pooled version
  (`NameFacts`).

`UserFilesUntouched` is the second, `PooledFilesUpToDate` the first and the third,
`BuildsAll` all of them. `BuildingAgainChangesNothing` is about `Target`, with or
without a clash.

### Only model-checked

* All liveness: `DoctorProgress`, `GetChannelReturns`, `TrackedAgain`,
  `RequestReturns`, `DefaultReturns`, `TasksEnd`, `GateServed`. Fairness and ENABLED are outside
  TLAPS.
* The violations of section 3, which are counterexamples.

## 5. Not modelled

* What two pools do to their stores at the same time: they share nothing but the
  lock, so `ManagedChannelPool` has one pool and `PoolProcess` no stores.
* Threads of the runtime: `resolve_domain` blocks one (`to_socket_addrs`), which
  fairness assumes away.
* url, http and tonic themselves, the `Debug` and `Display` texts, and in the
  client generator the text of the generated code and an `fs::write` that
  fails for another reason than a directory in its place.
* Removal of addresses that left the DNS, as a liveness property: it needs two
  addresses (one must stay, or resolving fails), and that instance is too
  large for TLC's liveness checking.
* A wall clock that is set back during the 500 ms after a forced check
  (pool.rs:251), in the pool modules; `BrokenEndpoints` has it set.
* The drop of a request at the first `get_any` of `get_channel`: it has nothing yet
  and changes nothing.
* Services given to `build_clients` as absolute paths (lib.rs:90): the model takes
  them from the directory. The error of a generated file that is no Rust
  (lib.rs:98): the generator's output always is.
* The content of channels and requests; logging.
* `MockChannelPool`, which always returns the same channel and ignores reports;
  the mock resolver of dns.rs, used by tests; the example server and client, the
  generated code beside them, and the benchmark: they add no behaviour.

## 6. Plan

The order was: the stores and their proofs, the pool on top of them, the client
and the generator, then the template, the lifetime of pools and the lock they
share. Then came the proofs, the lock first, since those of the pool and of the
processes use it.

`SodaPoolBuild` came last: its items became sets instead of filtered sequences, so
that nothing about it needs induction over data. What is left is liveness, which is
outside the prover.
