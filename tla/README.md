# A verification project for benchall

benchall measures how fast two Go compilers build three large programs. This
directory holds TLA+ models of the harness and of concurrent components of the
programs it builds, the TLC configurations that check them on small instances,
and TLAPS proofs for every instance. `PROJECT.json` is the index: components,
runs, mutants, the map from definitions to source lines, findings, hazards and
theorems.

Paths below are under `src/`; `J` is `juju/src/github.com/juju/juju` and `K` is
`kube/src/k8s.io/kubernetes`.

## 1. What is in the repository

| part | files | what it is |
|---|---|---|
| harness | `benchall.bash`, `benchall_test.go`, `README.md` | benchall's own program: a shell driver and three `testing.B` benchmarks |
| juju workload | `juju/` | a Go workspace with the Juju controller and its dependencies |
| kube workload | `kube/` | the same for Kubernetes |
| gogs workload | `gogs/` | the same for the Gogs git service |

The harness is two small files and is modelled whole. Nearly all of the
repository is the workloads, at the revisions that the benchmarks compile.
Within them we model components that belong to the workload itself (not to its
vendored libraries), that are small enough to translate faithfully, and whose
correctness rests on something a test hardly reaches: interleavings, clocks,
crashes, lost wake-ups.

## 2. Inventory

### Harness (modelled)

* **Driver**, `benchall.bash`. State: the loop position, the result files
  `go1.9.txt` and `go.tip.txt`, the exit status. Operations: three
  `command -v` checks; for `go1.9 go.tip go1.9 go.tip` the pipeline
  `$f test -count=10 -timeout=60m ... | tee $f.txt`; `benchstat`.
* **Benchmarks**, `benchall_test.go`. State: b.N and the iterations done.
  Operation: fork `go build` and wait for it; `b.Fatal` if it fails.
* Interaction: the shell forks `go test` and `tee`, which share a pipe; the test
  binary forks builds. All run concurrently.
* Hard: `set -e` without `pipefail` hides a failed `go test`; tee runs behind the
  test binary; a build that outlives a test binary killed by its alarm; files
  of an earlier run.
* Correct if: benchstat compares the second passes, all of them, and only them;
  nothing is touched unless the prerequisites are there; the script ends.

### juju lease client (modelled, except as said in section 8)

* `J/state/lease/client.go`, `skew.go`, `schema.go`, `config.go`; the retry loop
  is `juju/src/github.com/juju/txn/txn.go`. One client per controller. Private
  state: the cached entries and the clock skews against the other writers.
  Shared state, in MongoDB: a document per lease, and one clock document.
  Operations: `ClaimLease`, `ExtendLease`, `ExpireLease`, `Refresh`, `Leases`.
* Interaction: clients only meet in the database, through mgo/txn transactions
  whose assertions detect a stale cache.
* Hard: clocks that disagree; a time read before a document and used after it;
  transactions applied op by op while others read; crashes that leave a
  transaction queued or half applied; retries on a refreshed cache.
* Correct if: a lease is held for at least the time promised, no lease is expired
  before its writer thinks it expired, an extension never shortens, and Refresh
  always finds the clock of a writer.

### kube workqueue (modelled)

* `K/pkg/util/workqueue/queue.go`. State: `queue`, `dirty`, `processing`,
  `shuttingDown`, and a condition variable. Operations: `Add`, `Get`, `Done`,
  `ShutDown` (`Len` only reads). Its users are the worker loops of the
  controllers; `K/pkg/controller/replication/replication_controller.go` stands for
  them.
* Hard: wake-ups, an `Add` of an item that is being processed, an `Add` or a `Done`
  around `ShutDown`.
* Correct if: it behaves as the set of items that `doc.go` describes, no worker
  sleeps over work, and a shutdown drains the queue and ends the workers.

### juju fortress (modelled)

* `J/worker/fortress/fortress.go`. State: the loop goroutine, whether it receives
  guest tickets, and a WaitGroup that counts visits; a goroutine per ticket.
  Operations: `Visit` for guests, `Unlock` and `Lockdown` for the guard, `Kill`.
* Interaction: callers send tickets over unbuffered channels and wait for a
  result; the uniter is a guard and the metrics workers are guests.
* Hard: aborts, which leave goroutines behind; visits that have answered their
  guest but not yet called `Done`; a Kill during all this.
* Correct if: after a successful Lockdown no visit runs, after an aborted one none
  begins, no visit outlives the fortress, and every caller is answered.

### juju lease manager (modelled)

* `J/worker/lease/manager.go`, `claim.go`, `check.go`, `block.go`. One manager per
  controller, each the only user of a lease client. State: the client's snapshot
  of the leases, the waiters (`blocks`), and the loop goroutine. Operations: `Claim`,
  `Check` of a token, `WaitUntilExpired`, the tick that expires leases, `Kill`.
* Interaction: callers send requests over channels; the loop serves one at a time;
  managers meet only in the leases.
* Hard: the snapshot may be overtaken by another manager at any moment, also between
  a decision and the transaction; the loop ends in the middle of a call.
* Correct if: a check is refused only when the lease was not held, a waiter is
  released only when the lease is gone, and every caller gets an answer.

### kube informer: reflector, delta FIFO, controller (modelled as informers use them)

* `K/pkg/client/cache/reflector.go`, `delta_fifo.go`,
  `K/pkg/controller/framework/controller.go`. State: the resource version of
  `ListAndWatch`; `items`, `queue`, `populated` and `initialPopulationCount` of the FIFO;
  the deltas in the hands of `Process`; `clientState`. Operations: list, watch, relist;
  `Add`, `Update`, `Delete`, `Replace`, `Pop`, `HasSynced`; `Process`.
* Interaction: the reflector's goroutine and the process loop share the FIFO, under
  its lock, and clientState, which is not covered by that lock.
* Hard: deltas that were popped and are not yet applied, while `Delete` and `Replace`
  look at clientState; a relist behind pending deltas; lists from a cache, also from
  one that is older than what was seen; deletions in a gap of the watch.
* Correct if: no object that exists is lost, clientState goes back only when a list
  did, what is deleted goes, and with a resyncPeriod clientState is what the server
  has in the end.

### kube leader election (modelled)

* `K/pkg/client/leaderelection/leaderelection.go`, over `K/pkg/util/wait/wait.go`. State: a
  record in an annotation of an Endpoints object; per candidate the observed
  record and when it was observed. Operations: `acquire`, `renew`, `tryAcquireOrRenew`.
* Interaction: candidates meet in the record only, written by compare-and-swap.
* Hard: a deadline that races with the attempt in flight; answers that are lost;
  writes that arrive after they were given up; renewals within the same second,
  which write the same record again and cannot be seen; crashes.
* Correct if: there is at most one leader, it holds the record, and there is one
  again after a crash.

### Components not modelled

| component | state and operations | what is hard |
|---|---|---|
| leadership tracker, `J/worker/leadership/` | claims leadership, serves tickets | renewals against lost leadership |
| dependency engine, `J/worker/dependency/` | manifolds started, stopped and bounced as their inputs change | started/stopped messages of old workers |
| runner and catacomb, `J/worker/` | restart or end workers; a set of dependent workers | a start during a stop |
| uniter operation executor, `J/worker/uniter/operation/` | prepare, execute, commit, with a state file | a crash between two of them |
| state watcher, `J/state/watcher/` | follows the transaction log | log wrap-around, coalescing |
| watch mux, controller expectations | fan-out of events; counted creations and deletions | a stop during a send; expiry of expectations |

The gogs application (handlers over an SQL database), the `main` packages, and
all vendored libraries are left out: they have little concurrency of their own
or are not this repository's program.

## 3. Modules

| module | models |
|---|---|
| `Benchall` | the harness |
| `BenchallProofs` | proofs about it |
| `Leases` | abstract specification: what a namespace of leases promises |
| `LeaseClient` | the lease clients and their database; implements `Leases` |
| `MCLeaseClient` | two clients, the second two time units ahead |
| `LeaseClientProofs` | proofs for any clients, offsets and failures, and the refinement |
| `LeaseManager` | the lease managers, above `Leases` |
| `MCLeaseManager` | two managers, one lease, two callers |
| `LeaseManagerProofs` | proofs for any managers, callers and leases |
| `WorkSet` | abstract specification: what the workqueue promises |
| `WorkQueue` | the workqueue and its workers |
| `MCWorkQueue` | three items, three workers |
| `WorkQueueProofs` | proofs for any items and workers, and the refinement |
| `Fortress` | the fortress, its guard and its guests |
| `MCFortress` | two guests |
| `FortressProofs` | proofs for any guests and Lockdowns |
| `Informer` | reflector, delta FIFO and process loop |
| `MCInformer` | two objects, of which the first one written is `a` |
| `InformerProofs` | proofs for any objects and any number of writes |
| `LeaderElection` | candidates and their record |
| `LeaderElectionProofs` | proofs for any candidates, periods and faults |

Definitions that begin with the comment `Defect:` are not part of the models.
They are the mutations named in `PROJECT.json`: each replaces one definition by
what a plausible bug would make of it, and shows that the property notices.

### Benchall

`sh` and `at` are the shell's position. `tester`, `bench`, `round`, `n`, `k` and
`building` are the test binary, `tee`, `teeStatus` and `pipe` the other end of
the pipeline. A result line is abstracted to the pass and benchmark it belongs
to, and a file to the number of lines of each kind (0 stands for an earlier run
of the script). `PipelineDone` is the shell reaping both ends: only tee's status
decides. `TestDies` is the `-timeout=60m` alarm, or a test binary that cannot be
built; it leaves a build in flight behind (`orphans`), which runs on while the
shell continues. `tee` and the `testing` package are external: `TeeOpen`
truncates, an open or write error leaves tee copying to its output only, to
exit 1 at the end. `CallBenchmark` lets the testing package call a benchmark
again with a larger b.N; after a failed call the package either goes on with the
next round or drops the benchmark.

### LeaseClient

`now` is real time; client c's clock shows `now + Offset[c]`. `leaseDoc` and
`clockDoc` are the two kinds of documents, `entries` and `skews` a client's cache.
`Earliest` and `Latest` are those of `skew.go`. An operation goes through these
places (`pc`):

    idle --Claim/Extend/ExpireLease--> run --RunTxn--> apply --Commit--> idle
                                        |  asserts fail: Abort
                                        v
      entries -> beginning -> clock -> end --FinishRefresh--> build --Retry--> run

`Request` is the first attempt, which decides from the cache (`ClaimInvalid`,
`ExtendInvalid`, `ExpireInvalid`, `NeedsNoExtension`) and builds a transaction of
two ops; the call and this attempt are one step because nothing shared is read
in between but the local clock. `Refresh` is four steps, because time and other
clients move between its reads: the lease documents one by one, the local time,
the clock document, the local time again. mgo/txn (external) applies ops in order:
`RunTxn` is the point where the asserts are known to hold and the clock is
written, `Commit` writes the lease. The documents of a transaction are locked
until they are applied, so that two transactions overlap only if they are about
different leases; the update of the private cache is folded into `Commit`.
`Fail` is an I/O error in any read or transaction, `Restart` a crash and a
`NewClient`. Both leave the transaction behind, in flight (`queued`) or half applied
(`applying`), and `Resume` and `ResumeApplying` are other runners that come across
it. `promised` and `assured` are history variables: until when a success has
promised the lease, with and without a write.

`Leases` is what is left when documents, clocks and transactions are taken away: each
lease has a holder or none, and its time is over or not. `ImplementsLeases` maps the
lease documents to holders, and a lease counts as over when its writer's clock has
passed its expiry.

### LeaseManager

The module stands on `Leases`, which the clients implement, and repeats of the client
only what a manager can notice: a snapshot (`cache`), a first attempt that trusts it,
a transaction that goes through only if the cached entry is the one in the database
(`fresh`), up to `NrRetries` attempts with a Refresh between them, and `ErrInvalid`.
Times are replaced by `due`, the entries that are past their expiry for this
manager; that such an entry has lapsed if it is still in the database is what
`CachedExpirySafe` shows of the client. `loop` is where the goroutine is: `select`, or a place
inside `handleClaim` (`claim`, `run`, `retry`, `build`, `granted`), `handleCheck` (`checked`) and `tick`
(`ticked`, `expire`); it is cut wherever another manager can write in between.
`EndTurn` is the end of an iteration of `loop`: the answer, and the release of the
waiters whose lease is not in the snapshot. `Ends` is a return from `loop`; the callers
get `errStopped`. `NoExtension` is the shortcut of finding 1: it rests on the cache alone.
`seen` is a history variable: the calls during which the lease was not held.

### WorkQueue and WorkSet

Every method holds the lock of `q.cond` from beginning to end, so each is one
action; `Get` is cut where `q.cond.Wait` releases the lock. A worker is at `get`
(about to take the lock, fresh or woken), `wait`, `work` or `ended`. A signalled
worker competes for the lock with everyone else. `Quitters` are the workers that
obey `Get`, like those of `queue_test.go`; the others loop like the controllers'
`worker` methods. `WorkSet` says what `doc.go` says: a set of pending items, a set of
active ones, no item begun while it is active, nothing marked after the close.

### Fortress

`loop` and `open` are the loop goroutine and its local `guestTickets`. A call is taken
apart where it blocks: a guest asks, visits and is idle again; a guard asks and
is answered. `finishing` counts the goroutines between the result they have sent
and `active.Done`. `active` is the WaitGroup's counter and `waiter` its waiters: one
goroutine per Lockdown, which an abort leaves behind, and the loop itself
(waiter 0, the deferred `active.Wait`). The WaitGroup is external: `Done` wakes the
waiters when the counter reaches zero, and a woken waiter that finds the counter
in use again panics, which ends the process (`crashed`). The other panic of the
WaitGroup, in an `Add` that meets a `Done` half way, needs the same misuse and is
left out. There is one guard, since the manifold asks for no more. `view` is a history
variable: what the guard may infer from the results it got.

### Informer

`world` is the history of the API server (external): the objects at each resource
version, each represented by the version of its last write. `List` and `syncWith` are two
steps, as writes and processing go on between them. A list is that of any version: the
code asks for resource version 0, which any cache may serve, and a new `ListAndWatch` has
forgotten how far the last one had come, so that with several API servers the
list can be older than what was seen; `behind` is a history variable that counts such
lists. `watchHandler` is one event. `WatchCloses` is a watch that ends in good order, after which
another one follows without a list; `WatchFails`, `WatchBreaks` (an error event, a very short
watch) and `Resync` lead back to a list, the last one only if there is a resyncPeriod
(`Resyncs`). A list that fails and a connection that is refused change
nothing. The FIFO's methods hold its lock and are one step each. `Replace` chooses the
order of the keys, that of a slice and of a map. `Process` is one delta at a time,
because `Delete` and `Replace` can look at clientState between two. `owed` is a history
variable for `HasSynced`.

A relist that sees a deletion popped and not yet applied reports it again, so
that a handler can get `OnDelete` twice, which the handlers of the controllers
tolerate; clientState is the same.

### LeaderElection

No clock is compared with another one, or with a time in the record: a candidate
only measures how long ago it saw the record change. The model therefore keeps ages
(`age`, `clock`, `spent`) that saturate, and for each candidate whether the record it
observed equals the one on the server (`known`), instead of the records.
Equality is what `reflect.DeepEqual` sees of records that went through JSON, where times are
RFC 3339 with whole seconds (`K/pkg/api/unversioned/time.go` line 128): a holder that renews
within the second of the RenewTime on the server writes an equal record (`Alike`), which
has a new resource version and is no change to anybody. `stamp` is the time since that
RenewTime, and `Second` the precision; where in a second the clock of the holder
stands is not known, so that a renewal less than a second later may be equal or not. The
observedRecord that `Ack` sets has nanoseconds and equals nothing that `Get` will return.
`tryAcquireOrRenew` is cut at its calls: `Get` is the moment the server reads the
record, `Refrain` or `Attempt` the decision, `Put` the moment the server writes (Create or
Update; both fail if the record changed since), `Ack` the return. `Tick` is a unit of time,
with the ticks and the deadline of `wait.Poll`; if both fall together either may be
first, and a tick during an attempt is lost. `Failed` has the subtle part of `renew`: an
attempt that is under way at the deadline is followed by one more, since `WaitFor`
calls its function once after the channel is closed. `CallFails` is an error before or
after the effect, or an Update that still arrives later (`LatePut`). `Latency` is how long an
attempt takes at most; nothing in the code bounds it but the timeouts of the client.

## 4. Runs

| run | checks | shows |
|---|---|---|
| `benchall` | `OnlySecondPassKept`, `ComparesEveryRound`, `Terminates`, `PrerequisitesFirst` | with any command missing, any pass failing, tee running behind and builds that hang, the script ends and benchstat reads second passes only, complete ones if `go test` succeeded |
| `lease_races` | `CachedLeaseHolds`, `PromiseKept`, `ExpireSound`, `NeverShortened` | two clients with clocks apart compete for a lease for two holders, with long and short requests and stale caches: promises are kept, and a cached lease that is not over is true |
| `lease_faults` | `RefreshFindsWriters`, `ImplementsLeases` | after a crash or an error anywhere, with a transaction left queued or half applied, up to two attempts, and leases that lapse, are expired and change hands in between: the refinement, and that Refresh finds every writer |
| `lease_extend` | `ExtendPromiseKept`, violated | finding 1 |
| `lease_manager` | `NobodyForgotten`, `ClaimSound`, `NotHeldSound`, `ReleaseSound`, `QuietSettles` | two managers on one lease, one of which may die: answers are justified, no call that was received is dropped, and every claim, check and waiter is answered once the claims cease |
| `workqueue` | `QueueConsistent`, `OneWorkerPerItem`, `NoSleepOverWork`, `DrainedAtExit`, `QuittersEnd`, `EveryItemProcessed`, `ImplementsWorkSet` | the queue with additions and the shutdown at any moment; the last two are the liveness and the safety part of the refinement of `WorkSet` |
| `workqueue_quit` | `WorkersEnd`, violated | finding 2 |
| `fortress` | `BlockedForVisits`, `LockdownExcludes`, `DeadIsEmpty`, `PanicNeedsAbort`, `AbortedStaysClosed`, `GuardIsAnswered`, `KillEnds` | exclusive access, answers and an orderly end, with aborts and a Kill at any moment |
| `fortress_panic` | `NeverPanics`, violated | finding 3 |
| `informer` | `QueueMatchesItems`, `LiveObjectsArrive`, `SyncedMeansListed`, `StoreMovesForward`, `DeletesOnlyDeleted`, `GhostsAreUnknown`, `Converges` | lists, watches and processing overlap while objects are written, deleted and created again, and a list may be older than what was seen |
| `informer_delete` | `DeletionsProcessed`, violated | finding 4 |
| `leader_election` | `OneLeader`, `LeaderHoldsRecord`, `LeaderRemains` | failed calls, late writes, crashes, and renewals that cannot be seen: never two leaders, and one in the end |

The types of all the models, `SnapshotSound`, `CachedExpirySafe`, `OpFitsLease`, `AsleepMeansIdle`,
`ListRepairs`, `RenewalFindsItself` and `NoFaultNoStop` are proved for every instance and not run
again; `PromiseKept` under failures is proved too.

### Bounds

* `Benchall`: `Count` = 1 round instead of 10, and `MaxN` = 2, so that the testing package
  can raise b.N. With three benchmarks a file is empty, partial or complete, which
  is all that the properties tell apart. The proofs are for every `Count` and `MaxN`.
* `LeaseClient`: two clients, one lease, `MaxTime` 3 to 6, `NrRetries` 1 or 2 instead of
  3. `lease_races` spends its states on time and mixed durations, with one attempt
  (a second one only repeats the first on a fresh cache, which another request
  does as well); `lease_faults` on two attempts (one on a stale cache, one on a
  refreshed one) and one failure (`MaxFaults`). Its `MaxTime` of 4 against a duration of 1
  lets a lease lapse, be expired and change hands, and the next one lapse too, before a
  transaction that was left behind is resumed; to make room for that, the constraint
  `MCAsked` lets the client that fails claim for one holder only, and the other one do
  everything for the other holder. A second lease only adds overlapping transactions
  that share nothing but the clock document; the proofs cover any number.
  An offset of 2 against durations of 1 and 2 lets a clock error reach a lease.
* `LeaseManager`: two managers, one lease, two holders, two attempts. One caller
  claims at either manager, and the other one checks or waits at the first, the one
  that may die, or claims at the second: so that a claim at the first can be outrun
  again and again, with a call behind it. The number of claims is not bounded.
* `WorkQueue`: three items and three workers, so that two workers can be woken for
  items that a third takes. Nothing else is bounded.
* `Fortress`: two guests, three Lockdowns, a counter up to 3, so that a guest can
  visit again while its last visit has yet to call `Done`, and two aborted
  Lockdowns can be waiting next to a third. One guest never gives up.
* `Informer`: two objects and three writes (an object is created, deleted and created
  again, or two objects change between a list and its delivery), and one list that is
  older than what was seen (`MaxBehind`). The objects are alike, so the constraint `MCFirst`
  lets the first write be to a given one. `MaxDeltas` keeps
  the reflector from listing while an object has two deltas pending: the code
  has no such bound, and each relist adds a delta to an object that is not
  popped. The proofs hold for every value of all the bounds.
* `LeaderElection`: two candidates, two faults, `RetryPeriod` 1, `RenewDeadline` 2, `Latency` 1,
  `Second` 2, so that a renewal or two can fall into the same second, and
  `LeaseDuration` 7, the least that `LatencyAssumption` admits. With 6 TLC finds two leaders.

Deadlock is checked except in the lease client runs, where time stops at `MaxTime`, and
in the informer runs, where the reflector may be stopped.

### Fairness

* `Benchall`: the shell, tee and the test binary are scheduled by the kernel
  (weak fairness of each), and the test alarm goes off (weak fairness of
  `TestDies`, the `-timeout=60m` flag). No fairness for builds: nothing in the code
  ends one that hangs.
* `WorkQueue`: every worker is scheduled, and its handler returns (weak fairness of
  its `Get` steps and of `Done`). There is none for `Add` and `ShutDown`. That a
  worker gets the lock in the end is what Go's mutex does since Go 1.9: it hands
  the lock to a goroutine that has waited too long.
* `Fortress`: goroutines are scheduled, visits return, and `select` picks each of
  its ready cases in the end (it picks at random). No fairness for callers, for
  `Kill` and for aborts.
* `LeaseClient` has no liveness property, and no fairness.
* `LeaseManager`: goroutines are scheduled, the client's operations return, `select` picks
  each case that is ready again and again (strong fairness of serving a call, and
  of the tick while a lease is due), and time passes. No fairness for callers, for
  `Kill`, for errors, and for restarts; none for the alarm after `MaxSleep`, which every
  turn of the loop starts anew. A claim can go round for ever while other managers keep
  taking the lease (`handleClaim` has no limit), and every check and waiter of its manager
  waits behind it, hence the premise of `QuietSettles` for all calls.
* `Informer`: both goroutines are scheduled; the server answers a list or a watch from time
  to time, and `select` overlooks neither the events nor the timer of the resync for
  ever (strong fairness of `List`, `Watch`, `watchHandler`, `Resync`). `Resync` can happen only with a
  resyncPeriod other than 0, which is the premise of `Converges`; nothing makes a watch fail
  or break, and none for writes and `Stop`.
* `LeaderElection`: time goes on, and so does a candidate that is alive. Faults are bounded,
  so that `LeaderRemains` speaks of what follows the last one. A process that ended
  need not return.

## 5. Findings

1. `ExtendLease` may return success without a write when it takes the cached lease
   to outlast the request (`errNoExtension`, `J/state/lease/client.go` line 370). It
   compares with `Skew.Earliest`, computed from the time at which the clock
   document was read, but the time found in it may have been written long before.
   `Earliest` is therefore not a lower bound, and the lease can be gone before the
   time that `doc.go` guarantees (run `lease_extend`). `Latest`, on which expiry rests,
   is an upper bound: `CachedExpirySafe` and `ExpireSound` hold. The shortcut is also sound
   for a lease that the client wrote itself, however stale its cache (`OwnShortcutSound`),
   so that only the clients that share a namespace with others are exposed.
2. The controllers' `worker` methods return from a function literal when `Get` says
   quit, and loop on (run `workqueue_quit`); `queue.go` says that the caller should end
   its goroutine.
3. An aborted Lockdown leaves its goroutine in `active.Wait`. After an Unlock the
   WaitGroup can be used again before that goroutine has returned, which is a
   panic (run `fortress_panic`), while `fortress.go` and its test of aborted Lockdowns
   say that the fortress remains functional. Without aborts it cannot happen
   (`OnlyAbortsPanic`, `PatientGuardNeverPanics`).
4. `DeltaFIFO.Delete` drops a deletion if clientState does not have the object
   (`K/pkg/client/cache/delta_fifo.go` line 192), but an object whose first delta is queued,
   or popped and not yet applied, is not there either. The object then stays in
   clientState until a relist (run `informer_delete`), and for ever if the resyncPeriod is 0 and
   the watches end in good order, since these are opened again without a list; although processing deletions is what
   the type is for; the code's own TODO calls the check racy. This is the only way in which
   what will become of an object departs from what the reflector has seen
   (`GhostsOnlyFromUnknown`), and a list that finds everything processed repairs it
   (`QuietListsRepair`): with a resyncPeriod `Converges` holds.

Observed on the way, and not a run of their own: `Claim` is denied, and
`WaitUntilExpired` returns, by a snapshot that another manager may have overtaken, which
`J/core/lease/claimer.go` does not say (`ClaimSound` and `ReleaseSound` have the exception). A
`Check` passes by such a snapshot too (`manager.go` lines 174-175): it is refreshed only
before a refusal. A manager
ends when a transaction is outrun in all its attempts. `ListAndWatch` sets no lower bound on
what it lists: after a relist from an API server that lags, clientState goes back to older
states, and an object that exists can be removed, with an `OnDelete`, until the watch has caught
up (the premises of `StoreMovesForward` and `DeletesOnlyDeleted`). `NewLeaderElector` checks that
`LeaseDuration` exceeds `RenewDeadline`, but one leader at a time needs a margin of three
attempts and a second: with the defaults of 15 and 10 seconds, attempts of at most 4/3 of a
second. The second is there because renewals within the same one write equal records; with periods
below a second, which are accepted, a leader that renews in time can lose the record to another candidate
without any fault. Each renewal resets `LeaderTransitions` to 0.

## 6. Proofs

All theorems are about the specifications that TLC checks, and use only the
named assumptions of the modules: positive counts and durations, non-empty sets,
natural offsets, `None` and `NoItem` outside the sets they are used next to, a
finite set of workers.

**BenchallProofs.** `TypeCorrect`, `SecondPassKept`, `EveryRoundCompared` and
`NothingBeforePrerequisites`. The properties speak of the moment of `benchstat`, so
none is inductive. `Inv` adds `Control` (which processes can be alive at each point of
the script), `Truncation` (what tee truncated stays free of other passes' lines),
`Conserved` (a line printed by a pass without failures is in the pipe or in the
file) and `Completeness` (a pass that succeeded has a full file once its pipeline is
reaped, also while the next pass runs).

**LeaseClientProofs.** `TypeCorrect`, `PromisesKept`, `OneHolderAtATime`,
`CachedExpiriesSafe`, `StaleCachesTellTheTruth`, `OwnShortcutSound`,
`RefreshAlwaysFindsWriters`, `ExpiryIsSound`, `ExtensionNeverShortens` and
`RefinesLeases`, for any clients, names, holders, durations, offsets, attempts and failures. The argument
compares everything in real time: `RealExpiry(e)` is the time at which e's writer
sees it expire.

* `ClockSound`: no copy of the clock document is ahead of its writer. Hence
  `SkewSound`: a skew's `end` is no earlier, in real time, than the write it was
  computed from. With `CacheSound` (a cached entry comes with its writer's skew)
  this gives `LatestSafe`: `Latest` never falls before `RealExpiry`.
* `TxnsSound`: hence a transaction, from the moment it is built and however late it
  is applied, removes only a lease whose real expiry has passed, and replaces one
  only by one of the same holder that lasts at least as long.
* `ApplyingSound`: a half applied transaction still finds the lease as it asserted
  it, and is the only one about that lease.
* `WritersKnown`: a writer's clock is there before its lease, also in what a Refresh
  has read so far.
* `CallSound` and `PromiseCovered`: a running promise is covered by the real expiry
  of the lease in the database. A lease has one holder, hence `OneHolderAtATime`: it is
  never promised to two.

`CachesCovered` is a second layer on top of it: a copy of a lease, in a cache or in what a
Refresh has read so far, is covered by the database for as long as its writer does not see it
expire. Every write preserves it (`StaysCovered`), because a lease is replaced only by a longer
one of its holder and removed only after its real expiry. From this follow `CachedLeaseHolds`
for caches of any age, and `OwnShortcutSound`: a client has no skew against itself, so
that for its own entries `Earliest` is the expiry as it is.

`RefinesLeases` maps every step of a client, of a resumed transaction and of time to a
step of `Leases` or to a stutter; `TxnsSound` and `ApplyingSound` show that a late transaction is
still an `Extend` or an `Expire` that the abstract specification allows.

**LeaseManagerProofs.** `TypeCorrect`, `SnapshotsSound`, `RefusalsSound`, `ReleasesSound`, `ClaimsSound`,
`NobodyIsForgotten` and `OpsFitLeases`.
`SnapshotSound` is inductive with `JobsSound` (what the loop works on fits its place).
`TurnsSound` says of the caller whom the loop is to answer that it is no waiter, and that
the check it is about to refuse was refuted during the call; it survives because
nobody is taken by a loop that is not in `select` (`NobodyJoins`), so that a caller that gave
up cannot be confused with a new call of its own. `Attentive` is a second layer:
`NobodyForgotten` itself, with `ExpiresAlone` (the loop expires leases for nobody, so that the end of a
tick answers nobody), `OpsChosen` (an operation that runs is the one the snapshot suggests, also
after the snapshot was refreshed between two attempts) and `Grantings` (a claim that is about to
be granted is in the snapshot). With `SnapshotSound` these say what is true of the leases
themselves: `OpFitsLease` (an operation over a snapshot that was not overtaken is one that
`Leases` allows) and `ClaimSound`.

**WorkQueueProofs.** `TypeCorrect`, `QueueAlwaysConsistent`, `NeverTwoWorkersOnAnItem`,
`NothingLeftBehind`, `NoLostWakeup`, `SleepersAreIdle` and `RefinesWorkSet`. `QueueConsistent` and
`OneWorkerPerItem` are inductive only with `Held`, which identifies the field
`processing` with the workers' items. `LastEmpties` is what the shutdown adds, and
`NoLostWakeup` counts: an `Append` comes with a Signal, which moves one worker to
`get`, and a `Get` that takes an item leaves `get`. `SleepersAreIdle` puts the parts together: with
everybody asleep or gone, nothing is queued, and what is dirty or processing would be
queued or held.

**FortressProofs.** `TypeCorrect`, `Exclusion`, `NoVisitAfterDeath`, `StaysClosed`,
`NoWakeupLost`, `OnlyAbortsPanic` and `PatientGuardNeverPanics`. `Inv` adds `Counted` (the counter is the number of visits
that run plus those that have yet to call `Done`), `GateKnown` (the gate is open only
if the guard has called Unlock, and closed from the moment a Lockdown ticket is
received) and `WaitsSound` (the waiter of the Lockdown in progress, and the loop's,
find the counter at zero from the moment they are woken, because the gate is
closed). `NoWakeupLost` rests on `BlockedCounted` (whoever blocks in `active.Wait` does so while the
counter is positive) and on `Counted`, which says whose visits those are. The last theorem needs `NoneLeftBehind` too: without aborts nobody else
waits.

**InformerProofs.** `TypeCorrect`, `QueueInStep`, `NothingLiveIsLost`, `SyncIsComplete`, `NeverBackwards`,
`OnlyDeletionsDelete`, `GhostsOnlyFromUnknown` and `QuietListsRepair`. `Inv` adds to `QueueMatchesItems` and `LiveObjectsArrive`: `Versions` (each write
of the server has a version of its own), `Orderly` (as long as no list was older than what was
seen: what clientState, the popped
deltas and the queued ones hold of an object are states of it in the order of their
versions, none newer than the reflector's, and between a state and a deletion behind
it the object was indeed absent; the first older list ends this, and with it the premise of `NeverBackwards`
and `OnlyDeletionsDelete`), and `Owing` (the keys of the first list that were not
processed are in hand or among the first `initialPopulationCount` of the queue).
The last two theorems follow `Outcome`, what clientState will have of an object once its
deltas are processed: `Pop` and `Process` keep it, an event or a list that reports the object makes
it what the server had, and a deletion that is not reported leaves it (`PopKeepsOutcome`,
`ProcessKeepsOutcome`, `OfferedDeletion`).

**LeaderElectionProofs.** `TypeCorrect`, `LeadersHold`, `AtMostOneLeads`, `LeadersFindThemselves` and
`OnlyFaultsStop`, for all periods with
`RenewDeadline + 3 * Latency + Second <= LeaseDuration`, which no LeaseDuration below a second satisfies. The invariant bounds how long a leader's record
can be unchanged, by the time left until it stops: `Polls` (where an attempt is relative to
the deadline), `Patience` (whoever leads is the holder, and nobody else has observed its record for
longer than `Bound`, the time it can have spent since its last success, and almost a second more
if that success left an equal record), `Observed` (nobody observed a record before its RenewTime, so that an equal renewal, which comes within a
second of it, leaves no old observation standing), `Answers` (what an answer under way says of the record) and
`Grounds` (an attempt to replace another holder's record that is still current rests on
a lease that is over, and then nobody leads). Two leaders would both be the holder. `RenewalFindsItself`, inductive on top of
it, says that a renewal reads and replaces the leader's own record only; `Untroubled` adds that, before
the first fault, the record is still as it was read and the first tick of `Poll` is in time,
so that no leader stops of itself.

**Only model-checked.** Liveness under fairness (`Terminates`, `QuittersEnd`,
`EveryItemProcessed`, `GuardIsAnswered`, `KillEnds`, `QuietSettles`, `Converges`,
`LeaderRemains`) is beyond the proof system. What these rest on is proved where it is a safety
property: no wake-up is lost (`NoLostWakeup`, `SleepersAreIdle`, `NoWakeupLost`), nobody is forgotten
(`NobodyIsForgotten`), a list repairs what was lost (`QuietListsRepair`), a leader that is left in
peace stays (`OnlyFaultsStop`). The violations are counterexamples that TLC
finds.

## 7. Plan

Done: the harness, the lease client and the abstract leases, the lease manager, the
workqueue, the fortress, the informer, leader election, each with its proofs.

1. Uniter operation executor: crash recovery from the state file between prepare,
   execute and commit.
2. Leadership tracker over the lease manager: tickets against renewals at half the
   duration.
3. Dependency engine, runner and catacomb: no worker outlives its engine.
4. Watch mux; controller expectations over the informer and the workqueue; the state
   watcher last.

Theorems to prove next: that the lease managers, with the clients in place of `Leases`,
keep what a granted claim promises except through the shortcut of finding 1
(`ClaimsSound` and `StaleCachesTellTheTruth` are its two halves); how many attempts a leader has
before its deadline when faults are bounded.

## 8. What the models leave out

* Clocks that are set back. `schema.go` tolerates a clock document that is a
  little ahead of its writer; here clocks are monotone and their offsets
  fixed, as `doc.go` assumes.
* Corrupt documents, and validation errors of names and durations: these
  return before anything is read or written.
* The mgo/txn internals (revision queues, the log of operations), and the `Trapdoor`
  by which other transactions assert that a lease is held. The client asserts
  every field of the entry it replaces, which the model compares as a whole.
* The `Trapdoor` and the validation by the `Secretary` in the lease manager; `OnNewLeader` and
  the count of transitions in the leader election record.
* Jitter. It only lengthens the pauses of `acquire`; a longer pause is a later
  `Start`, which the model allows.
* `AddIfNotPresent`, the compressor, and a FIFO without known objects: informers do
  not use them. Event handlers of informers are their users' code.
* Clocks of candidates that run at different rates. The package is "not tolerant to
  arbitrary clock skew rate" (`leaderelection.go` line 24); here the rates are equal.
* The components without a model in section 2. None is out of reach; they are left to
  the plan, since a faithful model of each is a project of the size of one of the
  modules above.
* Measured times. An orphaned build competes with the next pass for the
  processor and distorts what it measures; the model has the orphan, not the
  distortion.
* Names, output text, logging and metrics.
