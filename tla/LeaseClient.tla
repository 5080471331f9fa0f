----------------------------- MODULE LeaseClient -----------------------------
(***************************************************************************)
(* juju's state/lease clients: one per controller, each with a clock of    *)
(* its own and a cache, sharing the lease documents and the clock document *)
(* of one namespace through mgo/txn transactions.                          *)
(*                                                                         *)
(* All clocks run at the same rate (state/lease/doc.go assumes it) and are *)
(* apart by fixed offsets: client c reads now + Offset[c].  Time 0 is Go's *)
(* zero time.Time, which no clock shows.  A client runs one operation at a *)
(* time; other clients, and time, move between any two of its accesses to  *)
(* the clock or to the database.                                           *)
(***************************************************************************)
EXTENDS Integers

CONSTANTS
  Clients, Names, Holders,
  Durations,   \* the durations that are requested
  Offset,      \* Offset[c]: what c's clock shows at time 0
  NrRetries,   \* attempts of the transaction runner (3 in the code)
  Faulty,      \* the clients that may fail
  MaxTime,     \* bound on the time
  MaxFaults,   \* bound on the failures
  None         \* no lease, no holder

Entry   == [holder : Holders, expiry : Nat, writer : Clients]
Entries == Entry \cup {None}

ASSUME SetsAssumption     == Clients # {} /\ Names # {} /\ Holders # {} /\ Faulty \subseteq Clients
ASSUME DurationAssumption == Durations \subseteq Nat \ {0}
ASSUME OffsetAssumption   == Offset \in [Clients -> Nat]
ASSUME RetryAssumption    == NrRetries \in Nat \ {0}
ASSUME BoundAssumption    == {MaxTime, MaxFaults} \subseteq Nat
ASSUME NoneAssumption     == None \notin Entry \cup Holders

VARIABLES
  now,       \* the time
  leaseDoc,  \* the lease documents: one entry, or none, for each name
  clockDoc,  \* the clock document: the last time each writer acknowledged, or 0
  queued,    \* transactions whose runner is gone, which anyone may resume
  faults,    \* how many failures there have been
  applying,  \* the transactions whose clock is written and whose lease is not
  entries, skews,  \* the clients' caches
  pc,        \* where each client is in its operation
  call,      \* the operation it runs
  scan,      \* what its Refresh has read so far
  txn,       \* the transaction it has built
  promised,  \* history: until when a written lease was promised to a holder
  assured    \* history: the same for an ExtendLease that wrote nothing

db     == <<leaseDoc, clockDoc, queued, applying, faults>>
caches == <<entries, skews>>
vars   == <<now, db, caches, pc, call, scan, txn, promised, assured>>

Now(c) == now + Offset[c]
Later(s, t) == IF s < t THEN t ELSE s

-----------------------------------------------------------------------------
(* skew.go.  Missing map keys read as the zero Skew.                       *)

Skew     == [lastWrite : Nat, beginning : Nat, end : Nat]
ZeroSkew == [lastWrite |-> 0, beginning |-> 0, end |-> 0]

(* Defect: Latest is computed from the beginning of the read window.       *)
LatestFromBeginning(skew, remote) ==
  IF skew = ZeroSkew THEN remote ELSE (skew.beginning + remote) - skew.lastWrite

Earliest(skew, remote) ==
  IF skew = ZeroSkew THEN remote ELSE (skew.beginning + remote) - skew.lastWrite

Latest(skew, remote) ==
  IF skew = ZeroSkew THEN remote ELSE (skew.end + remote) - skew.lastWrite

-----------------------------------------------------------------------------
Kinds == {"refresh", "claim", "extend", "expire"}

Calls == [kind : Kinds, name : Names, holder : Holders \cup {None},
          duration : Nat, until : Nat, attempt : 0 .. NrRetries - 1]
Scans == [todo : SUBSET Names, entries : [Names -> Entries],
          beginning : Nat, clock : [Clients -> Nat]]
Txns  == [writer : Clients, clock : Nat, name : Names, old : Entries, new : Entries]

RefreshCall == [kind |-> "refresh", name |-> CHOOSE x \in Names : TRUE,
                holder |-> None,
                duration |-> 0, until |-> 0, attempt |-> 0]
NewScan  == [todo |-> Names, entries |-> [x \in Names |-> None],
             beginning |-> 0, clock |-> [w \in Clients |-> 0]]
NoTxn(c) == [writer |-> c, clock |-> 0, name |-> CHOOSE x \in Names : TRUE,
             old |-> None, new |-> None]

(* The operation of c ends, or its process is gone.                        *)
Finish(c) ==
  /\ pc'   = [pc EXCEPT ![c] = "idle"]
  /\ call' = [call EXCEPT ![c] = RefreshCall]
  /\ scan' = [scan EXCEPT ![c] = NewScan]
  /\ txn'  = [txn EXCEPT ![c] = NoTxn(c)]

(* ensureClockDoc finds a clock document, or creates one without writers.  *)
EmptyClock == [w \in Clients |-> 0]

(* Every client starts in NewClient, about to Refresh.                     *)
Init ==
  /\ now = 1
  /\ leaseDoc = [x \in Names |-> None]
  /\ clockDoc = EmptyClock
  /\ queued = {} /\ applying = {} /\ faults = 0
  /\ entries = [c \in Clients |-> [x \in Names |-> None]]
  /\ skews = [c \in Clients |-> [w \in Clients |-> ZeroSkew]]
  /\ pc = [c \in Clients |-> "entries"]
  /\ call = [c \in Clients |-> RefreshCall]
  /\ scan = [c \in Clients |-> NewScan]
  /\ txn = [c \in Clients |-> NoTxn(c)]
  /\ promised = [x \in Names |-> [h \in Holders |-> 0]]
  /\ assured = [x \in Names |-> [h \in Holders |-> 0]]

(* The history variables forget the promises that have run out.            *)
Running(promises) ==
  [x \in Names |-> [h \in Holders |-> IF promises[x][h] <= now THEN 0 ELSE promises[x][h]]]

Tick ==
  /\ now < MaxTime
  /\ now' = now + 1
  /\ promised' = Running(promised) /\ assured' = Running(assured)
  /\ UNCHANGED <<db, caches, pc, call, scan, txn>>

-----------------------------------------------------------------------------
(* Refresh, an operation of its own and the start of every retry.          *)

Refresh(c) ==
  /\ pc[c] = "idle"
  /\ pc' = [pc EXCEPT ![c] = "entries"]
  /\ UNCHANGED <<now, db, caches, call, scan, txn, promised, assured>>

(* readEntries: the cursor reads the lease documents one by one.           *)
ReadEntry(c, x) ==
  /\ pc[c] = "entries" /\ x \in scan[c].todo
  /\ scan' = [scan EXCEPT ![c].todo = @ \ {x}, ![c].entries[x] = leaseDoc[x]]
  /\ pc' = [pc EXCEPT ![c] = IF scan[c].todo = {x} THEN "beginning" ELSE @]
  /\ UNCHANGED <<now, db, caches, call, txn, promised, assured>>

(* readSkews: the local time before and after the clock document is read.  *)
ReadBeginning(c) ==
  /\ pc[c] = "beginning"
  /\ scan' = [scan EXCEPT ![c].beginning = Now(c)]
  /\ pc' = [pc EXCEPT ![c] = "clock"]
  /\ UNCHANGED <<now, db, caches, call, txn, promised, assured>>

ReadClock(c) ==
  /\ pc[c] = "clock"
  /\ scan' = [scan EXCEPT ![c].clock = clockDoc]
  /\ pc' = [pc EXCEPT ![c] = "end"]
  /\ UNCHANGED <<now, db, caches, call, txn, promised, assured>>

(* A skew that tells nothing new is not replaced; a client has none        *)
(* against itself.                                                         *)
NewSkew(c, w) ==
  IF \/ w = c
     \/ scan[c].clock[w] = 0
  THEN ZeroSkew
  ELSE IF skews[c][w].lastWrite = scan[c].clock[w] THEN skews[c][w]
  ELSE [lastWrite |-> scan[c].clock[w], beginning |-> scan[c].beginning,
        end |-> Now(c)]

HasClockData(c) ==
  \A x \in Names : scan[c].entries[x] # None =>
    LET w == scan[c].entries[x].writer IN w = c \/ scan[c].clock[w] > 0

(* The caches are replaced together, unless clock data are missing; then   *)
(* the operation fails.  A retried operation goes on to build its ops.     *)
FinishRefresh(c) ==
  /\ pc[c] = "end"
  /\ IF HasClockData(c)
     THEN /\ entries' = [entries EXCEPT ![c] = scan[c].entries]
          /\ skews' = [skews EXCEPT ![c] = [w \in Clients |-> NewSkew(c, w)]]
     ELSE UNCHANGED caches
  /\ IF HasClockData(c) /\ call[c].kind # "refresh"
     THEN /\ pc' = [pc EXCEPT ![c] = "build"]
          /\ scan' = [scan EXCEPT ![c] = NewScan]
          /\ UNCHANGED <<call, txn>>
     ELSE Finish(c)
  /\ UNCHANGED <<now, db, promised, assured>>
-----------------------------------------------------------------------------
(* claimLeaseOps, extendLeaseOps and expireLeaseOps decide from the cache  *)
(* what becomes of the operation op.                                       *)

Cached(c, op) == entries[c][op.name]
CachedSkew(c, op) == skews[c][Cached(c, op).writer]
Wanted(c, op) == Now(c) + op.duration

(* ErrInvalid: the operation contradicts the cache.                        *)
ClaimInvalid(c, op)  == Cached(c, op) # None
ExtendInvalid(c, op) == Cached(c, op) # None => Cached(c, op).holder # op.holder
ExpireInvalid(c, op) ==
  Cached(c, op) # None => Now(c) <= Latest(CachedSkew(c, op), Cached(c, op).expiry)

Invalid(c, op) ==
  \/ op.kind = "claim"  /\ ClaimInvalid(c, op)
  \/ op.kind = "extend" /\ ExtendInvalid(c, op)
  \/ op.kind = "expire" /\ ExpireInvalid(c, op)

(* errNoExtension: the cached lease is taken to outlast the request.       *)
NeedsNoExtension(c, op) ==
  /\ op.kind = "extend"
  /\ Wanted(c, op) < Earliest(CachedSkew(c, op), Cached(c, op).expiry)

(* Defect: an extension ignores how long the old lease may still run.      *)
ExtendedTooShort(c, op) == Wanted(c, op)

ExtendedExpiry(c, op) ==
  Later(Wanted(c, op), Latest(CachedSkew(c, op), Cached(c, op).expiry))

ClaimEntry(c, op)  == [holder |-> op.holder, expiry |-> Wanted(c, op), writer |-> c]
ExtendEntry(c, op) == [holder |-> op.holder, expiry |-> ExtendedExpiry(c, op), writer |-> c]

NextEntry(c, op) ==
  CASE op.kind = "claim"  -> ClaimEntry(c, op)
    [] op.kind = "extend" -> ExtendEntry(c, op)
    [] op.kind = "expire" -> None

Reject(c, op) ==
  /\ Invalid(c, op)
  /\ Finish(c)
  /\ UNCHANGED <<now, db, caches, promised, assured>>

NoExtension(c, op) ==
  /\ ~Invalid(c, op) /\ NeedsNoExtension(c, op)
  /\ assured' = [assured EXCEPT ![op.name][op.holder] = Later(@, op.until)]
  /\ Finish(c)
  /\ UNCHANGED <<now, db, caches, promised>>

(* The transaction acknowledges the local time in the clock document, and  *)
(* replaces the cached entry by the next one.                              *)
BuildTxn(c, op) ==
  /\ ~Invalid(c, op) /\ ~NeedsNoExtension(c, op)
  /\ txn' = [txn EXCEPT ![c] = [writer |-> c, clock |-> Now(c), name |-> op.name,
                                old |-> Cached(c, op), new |-> NextEntry(c, op)]]
  /\ pc' = [pc EXCEPT ![c] = "run"]
  /\ call' = [call EXCEPT ![c] = op]
  /\ UNCHANGED <<now, db, caches, scan, promised, assured>>

Attempt(c, op) == Reject(c, op) \/ NoExtension(c, op) \/ BuildTxn(c, op)

(* The first attempt trusts the cache.  Nothing shared is read before its  *)
(* ops are built, so the call and that attempt are one step.               *)
Request(c, kind, x, h, d, until) ==
  /\ pc[c] = "idle"
  /\ Attempt(c, [kind |-> kind, name |-> x, holder |-> h, duration |-> d,
                 until |-> until, attempt |-> 0])

ClaimLease(c, x, h, d)  == Request(c, "claim", x, h, d, now + d)
ExtendLease(c, x, h, d) == Request(c, "extend", x, h, d, now + d)
ExpireLease(c, x)       == Request(c, "expire", x, None, 0, 0)

(* A later attempt builds its ops from the refreshed cache.                *)
Retry(c) == pc[c] = "build" /\ Attempt(c, call[c])

-----------------------------------------------------------------------------
(* The transaction runner.  mgo/txn applies the ops of a transaction one   *)
(* by one, in order, and a Refresh can read in between.  A document is     *)
(* locked until its op is applied, so transactions overlap only when they  *)
(* are about different leases.                                             *)

Locked(x) == \E t \in applying : t.name = x

(* The writer's clock does not go back, and the lease is as it was cached. *)
ClockAssert(t) == clockDoc[t.writer] <= t.clock
LeaseAssert(t) == leaseDoc[t.name] = t.old

(* Defect: the lease document is not compared with the cached one.         *)
AssertsClockOnly(t) == ClockAssert(t)

Asserts(t) == ClockAssert(t) /\ LeaseAssert(t)

(* Defect: the lease is written before the clock.                          *)
ApplyLeaseFirst(t, op) ==
  \/ op = 1 /\ leaseDoc' = [leaseDoc EXCEPT ![t.name] = t.new] /\ UNCHANGED clockDoc
  \/ op = 2 /\ clockDoc' = [clockDoc EXCEPT ![t.writer] = t.clock] /\ UNCHANGED leaseDoc

(* The clock is written first, then the lease.                             *)
ApplyOp(t, op) ==
  \/ /\ op = 1
     /\ clockDoc' = [clockDoc EXCEPT ![t.writer] = t.clock] /\ UNCHANGED leaseDoc
  \/ /\ op = 2
     /\ leaseDoc' = [leaseDoc EXCEPT ![t.name] = t.new] /\ UNCHANGED clockDoc

(* The asserts hold: the transaction will be applied.                      *)
RunTxn(c) ==
  /\ pc[c] = "run" /\ ~Locked(txn[c].name) /\ Asserts(txn[c])
  /\ ApplyOp(txn[c], 1) /\ applying' = applying \cup {txn[c]}
  /\ pc' = [pc EXCEPT ![c] = "apply"]
  /\ UNCHANGED <<now, queued, faults, caches, call, scan, txn, promised, assured>>

(* The operation succeeds; the cache follows.                              *)
Commit(c) ==
  /\ pc[c] = "apply"
  /\ ApplyOp(txn[c], 2) /\ applying' = applying \ {txn[c]}
  /\ entries' = [entries EXCEPT ![c][txn[c].name] = txn[c].new]
  /\ promised' = IF call[c].kind = "expire" THEN promised
                 ELSE [promised EXCEPT ![txn[c].name][call[c].holder] =
                         Later(@, call[c].until)]
  /\ Finish(c)
  /\ UNCHANGED <<now, queued, faults, skews, assured>>

(* Run makes NrRetries attempts in all.                                    *)
MayRetry(c) == call[c].attempt + 1 < NrRetries

(* txn.ErrAborted: try again on a refreshed cache, while attempts are left. *)
Abort(c) ==
  /\ pc[c] = "run" /\ ~Locked(txn[c].name) /\ ~Asserts(txn[c])
  /\ IF MayRetry(c)
     THEN /\ call' = [call EXCEPT ![c].attempt = @ + 1]
          /\ pc' = [pc EXCEPT ![c] = "entries"]
          /\ txn' = [txn EXCEPT ![c] = NoTxn(c)]
          /\ UNCHANGED scan
     ELSE Finish(c)
  /\ UNCHANGED <<now, db, caches, promised, assured>>

-----------------------------------------------------------------------------
(* Failures.                                                               *)

(* What the transaction runner leaves behind: a transaction in flight, or  *)
(* one that is half applied.                                               *)
LeaveBehind(c) ==
  /\ faults < MaxFaults /\ faults' = faults + 1
  /\ queued' = IF pc[c] = "run" THEN queued \cup {txn[c]} ELSE queued
  /\ UNCHANGED <<leaseDoc, clockDoc, applying>>

(* A read or a transaction fails: the operation ends with the error.       *)
Fail(c) ==
  /\ pc[c] \in {"entries", "clock", "run", "apply"}
  /\ LeaveBehind(c)
  /\ Finish(c)
  /\ UNCHANGED <<now, caches, promised, assured>>

(* The controller crashes; NewClient starts with empty caches.             *)
Restart(c) ==
  /\ LeaveBehind(c)
  /\ pc'   = [pc EXCEPT ![c] = "entries"]
  /\ call' = [call EXCEPT ![c] = RefreshCall]
  /\ scan' = [scan EXCEPT ![c] = NewScan]
  /\ txn'  = [txn EXCEPT ![c] = NoTxn(c)]
  /\ entries' = [entries EXCEPT ![c] = [x \in Names |-> None]]
  /\ skews' = [skews EXCEPT ![c] = [w \in Clients |-> ZeroSkew]]
  /\ UNCHANGED <<now, promised, assured>>

(* Some other runner takes up a transaction left behind, or aborts it.     *)
Resume(t) ==
  /\ t \in queued /\ queued' = queued \ {t}
  /\ ~Locked(t.name)
  /\ IF Asserts(t) THEN ApplyOp(t, 1) /\ applying' = applying \cup {t}
                   ELSE UNCHANGED <<leaseDoc, clockDoc, applying>>
  /\ UNCHANGED <<now, faults, caches, pc, call, scan, txn, promised, assured>>

(* Some other runner completes a transaction that was left half applied.   *)
ResumeApplying(t) ==
  /\ t \in applying /\ \A c \in Clients : pc[c] = "apply" => txn[c] # t
  /\ ApplyOp(t, 2) /\ applying' = applying \ {t}
  /\ UNCHANGED <<now, queued, faults, caches, pc, call, scan, txn, promised, assured>>

-----------------------------------------------------------------------------
Next ==
  \/ Tick
  \/ \E c \in Clients :
       \/ \E x \in Names, h \in Holders, d \in Durations :
            ClaimLease(c, x, h, d) \/ ExtendLease(c, x, h, d)
       \/ \E x \in Names : ExpireLease(c, x) \/ ReadEntry(c, x)
       \/ Refresh(c) \/ ReadBeginning(c) \/ ReadClock(c) \/ FinishRefresh(c)
       \/ Retry(c) \/ RunTxn(c) \/ Commit(c) \/ Abort(c)
  \/ \E c \in Faulty : Fail(c) \/ Restart(c)
  \/ \E t \in queued : Resume(t)
  \/ \E t \in applying : ResumeApplying(t)

Spec == Init /\ [][Next]_vars

-----------------------------------------------------------------------------
TypeOK ==
  /\ now \in Nat \ {0}
  /\ leaseDoc \in [Names -> Entries]
  /\ clockDoc \in [Clients -> Nat]
  /\ queued \subseteq Txns /\ applying \subseteq Txns
  /\ faults \in 0 .. MaxFaults
  /\ entries \in [Clients -> [Names -> Entries]]
  /\ skews \in [Clients -> [Clients -> Skew]]
  /\ pc \in [Clients -> {"idle", "entries", "beginning", "clock", "end", "build", "run", "apply"}]
  /\ call \in [Clients -> Calls]
  /\ scan \in [Clients -> Scans]
  /\ txn \in [Clients -> Txns]
  /\ promised \in [Names -> [Holders -> Nat]]
  /\ assured \in [Names -> [Holders -> Nat]]

(* The lease x belongs to h in the database.                               *)
Holds(x, h) == leaseDoc[x] # None /\ leaseDoc[x].holder = h

(* "A successful ClaimLease guarantees lease ownership until *at least*    *)
(* the requested duration after the start of the call" (doc.go), and so    *)
(* does an ExtendLease that writes: whatever the clocks show, and whatever *)
(* fails, no other client takes the lease from its holder before that.     *)
PromiseKept ==
  \A x \in Names, h \in Holders : now <= promised[x][h] => Holds(x, h)

(* "A successful ExtendLease makes the same guarantees" (doc.go): also for *)
(* the success that is decided from the cached skew alone.                 *)
ExtendPromiseKept ==
  \A x \in Names, h \in Holders : now < assured[x][h] => Holds(x, h)

(* "ExpireLease will only succeed when the most recent writer of the lease *)
(* is known to believe the time is after the expiry time it wrote"         *)
(* (doc.go).                                                               *)
ExpireSound ==
  [][\A x \in Names :
       (leaseDoc[x] # None /\ leaseDoc'[x] = None) =>
         Now(leaseDoc[x].writer) > leaseDoc[x].expiry]_vars

(* A lease that is rewritten keeps its holder, and is never shortened: the *)
(* new writer's clock reaches the new expiry no sooner than the old        *)
(* writer's reaches the old one (ExtendLease in doc.go).                   *)
NeverShortened ==
  [][\A x \in Names :
       (leaseDoc[x] # None /\ leaseDoc'[x] # None) =>
         /\ leaseDoc'[x].holder = leaseDoc[x].holder
         /\ leaseDoc'[x].expiry - Offset[leaseDoc'[x].writer]
              >= leaseDoc[x].expiry - Offset[leaseDoc[x].writer]]_vars

(* Leases: the expiry of a cached lease by the local clock.                *)
InfoExpiry(c, x) == Latest(skews[c][entries[c][x].writer], entries[c][x].expiry)

(* Info.Expiry: "the latest time at which it's possible the lease might    *)
(* still be valid" (core/lease/client.go).  A cache, however stale, never  *)
(* puts the expiry of the entry it holds before its writer does.           *)
CachedExpirySafe ==
  \A c \in Clients, x \in Names : entries[c][x] # None =>
    InfoExpiry(c, x) - Offset[c]
      >= entries[c][x].expiry - Offset[entries[c][x].writer]

(* handleCheck trusts a snapshot that shows the lease with its holder      *)
(* (worker/lease/manager.go): a cached lease, however stale the cache is,  *)
(* is still that holder's, and for at least as long, until its writer's    *)
(* clock is past its expiry.                                               *)
CachedLeaseHolds ==
  \A c \in Clients, x \in Names :
    LET e == entries[c][x] IN
    e # None /\ Now(e.writer) <= e.expiry =>
      /\ Holds(x, e.holder)
      /\ leaseDoc[x].expiry - Offset[leaseDoc[x].writer] >= e.expiry - Offset[e.writer]

(* Refresh reads the entries before the clock, and transactions write the  *)
(* clock before the lease, so Refresh never meets a lease whose writer has *)
(* no clock data (the error in client.go's Refresh is unreachable).        *)
RefreshFindsWriters ==
  \A c \in Clients : pc[c] = "end" => HasClockData(c)

(* Whoever writes, and in whatever state the clients fail, the documents   *)
(* are leases: over when their writer's clock has passed the expiry.       *)
Abstract == INSTANCE Leases WITH
  holder <- [x \in Names |-> IF leaseDoc[x] = None THEN None ELSE leaseDoc[x].holder],
  lapsed <- {x \in Names : leaseDoc[x] # None /\ Now(leaseDoc[x].writer) > leaseDoc[x].expiry}

(* Refinement.  Claims, extensions and expiries of all clients, and the    *)
(* transactions that are resumed, are steps of one lease.                  *)
ImplementsLeases == Abstract!LeaseSpec
=============================================================================
