------------------------- MODULE LeaseClientProofs -------------------------
(***************************************************************************)
(* Proofs about the lease clients, for any number of clients, names,       *)
(* holders and durations, any clock offsets and any failures.              *)
(***************************************************************************)
EXTENDS LeaseClient, TLAPS

(* When, in real time, the writer of e sees e expire.                      *)
RealExpiry(e) == e.expiry - Offset[e.writer]

(* No clock document, and no copy of one, is ahead of its writer.          *)
ClockSound ==
  /\ \A w \in Clients : clockDoc[w] <= Now(w)
  /\ \A c \in Clients, w \in Clients : scan[c].clock[w] <= clockDoc[w]

(* A skew was computed after the write it is computed from.                *)
SkewSound ==
  \A c \in Clients, w \in Clients :
    \/ skews[c][w] = ZeroSkew
    \/ /\ w # c /\ skews[c][w].lastWrite > 0
       /\ skews[c][w].lastWrite - Offset[w] <= skews[c][w].end - Offset[c]

(* A cached entry comes with the skew of its writer.                       *)
CacheSound ==
  \A c \in Clients, x \in Names : entries[c][x] # None =>
    \/ entries[c][x].writer = c
    \/ skews[c][entries[c][x].writer] # ZeroSkew

(* The writer of a lease has written the clock, also by the time a Refresh *)
(* that has read the lease reads the clock.                                *)
WritersKnown ==
  /\ \A x \in Names : leaseDoc[x] # None => clockDoc[leaseDoc[x].writer] > 0
  /\ \A c \in Clients, x \in Names : scan[c].entries[x] # None =>
       /\ clockDoc[scan[c].entries[x].writer] > 0
       /\ pc[c] = "end" => scan[c].clock[scan[c].entries[x].writer] > 0

(* What a transaction may do to a lease, whenever it is applied.           *)
TxnSound(t) ==
  /\ t.clock > 0 /\ t.clock <= Now(t.writer)
  /\ t.new # None => t.new.writer = t.writer
  /\ t.old # None /\ t.new = None => RealExpiry(t.old) < now
  /\ t.old # None /\ t.new # None =>
       t.new.holder = t.old.holder /\ RealExpiry(t.new) >= RealExpiry(t.old)

TxnsSound ==
  /\ \A t \in queued \cup applying : TxnSound(t)
  /\ \A c \in Clients :
       txn[c].writer = c /\ (pc[c] \in {"run", "apply"} => TxnSound(txn[c]))

(* A half applied transaction has written the clock, still finds the lease *)
(* as it asserted it, and is the only one about that lease.                *)
ApplyingSound ==
  /\ \A t \in applying : leaseDoc[t.name] = t.old /\ clockDoc[t.writer] > 0
  /\ \A s, t \in applying : s.name = t.name => s = t
  /\ \A c \in Clients : pc[c] = "apply" => txn[c] \in applying

(* A request promises nothing that the entry it writes does not cover.     *)
CallSoundOf(c) ==
  /\ pc[c] \in {"build", "run", "apply"} => call[c].kind # "refresh"
  /\ call[c].kind \in {"claim", "extend"} =>
       call[c].holder \in Holders /\ call[c].until <= now + call[c].duration
  /\ pc[c] \in {"run", "apply"} /\ call[c].kind # "expire" =>
       /\ txn[c].new # None
       /\ txn[c].new.holder = call[c].holder
       /\ RealExpiry(txn[c].new) >= call[c].until
  /\ pc[c] \in {"run", "apply"} /\ call[c].kind = "expire" =>
       txn[c].old # None /\ txn[c].new = None

CallSound == \A c \in Clients : CallSoundOf(c)

(* A running promise is covered by the lease in the database.              *)
PromiseCovered ==
  \A x \in Names, h \in Holders : now <= promised[x][h] =>
    Holds(x, h) /\ RealExpiry(leaseDoc[x]) >= promised[x][h]

Inv ==
  /\ TypeOK
  /\ ClockSound /\ SkewSound /\ CacheSound /\ WritersKnown
  /\ TxnsSound /\ ApplyingSound /\ CallSound /\ PromiseCovered

-----------------------------------------------------------------------------
(* The values that the operations start from and end with are well typed.  *)
LEMMA InitialValues ==
  /\ RefreshCall \in Calls /\ NewScan \in Scans /\ ZeroSkew \in Skew
  /\ \A c \in Clients : NoTxn(c) \in Txns
<1>1. (CHOOSE x \in Names : TRUE) \in Names
  BY SetsAssumption
<1>2. RefreshCall \in Calls
  BY <1>1, RetryAssumption DEF RefreshCall, Calls, Kinds
<1>3. NewScan \in Scans
  BY DEF NewScan, Scans, Entries
<1>4. \A c \in Clients : NoTxn(c) \in Txns
  BY <1>1 DEF NoTxn, Txns, Entries
<1> QED
  BY <1>2, <1>3, <1>4 DEF ZeroSkew, Skew

(* Finish leaves a client's own variables well typed.                      *)
LEMMA FinishType ==
  ASSUME TypeOK, NEW c \in Clients, Finish(c)
  PROVE  /\ pc' \in [Clients -> {"idle", "entries", "beginning", "clock", "end", "build", "run", "apply"}]
         /\ call' \in [Clients -> Calls]
         /\ scan' \in [Clients -> Scans]
         /\ txn' \in [Clients -> Txns]
BY InitialValues DEF TypeOK, Finish

(* Earliest and Latest of skew.go are integers, possibly negative.         *)
LEMMA SkewType ==
  ASSUME NEW s \in Skew, NEW t \in Nat
  PROVE  Earliest(s, t) \in Int /\ Latest(s, t) \in Int
BY DEF Skew, Earliest, Latest

(* No clock shows time.Time's zero value.                                  *)
LEMMA NowType == ASSUME TypeOK, NEW c \in Clients PROVE Now(c) \in Nat \ {0}
BY OffsetAssumption DEF TypeOK, Now

(* The scan of a Refresh stays well typed as its parts are read.           *)
LEMMA ScanType ==
  ASSUME NEW s \in Scans
  PROVE  /\ \A x \in Names, e \in Entries :
              [s EXCEPT !.todo = @ \ {x}, !.entries[x] = e] \in Scans
         /\ \A t \in Nat : [s EXCEPT !.beginning = t] \in Scans
         /\ \A k \in [Clients -> Nat] : [s EXCEPT !.clock = k] \in Scans
BY DEF Scans

(* An operation as the code's callers can ask for it, or as it is retried. *)
Requested(op) ==
  /\ op \in Calls /\ op.kind # "refresh"
  /\ op.kind \in {"claim", "extend"} =>
       op.holder \in Holders /\ op.until <= now + op.duration

(* What an attempt builds is well typed: in particular an extended expiry  *)
(* is never negative, although a skew is a difference of clocks.           *)
LEMMA AttemptType ==
  ASSUME TypeOK, NEW c \in Clients, NEW op, Requested(op), Attempt(c, op)
  PROVE  TypeOK'
<1> USE DEF TypeOK
<1>1. Cached(c, op) \in Entries /\ Wanted(c, op) \in Nat
  BY NowType DEF Cached, Wanted, Requested, Calls
<1>2. CASE Reject(c, op)
  BY <1>2, FinishType DEF Reject, db, caches
<1>3. CASE NoExtension(c, op)
  <2>1. op.name \in Names /\ op.holder \in Holders /\ op.until \in Nat
    BY <1>3 DEF NoExtension, NeedsNoExtension, Requested, Calls
  <2>2. assured' \in [Names -> [Holders -> Nat]]
    BY <1>3, <2>1 DEF NoExtension, Later
  <2> QED
    BY <1>3, <2>2, FinishType DEF NoExtension, db, caches
<1>4. CASE BuildTxn(c, op)
  <2>1. NextEntry(c, op) \in Entries
    <3>1. CASE op.kind = "claim"
      BY <1>1, <3>1 DEF NextEntry, ClaimEntry, ExtendEntry, Entries, Entry, Requested
    <3>2. CASE op.kind = "extend"
      <4>1. Cached(c, op) # None
        BY <1>4, <3>2 DEF BuildTxn, Invalid, ExtendInvalid
      <4>2. Cached(c, op).expiry \in Nat /\ CachedSkew(c, op) \in Skew
        BY <1>1, <4>1 DEF Entries, Entry, CachedSkew
      <4>3. ExtendedExpiry(c, op) \in Nat
        BY <1>1, <4>2, SkewType DEF ExtendedExpiry, Later
      <4> QED
        BY <3>2, <4>3 DEF NextEntry, ClaimEntry, ExtendEntry, Entries, Entry, Requested
    <3>3. CASE op.kind = "expire"
      BY <3>3 DEF NextEntry, Entries
    <3> QED
      BY <3>1, <3>2, <3>3 DEF Requested, Calls, Kinds
  <2>2. txn' \in [Clients -> Txns]
    BY <1>1, <1>4, <2>1, NowType DEF BuildTxn, Txns, Requested, Calls
  <2>3. call' \in [Clients -> Calls]
    BY <1>4 DEF BuildTxn, Requested
  <2> QED
    BY <1>4, <2>2, <2>3 DEF BuildTxn, db, caches
<1> QED
  BY <1>2, <1>3, <1>4 DEF Attempt

(* A call of one of the three operations asks for a well-formed request.   *)
LEMMA RequestRequested ==
  ASSUME TypeOK, NEW x \in Names, NEW h \in Holders, NEW d \in Durations,
         NEW kind \in {"claim", "extend"}
  PROVE  Requested([kind |-> kind, name |-> x, holder |-> h, duration |-> d,
                    until |-> now + d, attempt |-> 0])
BY DurationAssumption, RetryAssumption DEF Requested, Calls, Kinds, TypeOK

(* A call of ExpireLease is a well-formed request.                         *)
LEMMA ExpireRequested ==
  ASSUME NEW x \in Names
  PROVE  Requested([kind |-> "expire", name |-> x, holder |-> None, duration |-> 0,
                    until |-> 0, attempt |-> 0])
BY RetryAssumption DEF Requested, Calls, Kinds

(* Every attempt, of a new call or of a retry, is for a sound request.     *)
LEMMA AttemptOfNext ==
  ASSUME TypeOK, CallSound, NEW c \in Clients,
         \/ \E x \in Names, h \in Holders, d \in Durations :
              ClaimLease(c, x, h, d) \/ ExtendLease(c, x, h, d)
         \/ \E x \in Names : ExpireLease(c, x)
         \/ Retry(c)
  PROVE  \E op : Requested(op) /\ Attempt(c, op) /\ pc[c] \in {"idle", "build"}
<1>1. CASE Retry(c)
  <2>1. Requested(call[c])
    BY <1>1 DEF Retry, Requested, CallSound, CallSoundOf, TypeOK
  <2> QED
    BY <1>1, <2>1 DEF Retry
<1>2. CASE \E x \in Names : ExpireLease(c, x)
  BY <1>2, ExpireRequested DEF ExpireLease, Request
<1>3. ASSUME NEW x \in Names, NEW h \in Holders, NEW d \in Durations,
             ClaimLease(c, x, h, d) \/ ExtendLease(c, x, h, d)
      PROVE  \E op : Requested(op) /\ Attempt(c, op) /\ pc[c] \in {"idle", "build"}
  BY <1>3, RequestRequested DEF ClaimLease, ExtendLease, Request
<1> QED
  BY <1>1, <1>2, <1>3

(* The steps of one client, by what they are: Refresh's five accesses, an  *)
(* attempt, and the end of a transaction.                                  *)
Attempts(c) == \E op : Requested(op) /\ Attempt(c, op) /\ pc[c] \in {"idle", "build"}

(* Next, with the calls and the retries taken together as attempts.        *)
LEMMA NextCases ==
  ASSUME TypeOK, CallSound, [Next]_vars
  PROVE  \/ Tick
         \/ \E c \in Clients :
              \/ Refresh(c) \/ (\E x \in Names : ReadEntry(c, x))
              \/ ReadBeginning(c) \/ ReadClock(c) \/ FinishRefresh(c)
              \/ Attempts(c) \/ RunTxn(c) \/ Commit(c) \/ Abort(c)
         \/ \E c \in Clients : Fail(c) \/ Restart(c)
         \/ \E t \in queued : Resume(t)
         \/ \E t \in applying : ResumeApplying(t)
         \/ UNCHANGED vars
<1>1. ASSUME NEW c \in Clients,
             \/ \E x \in Names, h \in Holders, d \in Durations :
                  ClaimLease(c, x, h, d) \/ ExtendLease(c, x, h, d)
             \/ \E x \in Names : ExpireLease(c, x)
             \/ Retry(c)
      PROVE  Attempts(c)
  BY <1>1, AttemptOfNext DEF Attempts
<1> QED
  BY <1>1, SetsAssumption DEF Next

(* What a failed runner leaves behind is a transaction.                    *)
LEMMA LeaveBehindType ==
  ASSUME TypeOK, NEW c \in Clients, LeaveBehind(c)
  PROVE  queued' \subseteq Txns /\ faults' \in 0 .. MaxFaults
BY BoundAssumption DEF TypeOK, LeaveBehind

(* Every step keeps the types.                                             *)
LEMMA TypeStep == TypeOK /\ CallSound /\ [Next]_vars => TypeOK'
<1> SUFFICES ASSUME TypeOK, CallSound, [Next]_vars PROVE TypeOK'
  OBVIOUS
<1> USE DEF TypeOK, db, caches
<1>1. CASE Tick
  BY <1>1 DEF Tick, Running
<1>2. ASSUME NEW c \in Clients, Refresh(c) PROVE TypeOK'
  BY <1>2 DEF Refresh
<1>3. ASSUME NEW c \in Clients, NEW x \in Names, ReadEntry(c, x) PROVE TypeOK'
  <2>1. scan' = [scan EXCEPT ![c] = [scan[c] EXCEPT !.todo = @ \ {x}, !.entries[x] = leaseDoc[x]]]
    BY <1>3 DEF ReadEntry
  <2>2. scan' \in [Clients -> Scans]
    BY <2>1, ScanType
  <2> QED
    BY <1>3, <2>2 DEF ReadEntry
<1>4. ASSUME NEW c \in Clients, ReadBeginning(c) PROVE TypeOK'
  <2>1. scan' = [scan EXCEPT ![c] = [scan[c] EXCEPT !.beginning = Now(c)]]
    BY <1>4 DEF ReadBeginning
  <2>2. scan' \in [Clients -> Scans]
    BY <2>1, ScanType, NowType
  <2> QED
    BY <1>4, <2>2 DEF ReadBeginning
<1>5. ASSUME NEW c \in Clients, ReadClock(c) PROVE TypeOK'
  <2>1. scan' = [scan EXCEPT ![c] = [scan[c] EXCEPT !.clock = clockDoc]]
    BY <1>5 DEF ReadClock
  <2>2. scan' \in [Clients -> Scans]
    BY <2>1, ScanType
  <2> QED
    BY <1>5, <2>2 DEF ReadClock
<1>6. ASSUME NEW c \in Clients, FinishRefresh(c) PROVE TypeOK'
  <2>1. \A w \in Clients : NewSkew(c, w) \in Skew
    BY InitialValues, NowType DEF NewSkew, Scans, Skew
  <2>2. entries' \in [Clients -> [Names -> Entries]] /\ skews' \in [Clients -> [Clients -> Skew]]
    <3>1. scan[c].entries \in [Names -> Entries]
      BY DEF Scans
    <3>2. [w \in Clients |-> NewSkew(c, w)] \in [Clients -> Skew]
      BY <2>1
    <3>3. CASE HasClockData(c)
      <4>1. /\ entries' = [entries EXCEPT ![c] = scan[c].entries]
            /\ skews' = [skews EXCEPT ![c] = [w \in Clients |-> NewSkew(c, w)]]
        BY ONLY <1>6, <3>3 DEF FinishRefresh
      <4>2. entries \in [Clients -> [Names -> Entries]] /\ skews \in [Clients -> [Clients -> Skew]]
        OBVIOUS
      <4> QED BY ONLY <3>1, <3>2, <4>1, <4>2
    <3>4. CASE ~HasClockData(c)
      BY <1>6, <3>4 DEF FinishRefresh
    <3> QED
      BY <3>3, <3>4
  <2>3. CASE HasClockData(c) /\ call[c].kind # "refresh"
    <3>1. /\ pc' = [pc EXCEPT ![c] = "build"]
          /\ scan' = [scan EXCEPT ![c] = NewScan]
          /\ UNCHANGED <<call, txn>>
      BY <1>6, <2>3 DEF FinishRefresh
    <3> QED
      BY <1>6, <2>2, <3>1, InitialValues DEF FinishRefresh
  <2>4. CASE ~(HasClockData(c) /\ call[c].kind # "refresh")
    <3>1. Finish(c)
      BY <1>6, <2>4 DEF FinishRefresh
    <3> QED
      BY <1>6, <2>2, <3>1, FinishType DEF FinishRefresh
  <2> QED
    BY <2>3, <2>4
<1>7. ASSUME NEW c \in Clients, Attempts(c) PROVE TypeOK'
  BY <1>7, AttemptType DEF Attempts
<1>8. ASSUME NEW c \in Clients, Commit(c) PROVE TypeOK'
  <2>1. txn[c] \in Txns /\ txn[c].name \in Names /\ txn[c].new \in Entries
        /\ txn[c].clock \in Nat /\ txn[c].writer \in Clients
    BY DEF Txns
  <2>2. leaseDoc' \in [Names -> Entries] /\ clockDoc' \in [Clients -> Nat]
        /\ entries' \in [Clients -> [Names -> Entries]]
    BY <1>8, <2>1 DEF Commit, ApplyOp
  <2>3. promised' \in [Names -> [Holders -> Nat]]
    <3>1. CASE call[c].kind = "expire"
      BY <1>8, <3>1 DEF Commit
    <3>2. CASE call[c].kind # "expire"
      <4>1. call[c].holder \in Holders /\ call[c].until \in Nat
        BY <1>8, <3>2 DEF Commit, CallSound, CallSoundOf, Calls, Kinds
      <4> QED
        BY <1>8, <2>1, <3>2, <4>1 DEF Commit, Later
    <3> QED
      BY <3>1, <3>2
  <2> QED
    BY <1>8, <2>2, <2>3, FinishType DEF Commit
<1>9. ASSUME NEW c \in Clients, Abort(c) PROVE TypeOK'
  <2>1. CASE MayRetry(c)
    <3>1. call[c].attempt + 1 \in 0 .. NrRetries - 1
      BY <2>1, RetryAssumption DEF MayRetry, Calls
    <3>2. [call[c] EXCEPT !.attempt = @ + 1] \in Calls
      BY <3>1 DEF Calls
    <3>3. call' = [call EXCEPT ![c] = [call[c] EXCEPT !.attempt = @ + 1]]
      BY <1>9, <2>1 DEF Abort
    <3> QED
      BY <1>9, <2>1, <3>2, <3>3, InitialValues DEF Abort
  <2>2. CASE ~MayRetry(c)
    BY <1>9, <2>2, FinishType DEF Abort
  <2> QED
    BY <2>1, <2>2
<1>10. ASSUME NEW c \in Clients, Fail(c) PROVE TypeOK'
  BY <1>10, FinishType, LeaveBehindType DEF Fail, LeaveBehind
<1>11. ASSUME NEW c \in Clients, Restart(c) PROVE TypeOK'
  BY <1>11, InitialValues, LeaveBehindType DEF Restart, LeaveBehind, Entries
<1>12. ASSUME NEW t \in queued, Resume(t) PROVE TypeOK'
  <2>1. t.name \in Names /\ t.new \in Entries /\ t.clock \in Nat /\ t.writer \in Clients
    BY DEF Txns
  <2>2. leaseDoc' \in [Names -> Entries] /\ clockDoc' \in [Clients -> Nat]
    BY <1>12, <2>1 DEF Resume, ApplyOp
  <2>3. queued' \subseteq Txns /\ applying' \subseteq Txns
    BY <1>12 DEF Resume
  <2> QED
    BY <1>12, <2>2, <2>3 DEF Resume
<1>13. ASSUME NEW t \in applying, ResumeApplying(t) PROVE TypeOK'
  <2>1. t.name \in Names /\ t.new \in Entries
    BY DEF Txns
  <2>2. leaseDoc' = [leaseDoc EXCEPT ![t.name] = t.new] /\ clockDoc' = clockDoc
    BY <1>13 DEF ResumeApplying, ApplyOp
  <2>3. leaseDoc' \in [Names -> Entries] /\ applying' \subseteq Txns
    BY <1>13, <2>1, <2>2 DEF ResumeApplying
  <2> QED
    BY <1>13, <2>2, <2>3 DEF ResumeApplying
<1>14. ASSUME NEW c \in Clients, RunTxn(c) PROVE TypeOK'
  <2>1. txn[c] \in Txns /\ txn[c].clock \in Nat /\ txn[c].writer \in Clients
    BY DEF Txns
  <2> QED
    BY <1>14, <2>1 DEF RunTxn, ApplyOp
<1>15. CASE UNCHANGED vars
  BY <1>15 DEF vars
<1> QED
  BY <1>1, <1>2, <1>3, <1>4, <1>5, <1>6, <1>7, <1>8, <1>9, <1>10, <1>11, <1>12, <1>13,
     <1>14, <1>15, NextCases

-----------------------------------------------------------------------------
(* What a step can do to the database: nothing, or apply the first or the  *)
(* second op of a transaction.                                             *)

AppliesClock(t) ==
  t \in Txns /\ TxnSound(t) /\ Asserts(t) /\ ApplyOp(t, 1) /\ now' = now

AppliesLease(t) ==
  /\ t \in Txns /\ TxnSound(t) /\ LeaseAssert(t) /\ clockDoc[t.writer] > 0
  /\ ApplyOp(t, 2) /\ now' = now

(* Time passes by single ticks.                                            *)
LEMMA TimeStep ==
  ASSUME TypeOK, CallSound, [Next]_vars
  PROVE  now' \in {now, now + 1}
BY NextCases DEF Tick, Refresh, ReadEntry, ReadBeginning, ReadClock, FinishRefresh,
   Attempts, Attempt, Reject, NoExtension, BuildTxn, RunTxn, Commit, Abort, Fail, Restart,
   Resume, ResumeApplying, vars

(* What a step can do to the half applied transactions: nothing, add one   *)
(* whose asserts hold and whose lease is not locked, or complete one.      *)
LEMMA ApplyingStep ==
  ASSUME TypeOK, CallSound, TxnsSound, ApplyingSound, [Next]_vars
  PROVE  \/ UNCHANGED <<leaseDoc, clockDoc, applying>>
         \/ \E t \in Txns : ~Locked(t.name) /\ AppliesClock(t) /\ applying' = applying \cup {t}
         \/ \E t \in applying : AppliesLease(t) /\ applying' = applying \ {t}
<1>1. ASSUME NEW c \in Clients, RunTxn(c)
      PROVE  /\ txn[c] \in Txns /\ ~Locked(txn[c].name) /\ AppliesClock(txn[c])
             /\ applying' = applying \cup {txn[c]}
  BY <1>1 DEF RunTxn, AppliesClock, TxnsSound, TypeOK
<1>2. ASSUME NEW t \in queued, Resume(t)
      PROVE  \/ UNCHANGED <<leaseDoc, clockDoc, applying>>
             \/ /\ t \in Txns /\ ~Locked(t.name) /\ AppliesClock(t)
                /\ applying' = applying \cup {t}
  BY <1>2 DEF Resume, AppliesClock, TxnsSound, TypeOK
<1>3. \A t \in applying : t \in Txns /\ TxnSound(t) /\ LeaseAssert(t) /\ clockDoc[t.writer] > 0
  BY DEF TypeOK, TxnsSound, ApplyingSound, LeaseAssert
<1>4. ASSUME NEW c \in Clients, Commit(c)
      PROVE  txn[c] \in applying /\ AppliesLease(txn[c]) /\ applying' = applying \ {txn[c]}
  <2>1. txn[c] \in applying
    BY <1>4 DEF Commit, ApplyingSound
  <2> QED
    BY <1>3, <1>4, <2>1 DEF Commit, AppliesLease
<1>5. ASSUME NEW t \in applying, ResumeApplying(t)
      PROVE  AppliesLease(t) /\ applying' = applying \ {t}
  BY <1>3, <1>5 DEF ResumeApplying, AppliesLease
<1>6. ASSUME NEW c \in Clients,
             \/ Refresh(c) \/ (\E x \in Names : ReadEntry(c, x)) \/ ReadBeginning(c)
             \/ ReadClock(c) \/ FinishRefresh(c) \/ Attempts(c) \/ Abort(c)
             \/ Fail(c) \/ Restart(c)
      PROVE  UNCHANGED <<leaseDoc, clockDoc, applying>>
  BY <1>6 DEF db, Refresh, ReadEntry, ReadBeginning, ReadClock, FinishRefresh, Attempts,
     Attempt, Reject, NoExtension, BuildTxn, Abort, Fail, Restart, LeaveBehind
<1>7. ASSUME Tick \/ UNCHANGED vars PROVE UNCHANGED <<leaseDoc, clockDoc, applying>>
  BY <1>7 DEF db, Tick, vars
<1> QED
  BY <1>1, <1>2, <1>4, <1>5, <1>6, <1>7, NextCases

(* Whatever is written is an op of a sound transaction whose asserts hold. *)
LEMMA DbStep ==
  ASSUME TypeOK, CallSound, TxnsSound, ApplyingSound, [Next]_vars
  PROVE  \/ UNCHANGED <<leaseDoc, clockDoc>>
         \/ \E t \in Txns : AppliesClock(t)
         \/ \E t \in Txns : AppliesLease(t)
BY ApplyingStep DEF TypeOK

(* A writer's clock never goes back in the clock document, nor past the    *)
(* writer's own clock.                                                     *)
LEMMA ClockMonotone ==
  ASSUME TypeOK, CallSound, TxnsSound, ApplyingSound, ClockSound, [Next]_vars,
         NEW w \in Clients
  PROVE  clockDoc[w] <= clockDoc'[w] /\ clockDoc'[w] <= Now(w)'
<1>1. clockDoc[w] \in Nat /\ now \in Nat /\ Offset[w] \in Nat
  BY OffsetAssumption DEF TypeOK
<1>2. clockDoc[w] <= Now(w) /\ Now(w) <= Now(w)'
  BY <1>1, TimeStep DEF ClockSound, Now
<1>3. CASE UNCHANGED <<leaseDoc, clockDoc>>
  BY <1>1, <1>2, <1>3, TimeStep DEF Now
<1>4. ASSUME NEW t \in Txns, AppliesClock(t)
      PROVE  clockDoc[w] <= clockDoc'[w] /\ clockDoc'[w] <= Now(w)'
  <2>1. t.clock \in Nat /\ t.clock <= Now(t.writer) /\ clockDoc[t.writer] <= t.clock
    BY <1>4 DEF AppliesClock, Asserts, ClockAssert, TxnSound, Txns
  <2>2. clockDoc'[w] = IF w = t.writer THEN t.clock ELSE clockDoc[w]
    BY <1>4 DEF AppliesClock, ApplyOp, TypeOK
  <2>3. Now(w)' = Now(w)
    BY <1>4 DEF AppliesClock, Now
  <2> QED
    BY <1>1, <1>2, <2>1, <2>2, <2>3
<1>5. ASSUME NEW t \in Txns, AppliesLease(t)
      PROVE  clockDoc[w] <= clockDoc'[w] /\ clockDoc'[w] <= Now(w)'
  <2>1. clockDoc' = clockDoc
    BY <1>5 DEF AppliesLease, ApplyOp
  <2> QED
    BY <1>1, <1>2, <2>1, TimeStep DEF Now
<1> QED
  BY <1>3, <1>4, <1>5, DbStep

(* What a step can do to the scan of a client: nothing, forget it, read a  *)
(* lease document, read the local clock, or read the clock document.       *)
LEMMA ScanStep ==
  ASSUME TypeOK, CallSound, [Next]_vars, NEW c \in Clients
  PROVE  \/ scan'[c] = scan[c] /\ (pc'[c] = "end" => pc[c] = "end")
         \/ scan'[c] = NewScan /\ pc'[c] # "end"
         \/ /\ UNCHANGED <<leaseDoc, clockDoc>>
            /\ scan'[c].clock = scan[c].clock /\ pc'[c] # "end"
            /\ \A x \in Names : scan'[c].entries[x] \in {scan[c].entries[x], leaseDoc[x]}
         \/ /\ UNCHANGED <<leaseDoc, clockDoc>>
            /\ scan'[c].clock = clockDoc /\ scan'[c].entries = scan[c].entries
<1> USE DEF TypeOK
<1>1. CASE Tick \/ (\E t \in queued : Resume(t)) \/ (\E t \in applying : ResumeApplying(t))
          \/ UNCHANGED vars
  BY <1>1 DEF Tick, Resume, ResumeApplying, vars
<1>2. PICK d \in Clients :
        \/ Refresh(d) \/ (\E x \in Names : ReadEntry(d, x))
        \/ ReadBeginning(d) \/ ReadClock(d) \/ FinishRefresh(d)
        \/ Attempts(d) \/ RunTxn(d) \/ Commit(d) \/ Abort(d) \/ Fail(d) \/ Restart(d)
        \/ UNCHANGED <<scan, pc>>
  BY <1>1, NextCases DEF Tick, Resume, ResumeApplying, vars
<1>3. CASE d # c
  BY <1>2, <1>3 DEF Refresh, ReadEntry, ReadBeginning, ReadClock, FinishRefresh,
     Attempts, Attempt, Reject, NoExtension, BuildTxn, RunTxn, Commit, Abort, Fail, Restart,
     Finish
<1>4. CASE d = c
  <2>1. ASSUME NEW x \in Names, ReadEntry(c, x)
        PROVE  /\ UNCHANGED <<leaseDoc, clockDoc>>
               /\ scan'[c].clock = scan[c].clock /\ pc'[c] # "end"
               /\ \A y \in Names : scan'[c].entries[y] \in {scan[c].entries[y], leaseDoc[y]}
    BY <2>1 DEF ReadEntry, db, Scans
  <2>2. ASSUME ReadBeginning(c)
        PROVE  /\ UNCHANGED <<leaseDoc, clockDoc>>
               /\ scan'[c].clock = scan[c].clock /\ pc'[c] # "end"
               /\ scan'[c].entries = scan[c].entries
    BY <2>2 DEF ReadBeginning, db, Scans
  <2>3. ASSUME ReadClock(c)
        PROVE  /\ UNCHANGED <<leaseDoc, clockDoc>>
               /\ scan'[c].clock = clockDoc /\ scan'[c].entries = scan[c].entries
    BY <2>3 DEF ReadClock, db, Scans
  <2>4. ASSUME FinishRefresh(c) \/ Commit(c) \/ Abort(c) \/ Fail(c) \/ Restart(c)
        PROVE  \/ scan'[c] = NewScan /\ pc'[c] # "end"
               \/ scan'[c] = scan[c] /\ pc'[c] # "end"
    BY <2>4 DEF FinishRefresh, Commit, Abort, Fail, Restart, Finish
  <2>5. ASSUME Refresh(c) \/ Attempts(c) \/ RunTxn(c)
        PROVE  \/ scan'[c] = NewScan /\ pc'[c] # "end"
               \/ scan'[c] = scan[c] /\ pc'[c] # "end"
    BY <2>5 DEF Refresh, Attempts, Attempt, Reject, NoExtension, BuildTxn, RunTxn, Finish
  <2> QED
    BY <1>2, <1>4, <2>1, <2>2, <2>3, <2>4, <2>5
<1> QED
  BY <1>3, <1>4

(* What a client reads of another one's clock is never ahead of it.        *)
LEMMA ClockSoundStep ==
  TypeOK /\ CallSound /\ TxnsSound /\ ApplyingSound /\ ClockSound /\ [Next]_vars => ClockSound'
<1> SUFFICES ASSUME TypeOK, CallSound, TxnsSound, ApplyingSound, ClockSound, [Next]_vars
             PROVE  ClockSound'
  OBVIOUS
<1>1. ASSUME NEW c \in Clients, NEW w \in Clients
      PROVE  scan'[c].clock[w] <= clockDoc'[w]
  <2>1. clockDoc[w] \in Nat /\ clockDoc'[w] \in Nat /\ scan[c].clock[w] \in Nat
    BY TypeStep DEF TypeOK, Scans
  <2>2. scan[c].clock[w] <= clockDoc[w] /\ clockDoc[w] <= clockDoc'[w]
    BY ClockMonotone DEF ClockSound
  <2>3. scan'[c].clock[w] \in {scan[c].clock[w], clockDoc[w], 0}
    BY ScanStep DEF NewScan
  <2> QED
    BY <2>1, <2>2, <2>3
<1> QED
  BY <1>1, ClockMonotone DEF ClockSound

(* The clock is written before the lease and read after it, so a lease is  *)
(* never met without the clock of its writer.                              *)
LEMMA WritersKnownStep ==
  TypeOK /\ CallSound /\ TxnsSound /\ ApplyingSound /\ ClockSound /\ WritersKnown /\ [Next]_vars
    => WritersKnown'
<1> SUFFICES ASSUME TypeOK, CallSound, TxnsSound, ApplyingSound, ClockSound, WritersKnown,
                    [Next]_vars
             PROVE  WritersKnown'
  OBVIOUS
<1>1. \A w \in Clients : clockDoc[w] \in Nat /\ clockDoc'[w] \in Nat /\ clockDoc[w] <= clockDoc'[w]
  BY ClockMonotone, TypeStep DEF TypeOK
<1>2. ASSUME NEW x \in Names, leaseDoc'[x] # None PROVE clockDoc'[leaseDoc'[x].writer] > 0
  <2>1. CASE UNCHANGED <<leaseDoc, clockDoc>>
    BY <1>2, <2>1 DEF WritersKnown
  <2>2. CASE leaseDoc'[x] = leaseDoc[x]
    <3>1. leaseDoc[x].writer \in Clients
      BY <1>2, <2>2 DEF TypeOK, Entries, Entry
    <3> QED
      BY <1>1, <1>2, <2>2, <3>1 DEF WritersKnown
  <2>3. ASSUME NEW t \in Txns, AppliesLease(t), leaseDoc'[x] # leaseDoc[x]
        PROVE  clockDoc'[leaseDoc'[x].writer] > 0
    <3>1. x = t.name /\ leaseDoc'[x] = t.new /\ clockDoc' = clockDoc
      BY <2>3 DEF AppliesLease, ApplyOp, TypeOK
    <3> QED
      BY <1>2, <2>3, <3>1 DEF AppliesLease, TxnSound
  <2>4. ASSUME NEW t \in Txns, AppliesClock(t) PROVE leaseDoc' = leaseDoc
    BY <2>4 DEF AppliesClock, ApplyOp
  <2> QED
    BY <2>1, <2>2, <2>3, <2>4, DbStep
<1>3. ASSUME NEW c \in Clients, NEW x \in Names, scan'[c].entries[x] # None
      PROVE  /\ clockDoc'[scan'[c].entries[x].writer] > 0
             /\ pc'[c] = "end" => scan'[c].clock[scan'[c].entries[x].writer] > 0
  <2> DEFINE w == scan'[c].entries[x].writer
  <2>1. w \in Clients
    <3>1. scan'[c].entries[x] \in Entry
      BY <1>3, TypeStep DEF TypeOK, Scans, Entries
    <3> QED
      BY <3>1 DEF Entry
  <2>2. CASE scan'[c] = scan[c] /\ (pc'[c] = "end" => pc[c] = "end")
    BY <1>1, <1>3, <2>1, <2>2 DEF WritersKnown
  <2>3. CASE scan'[c] = NewScan
    BY <1>3, <2>3 DEF NewScan
  <2>4. CASE /\ UNCHANGED <<leaseDoc, clockDoc>> /\ pc'[c] # "end"
             /\ \A y \in Names : scan'[c].entries[y] \in {scan[c].entries[y], leaseDoc[y]}
    BY <1>3, <2>4 DEF WritersKnown
  <2>5. CASE /\ UNCHANGED <<leaseDoc, clockDoc>>
             /\ scan'[c].clock = clockDoc /\ scan'[c].entries = scan[c].entries
    BY <1>3, <2>5 DEF WritersKnown
  <2> QED
    BY <2>2, <2>3, <2>4, <2>5, ScanStep
<1> QED
  BY <1>2, <1>3 DEF WritersKnown

(* What a step can do to a client's cache: nothing, record or drop what    *)
(* the client itself wrote, take over what a Refresh has read, or lose it. *)
LEMMA CacheStep ==
  ASSUME TypeOK, CallSound, TxnsSound, [Next]_vars, NEW c \in Clients
  PROVE  \/ /\ skews'[c] = skews[c]
            /\ \A x \in Names : \/ entries'[c][x] \in {entries[c][x], None}
                                \/ entries'[c][x] # None /\ entries'[c][x].writer = c
         \/ /\ pc[c] = "end" /\ HasClockData(c) /\ entries'[c] = scan[c].entries
            /\ skews'[c] = [w \in Clients |-> NewSkew(c, w)]
         \/ /\ skews'[c] = [w \in Clients |-> ZeroSkew]
            /\ entries'[c] = [x \in Names |-> None]
<1> USE DEF TypeOK
<1>1. CASE Tick \/ (\E t \in queued : Resume(t)) \/ (\E t \in applying : ResumeApplying(t))
          \/ UNCHANGED vars
  BY <1>1 DEF Tick, Resume, ResumeApplying, vars, caches
<1>2. ASSUME NEW d \in Clients,
             Refresh(d) \/ (\E x \in Names : ReadEntry(d, x)) \/ ReadBeginning(d)
             \/ ReadClock(d) \/ Attempts(d) \/ RunTxn(d) \/ Abort(d) \/ Fail(d)
      PROVE  UNCHANGED <<entries, skews>>
  BY <1>2 DEF Refresh, ReadEntry, ReadBeginning, ReadClock, Attempts, Attempt, Reject,
     NoExtension, BuildTxn, RunTxn, Abort, Fail, caches
<1>3. ASSUME NEW d \in Clients, Commit(d)
      PROVE  /\ skews'[c] = skews[c]
             /\ \A x \in Names : \/ entries'[c][x] \in {entries[c][x], None}
                                 \/ entries'[c][x] # None /\ entries'[c][x].writer = c
  <2>1. txn[d].name \in Names /\ (txn[d].new # None => txn[d].new.writer = d)
    BY <1>3 DEF Commit, TxnsSound, TxnSound, Txns
  <2> QED
    BY <1>3, <2>1 DEF Commit
<1>4. ASSUME NEW d \in Clients, FinishRefresh(d), d = c
      PROVE  \/ UNCHANGED <<entries, skews>>
             \/ /\ pc[c] = "end" /\ HasClockData(c) /\ entries'[c] = scan[c].entries
                /\ skews'[c] = [w \in Clients |-> NewSkew(c, w)]
  BY <1>4 DEF FinishRefresh, caches
<1>5. ASSUME NEW d \in Clients, FinishRefresh(d) \/ Restart(d), d # c
      PROVE  entries'[c] = entries[c] /\ skews'[c] = skews[c]
  BY <1>5 DEF FinishRefresh, Restart, caches
<1>6. ASSUME NEW d \in Clients, Restart(d), d = c
      PROVE  /\ skews'[c] = [w \in Clients |-> ZeroSkew]
             /\ entries'[c] = [x \in Names |-> None]
  BY <1>6 DEF Restart
<1> QED
  BY <1>1, <1>2, <1>3, <1>4, <1>5, <1>6, NextCases

(* The window in which readSkews reads the clock ends after the write it   *)
(* sees.                                                                   *)
LEMMA SkewSoundStep ==
  TypeOK /\ CallSound /\ TxnsSound /\ ClockSound /\ SkewSound /\ [Next]_vars => SkewSound'
<1> SUFFICES ASSUME TypeOK, CallSound, TxnsSound, ClockSound, SkewSound, [Next]_vars,
                    NEW c \in Clients, NEW w \in Clients
             PROVE  \/ skews'[c][w] = ZeroSkew
                    \/ /\ w # c /\ skews'[c][w].lastWrite > 0
                       /\ skews'[c][w].lastWrite - Offset[w] <= skews'[c][w].end - Offset[c]
  BY DEF SkewSound
<1>1. CASE skews'[c] = skews[c]
  BY <1>1 DEF SkewSound
<1>2. CASE skews'[c] = [v \in Clients |-> ZeroSkew]
  BY <1>2
<1>3. CASE skews'[c] = [v \in Clients |-> NewSkew(c, v)]
  <2>1. skews'[c][w] = NewSkew(c, w)
    BY <1>3
  <2>2. CASE NewSkew(c, w) \in {ZeroSkew, skews[c][w]}
    BY <2>1, <2>2 DEF SkewSound
  <2>3. CASE /\ w # c /\ scan[c].clock[w] # 0
             /\ NewSkew(c, w) = [lastWrite |-> scan[c].clock[w],
                                 beginning |-> scan[c].beginning, end |-> Now(c)]
    <3>1. scan[c].clock[w] \in Nat /\ clockDoc[w] \in Nat /\ now \in Nat
          /\ Offset[w] \in Nat /\ Offset[c] \in Nat
      BY OffsetAssumption DEF TypeOK, Scans
    <3>2. scan[c].clock[w] <= clockDoc[w] /\ clockDoc[w] <= now + Offset[w]
      BY DEF ClockSound, Now
    <3> QED
      BY <2>1, <2>3, <3>1, <3>2 DEF Now
  <2> QED
    BY <2>2, <2>3 DEF NewSkew
<1> QED
  BY <1>1, <1>2, <1>3, CacheStep

(* Refresh replaces entries and skews together, so that an entry always has *)
(* the skew of its writer.                                                 *)
LEMMA CacheSoundStep ==
  TypeOK /\ CallSound /\ TxnsSound /\ SkewSound /\ CacheSound /\ [Next]_vars => CacheSound'
<1> SUFFICES ASSUME TypeOK, CallSound, TxnsSound, SkewSound, CacheSound, [Next]_vars,
                    NEW c \in Clients, NEW x \in Names, entries'[c][x] # None
             PROVE  \/ entries'[c][x].writer = c
                    \/ skews'[c][entries'[c][x].writer] # ZeroSkew
  BY DEF CacheSound
<1>1. CASE /\ skews'[c] = skews[c]
           /\ \/ entries'[c][x] \in {entries[c][x], None}
              \/ entries'[c][x] # None /\ entries'[c][x].writer = c
  BY <1>1 DEF CacheSound
<1>2. CASE entries'[c] = [y \in Names |-> None]
  BY <1>2
<1>3. CASE /\ HasClockData(c) /\ entries'[c] = scan[c].entries
           /\ skews'[c] = [w \in Clients |-> NewSkew(c, w)]
  <2> DEFINE w == entries'[c][x].writer
  <2>1. w \in Clients
    <3>1. entries'[c][x] \in Entry
      BY TypeStep DEF TypeOK, Entries
    <3> QED
      BY <3>1 DEF Entry
  <2>2. w = c \/ scan[c].clock[w] > 0
    BY <1>3 DEF HasClockData
  <2>3. skews'[c][w] = NewSkew(c, w)
    BY <1>3, <2>1
  <2>4. skews[c][w] \in Skew /\ scan[c].clock[w] \in Nat
    BY <2>1 DEF TypeOK, Scans
  <2>5. ASSUME w # c PROVE NewSkew(c, w).lastWrite = scan[c].clock[w]
    BY <2>2, <2>5, <2>4 DEF NewSkew
  <2> QED
    BY <2>2, <2>3, <2>4, <2>5 DEF ZeroSkew
<1> QED
  BY <1>1, <1>2, <1>3, CacheStep

(* The latest local time computed from a cached entry is no earlier than   *)
(* the moment at which the entry's writer sees it expire.                  *)
LEMMA LatestSafe ==
  ASSUME TypeOK, SkewSound, CacheSound, NEW c \in Clients, NEW x \in Names,
         entries[c][x] # None
  PROVE  Latest(skews[c][entries[c][x].writer], entries[c][x].expiry) - Offset[c]
           >= RealExpiry(entries[c][x])
<1> DEFINE e == entries[c][x]
           s == skews[c][e.writer]
<1>1. e.writer \in Clients /\ e.expiry \in Nat
  BY DEF TypeOK, Entries, Entry
<1>2. s.lastWrite \in Nat /\ s.end \in Nat /\ Offset[c] \in Nat /\ Offset[e.writer] \in Nat
  BY <1>1, OffsetAssumption DEF TypeOK, Skew
<1>3. CASE s = ZeroSkew
  <2>1. e.writer = c
    BY <1>3 DEF CacheSound
  <2> QED
    BY <1>1, <1>2, <1>3, <2>1 DEF Latest, RealExpiry
<1>4. CASE s # ZeroSkew
  <2>1. s.lastWrite - Offset[e.writer] <= s.end - Offset[c]
    BY <1>1, <1>4 DEF SkewSound
  <2>2. Latest(s, e.expiry) = (s.end + e.expiry) - s.lastWrite
    BY <1>4 DEF Latest
  <2> HIDE DEF s, e
  <2>3. ((s.end + e.expiry) - s.lastWrite) - Offset[c] >= e.expiry - Offset[e.writer]
    BY <1>1, <1>2, <2>1
  <2> QED
    BY <2>2, <2>3 DEF RealExpiry, s, e
<1> QED
  BY <1>3, <1>4

(* A transaction built from the cache is sound, and covers what its        *)
(* request promises.                                                       *)
LEMMA BuildSound ==
  ASSUME TypeOK, SkewSound, CacheSound, NEW c \in Clients, NEW op, Requested(op),
         BuildTxn(c, op)
  PROVE  /\ TxnSound(txn'[c])
         /\ txn'[c].writer = c
         /\ op.kind # "expire" =>
              /\ txn'[c].new # None
              /\ txn'[c].new.holder = op.holder
              /\ RealExpiry(txn'[c].new) >= op.until
         /\ op.kind = "expire" => txn'[c].old # None /\ txn'[c].new = None
<1> DEFINE t == txn'[c]
<1>1. t = [writer |-> c, clock |-> Now(c), name |-> op.name,
           old |-> Cached(c, op), new |-> NextEntry(c, op)]
  BY DEF BuildTxn, TypeOK
<1>2. t.writer = c /\ t.clock = Now(c) /\ t.old = Cached(c, op) /\ t.new = NextEntry(c, op)
  BY <1>1
<1> HIDE DEF t
<1>3. Now(c) > 0 /\ Now(c) = now + Offset[c] /\ now \in Nat /\ Offset[c] \in Nat /\ now > 0
  BY NowType, OffsetAssumption DEF Now, TypeOK
<1>4. op.name \in Names /\ op.duration \in Nat /\ op.until \in Nat
      /\ op.kind \in {"claim", "extend", "expire"} /\ Wanted(c, op) = Now(c) + op.duration
  BY DEF Requested, Calls, Kinds, Wanted
<1>5. ASSUME Cached(c, op) # None
      PROVE  /\ Latest(CachedSkew(c, op), Cached(c, op).expiry) \in Int
             /\ Latest(CachedSkew(c, op), Cached(c, op).expiry) - Offset[c]
                  >= RealExpiry(Cached(c, op))
             /\ RealExpiry(Cached(c, op)) \in Int
  <2>1. Cached(c, op).expiry \in Nat /\ Cached(c, op).writer \in Clients
    BY <1>4, <1>5 DEF Cached, TypeOK, Entries, Entry
  <2>2. CachedSkew(c, op) \in Skew
    BY <1>4, <2>1 DEF CachedSkew, TypeOK
  <2> QED
    BY <1>4, <1>5, <2>1, <2>2, LatestSafe, SkewType, OffsetAssumption
       DEF Cached, CachedSkew, RealExpiry
<1>6. None \notin Entry
  BY NoneAssumption
<1>7. CASE op.kind = "claim"
  <2>1. Cached(c, op) = None
    BY <1>7 DEF BuildTxn, Invalid, ClaimInvalid
  <2>2. NextEntry(c, op) = [holder |-> op.holder, expiry |-> Wanted(c, op), writer |-> c]
    BY <1>7 DEF NextEntry, ClaimEntry
  <2>3. op.holder \in Holders /\ op.until <= now + op.duration
    BY <1>7 DEF Requested
  <2>4. NextEntry(c, op) \in Entry
    BY <1>3, <1>4, <2>2, <2>3 DEF Entry
  <2> QED
    BY <1>2, <1>3, <1>4, <1>6, <1>7, <2>1, <2>2, <2>3, <2>4 DEF TxnSound, RealExpiry, t
<1>8. CASE op.kind = "extend"
  <2>1. Cached(c, op) # None /\ Cached(c, op).holder = op.holder
    BY <1>8 DEF BuildTxn, Invalid, ExtendInvalid
  <2>2. NextEntry(c, op) = [holder |-> op.holder, expiry |-> ExtendedExpiry(c, op), writer |-> c]
    BY <1>8 DEF NextEntry, ExtendEntry
  <2>3. op.holder \in Holders /\ op.until <= now + op.duration
    BY <1>8 DEF Requested
  <2>4. /\ ExtendedExpiry(c, op) >= Wanted(c, op) /\ ExtendedExpiry(c, op) \in Nat
        /\ ExtendedExpiry(c, op) >= Latest(CachedSkew(c, op), Cached(c, op).expiry)
    BY <1>3, <1>4, <1>5, <2>1 DEF ExtendedExpiry, Later
  <2>5. NextEntry(c, op) \in Entry
    BY <2>2, <2>3, <2>4 DEF Entry
  <2>6. /\ NextEntry(c, op).holder = op.holder /\ NextEntry(c, op).writer = c
        /\ RealExpiry(NextEntry(c, op)) = ExtendedExpiry(c, op) - Offset[c]
    BY <2>2 DEF RealExpiry
  <2>7. RealExpiry(NextEntry(c, op)) >= RealExpiry(Cached(c, op))
    BY <1>3, <1>5, <2>1, <2>4, <2>6
  <2>8. RealExpiry(NextEntry(c, op)) >= op.until
    BY <1>3, <1>4, <2>3, <2>4, <2>6
  <2> QED
    BY <1>2, <1>3, <1>4, <1>6, <1>8, <2>1, <2>5, <2>6, <2>7, <2>8 DEF TxnSound, t
<1>9. CASE op.kind = "expire"
  <2>1. Cached(c, op) # None /\ ~(Now(c) <= Latest(CachedSkew(c, op), Cached(c, op).expiry))
    BY <1>9 DEF BuildTxn, Invalid, ExpireInvalid
  <2>2. NextEntry(c, op) = None
    BY <1>9 DEF NextEntry
  <2>3. RealExpiry(Cached(c, op)) < now
    BY <1>3, <1>5, <2>1
  <2> QED
    BY <1>2, <1>3, <1>9, <2>1, <2>2, <2>3 DEF TxnSound, t
<1> QED
  BY <1>4, <1>7, <1>8, <1>9

(* A sound transaction stays sound as time passes.                         *)
LEMMA TxnStaysSound ==
  ASSUME TypeOK, CallSound, [Next]_vars, NEW t \in Txns, TxnSound(t)
  PROVE  TxnSound(t)'
<1>1. now \in Nat /\ now' \in Nat /\ now' >= now
  BY TimeStep DEF TypeOK
<1>2. t.clock \in Nat /\ Offset[t.writer] \in Nat
  BY OffsetAssumption DEF Txns
<1>3. t.clock <= Now(t.writer)'
  BY <1>1, <1>2 DEF TxnSound, Now
<1>4. ASSUME t.old # None PROVE RealExpiry(t.old) \in Int
  BY <1>4, OffsetAssumption DEF Txns, Entries, Entry, RealExpiry
<1> QED
  BY <1>1, <1>3, <1>4 DEF TxnSound, RealExpiry

(* What a step can do to a client's operation: nothing, build a            *)
(* transaction, begin to apply it, or go on to something else.             *)
LEMMA OperationStep ==
  ASSUME TypeOK, CallSound, TxnsSound, [Next]_vars, NEW c \in Clients
  PROVE  \/ pc'[c] = pc[c] /\ txn'[c] = txn[c] /\ call'[c] = call[c]
         \/ \E op : Requested(op) /\ BuildTxn(c, op)
         \/ RunTxn(c) /\ pc'[c] = "apply" /\ txn'[c] = txn[c] /\ call'[c] = call[c]
         \/ /\ pc'[c] \notin {"run", "apply"} /\ txn'[c].writer = c
            /\ \/ call'[c] = RefreshCall /\ pc'[c] # "build"
               \/ call'[c] = call[c] /\ (pc'[c] = "build" => call[c].kind # "refresh")
               \/ call'[c] = [call[c] EXCEPT !.attempt = @ + 1] /\ pc'[c] # "build"
<1> USE DEF TypeOK
<1> DEFINE Same == pc'[c] = pc[c] /\ txn'[c] = txn[c] /\ call'[c] = call[c]
           Ended == pc'[c] \in {"idle", "entries"} /\ txn'[c].writer = c /\ call'[c] = RefreshCall
<1>1. CASE Tick \/ (\E t \in queued : Resume(t)) \/ (\E t \in applying : ResumeApplying(t))
          \/ UNCHANGED vars
  BY <1>1 DEF Tick, Resume, ResumeApplying, vars
<1>2. ASSUME NEW d \in Clients, d # c,
             \/ Refresh(d) \/ (\E x \in Names : ReadEntry(d, x))
             \/ ReadBeginning(d) \/ ReadClock(d) \/ FinishRefresh(d)
             \/ Attempts(d) \/ RunTxn(d) \/ Commit(d) \/ Abort(d) \/ Fail(d) \/ Restart(d)
      PROVE  Same
  BY <1>2 DEF Refresh, ReadEntry, ReadBeginning, ReadClock, FinishRefresh,
     Attempts, Attempt, Reject, NoExtension, BuildTxn, RunTxn, Commit, Abort, Fail, Restart,
     Finish
<1>3. txn[c].writer = c /\ NoTxn(c).writer = c
  BY DEF TxnsSound, NoTxn
<1>4. ASSUME Finish(c) PROVE Ended
  BY <1>3, <1>4 DEF Finish
<1>5. ASSUME Refresh(c) \/ (\E x \in Names : ReadEntry(c, x)) \/ ReadBeginning(c) \/ ReadClock(c)
      PROVE  pc'[c] \notin {"run", "apply", "build"} /\ txn'[c].writer = c /\ call'[c] = call[c]
  BY <1>3, <1>5 DEF Refresh, ReadEntry, ReadBeginning, ReadClock
<1>6. ASSUME FinishRefresh(c)
      PROVE  \/ Ended
             \/ /\ pc'[c] = "build" /\ txn'[c].writer = c
                /\ call'[c] = call[c] /\ call[c].kind # "refresh"
  BY <1>3, <1>4, <1>6 DEF FinishRefresh
<1>7. ASSUME Attempts(c) PROVE Ended \/ \E op : Requested(op) /\ BuildTxn(c, op)
  BY <1>4, <1>7 DEF Attempts, Attempt, Reject, NoExtension
<1>8. ASSUME Commit(c) \/ Fail(c) \/ Restart(c) PROVE Ended
  BY <1>3, <1>4, <1>8 DEF Commit, Fail, Restart
<1>9. ASSUME Abort(c)
      PROVE  \/ Ended
             \/ /\ pc'[c] = "entries" /\ txn'[c].writer = c
                /\ call'[c] = [call[c] EXCEPT !.attempt = @ + 1]
  BY <1>3, <1>4, <1>9 DEF Abort
<1>10. ASSUME RunTxn(c) PROVE pc'[c] = "apply" /\ txn'[c] = txn[c] /\ call'[c] = call[c]
  BY <1>10 DEF RunTxn
<1> QED
  BY <1>1, <1>2, <1>5, <1>6, <1>7, <1>8, <1>9, <1>10, NextCases

(* A transaction left behind in the queue was sound when it was built.     *)
LEMMA QueueStep ==
  ASSUME TypeOK, CallSound, TxnsSound, [Next]_vars
  PROVE  \A t \in queued' : t \in Txns /\ TxnSound(t)
<1>1. ASSUME NEW c \in Clients, LeaveBehind(c) PROVE \A t \in queued' : t \in Txns /\ TxnSound(t)
  BY <1>1 DEF LeaveBehind, TxnsSound, TypeOK
<1>2. \A t \in queued : t \in Txns /\ TxnSound(t)
  BY DEF TxnsSound, TypeOK
<1>3. ASSUME NEW c \in Clients, Fail(c) \/ Restart(c) PROVE LeaveBehind(c)
  BY <1>3 DEF Fail, Restart
<1>4. (\E c \in Clients : Fail(c) \/ Restart(c)) \/ queued' \subseteq queued
  BY NextCases DEF db, Tick, Refresh, ReadEntry, ReadBeginning, ReadClock, FinishRefresh,
     Attempts, Attempt, Reject, NoExtension, BuildTxn, RunTxn, Commit, Abort, Resume,
     ResumeApplying, vars
<1> QED
  BY <1>1, <1>2, <1>3, <1>4

(* Transactions are sound whenever they are applied.                       *)
LEMMA TxnsSoundStep ==
  TypeOK /\ CallSound /\ SkewSound /\ CacheSound /\ TxnsSound /\ ApplyingSound /\ [Next]_vars
    => TxnsSound'
<1> SUFFICES ASSUME TypeOK, CallSound, SkewSound, CacheSound, TxnsSound, ApplyingSound,
                    [Next]_vars
             PROVE  TxnsSound'
  OBVIOUS
<1>1. \A t \in queued' \cup applying' : TxnSound(t)'
  <2>1. \A t \in applying' : t \in Txns /\ TxnSound(t)
    BY ApplyingStep DEF AppliesClock, TxnsSound, TypeOK
  <2> QED
    BY <2>1, QueueStep, TxnStaysSound
<1>2. ASSUME NEW c \in Clients
      PROVE  txn'[c].writer = c /\ (pc'[c] \in {"run", "apply"} => TxnSound(txn[c])')
  <2>1. txn'[c] \in Txns
    BY TypeStep DEF TypeOK
  <2>2. CASE (pc'[c] = pc[c] \/ RunTxn(c)) /\ txn'[c] = txn[c]
    <3>1. pc'[c] \in {"run", "apply"} => TxnSound(txn'[c])
      BY <2>2 DEF TxnsSound, RunTxn
    <3>2. \A t \in Txns : TxnSound(t) => TxnSound(t)'
      BY TxnStaysSound
    <3>3. TxnSound(txn'[c]) => TxnSound(txn[c])'
      BY <2>1, <3>2 DEF TxnSound
    <3> QED
      BY <2>2, <3>1, <3>3 DEF TxnsSound
  <2>3. ASSUME NEW op, Requested(op), BuildTxn(c, op)
        PROVE  txn'[c].writer = c /\ TxnSound(txn[c])'
    <3>1. TxnSound(txn'[c]) /\ txn'[c].writer = c
      BY <2>3, BuildSound
    <3>2. now' = now
      BY <2>3 DEF BuildTxn
    <3> QED
      BY <3>1, <3>2 DEF TxnSound, Now, RealExpiry
  <2>4. CASE pc'[c] \notin {"run", "apply"} /\ txn'[c].writer = c
    BY <2>4
  <2> QED
    BY <2>2, <2>3, <2>4, OperationStep
<1> QED
  BY <1>1, <1>2 DEF TxnsSound

(* A half applied transaction stays the only one about its lease, until it *)
(* is completed; a client that waits for it is right to.                   *)
LEMMA ApplyingSoundStep ==
  TypeOK /\ CallSound /\ TxnsSound /\ ApplyingSound /\ ClockSound /\ [Next]_vars
    => ApplyingSound'
<1> SUFFICES ASSUME TypeOK, CallSound, TxnsSound, ApplyingSound, ClockSound, [Next]_vars
             PROVE  ApplyingSound'
  OBVIOUS
<1>1. \A w \in Clients : clockDoc[w] \in Nat /\ clockDoc'[w] \in Nat /\ clockDoc[w] <= clockDoc'[w]
  BY ClockMonotone, TypeStep DEF TypeOK
<1>2. \A t \in applying : t.writer \in Clients /\ t.name \in Names
  BY DEF TypeOK, Txns
<1> DEFINE Found == \A t \in applying' : leaseDoc'[t.name] = t.old /\ clockDoc'[t.writer] > 0
           Alone == \A s, t \in applying' : s.name = t.name => s = t
<1>3. Found /\ Alone
  <2>1. CASE UNCHANGED <<leaseDoc, clockDoc, applying>>
    BY <2>1 DEF ApplyingSound
  <2>2. ASSUME NEW t \in Txns, ~Locked(t.name), AppliesClock(t), applying' = applying \cup {t}
        PROVE  Found /\ Alone
    <3>1. leaseDoc' = leaseDoc /\ leaseDoc[t.name] = t.old /\ clockDoc'[t.writer] > 0
      BY <2>2 DEF AppliesClock, Asserts, LeaseAssert, ApplyOp, TxnSound, TypeOK, Txns
    <3> QED
      BY <1>1, <1>2, <2>2, <3>1 DEF ApplyingSound, Locked
  <2>3. ASSUME NEW t \in applying, AppliesLease(t), applying' = applying \ {t}
        PROVE  Found /\ Alone
    <3>1. /\ \A x \in Names \ {t.name} : leaseDoc'[x] = leaseDoc[x]
          /\ clockDoc' = clockDoc
      BY <2>3 DEF AppliesLease, ApplyOp, TypeOK
    <3> QED
      BY <1>2, <2>3, <3>1 DEF ApplyingSound
  <2> QED
    BY <2>1, <2>2, <2>3, ApplyingStep
<1>4. ASSUME NEW c \in Clients, pc'[c] = "apply" PROVE txn'[c] \in applying'
  <2>1. CASE RunTxn(c)
    BY <2>1 DEF RunTxn
  <2>2. CASE ~RunTxn(c)
    <3>1. pc[c] = "apply" /\ txn'[c] = txn[c]
      BY <1>4, <2>2, OperationStep DEF BuildTxn, TypeOK
    <3>2. txn[c] \in applying
      BY <3>1 DEF ApplyingSound
    <3>3. ASSUME NEW d \in Clients, Commit(d) PROVE txn[c] \in applying'
      <4>1. c # d
        BY <1>4, <3>3 DEF Commit, Finish, TypeOK
      <4>2. txn[c] # txn[d]
        BY <4>1 DEF TxnsSound
      <4> QED
        BY <3>2, <3>3, <4>2 DEF Commit
    <3>4. ASSUME NEW t \in applying, ResumeApplying(t) PROVE txn[c] \in applying'
      BY <3>1, <3>2, <3>4 DEF ResumeApplying
    <3>5. (\E d \in Clients : Commit(d)) \/ (\E t \in applying : ResumeApplying(t))
          \/ applying \subseteq applying'
      BY NextCases DEF db, Tick, Refresh, ReadEntry, ReadBeginning, ReadClock, FinishRefresh,
         Attempts, Attempt, Reject, NoExtension, BuildTxn, RunTxn, Abort, Fail, Restart,
         LeaveBehind, Resume, vars
    <3> QED
      BY <3>1, <3>2, <3>3, <3>4, <3>5
  <2> QED
    BY <2>1, <2>2
<1> QED
  BY <1>3, <1>4 DEF ApplyingSound

(* A request and the transaction built for it agree, through all retries.  *)
LEMMA CallSoundStep ==
  TypeOK /\ CallSound /\ SkewSound /\ CacheSound /\ TxnsSound /\ [Next]_vars => CallSound'
<1> SUFFICES ASSUME TypeOK, CallSound, SkewSound, CacheSound, TxnsSound, [Next]_vars,
                    NEW c \in Clients
             PROVE  CallSoundOf(c)'
  BY DEF CallSound, CallSoundOf
<1>1. now \in Nat /\ now' \in Nat /\ now' >= now
  BY TimeStep DEF TypeOK
<1>2. call[c].until \in Nat /\ call[c].duration \in Nat
  BY DEF TypeOK, Calls
<1>3. CallSoundOf(c)
  BY DEF CallSound, CallSoundOf
<1>4. CASE /\ pc'[c] = pc[c] \/ (RunTxn(c) /\ pc'[c] = "apply")
           /\ txn'[c] = txn[c] /\ call'[c] = call[c]
  BY <1>1, <1>2, <1>3, <1>4 DEF CallSoundOf, RealExpiry, RunTxn
<1>5. ASSUME NEW op, Requested(op), BuildTxn(c, op) PROVE CallSoundOf(c)'
  <2>1. now' = now /\ call'[c] = op
    BY <1>5 DEF BuildTxn, TypeOK
  <2>2. /\ op.kind # "expire" =>
             /\ txn'[c].new # None
             /\ txn'[c].new.holder = op.holder
             /\ RealExpiry(txn'[c].new) >= op.until
        /\ op.kind = "expire" => txn'[c].old # None /\ txn'[c].new = None
    BY <1>5, BuildSound
  <2> QED
    BY <1>5, <2>1, <2>2 DEF CallSoundOf, Requested, RealExpiry
<1>6. CASE pc'[c] \notin {"run", "apply", "build"} /\ call'[c] = RefreshCall
  BY <1>6 DEF CallSoundOf, RefreshCall
<1>7. CASE pc'[c] \notin {"run", "apply"} /\ call'[c] = call[c] /\ (pc'[c] = "build" => call[c].kind # "refresh")
  BY <1>1, <1>2, <1>3, <1>7 DEF CallSoundOf
<1>8. CASE pc'[c] \notin {"run", "apply", "build"} /\ call'[c] = [call[c] EXCEPT !.attempt = @ + 1]
  <2>1. /\ call'[c].kind = call[c].kind /\ call'[c].holder = call[c].holder
        /\ call'[c].until = call[c].until /\ call'[c].duration = call[c].duration
    BY <1>8 DEF TypeOK, Calls
  <2> QED
    BY <1>1, <1>2, <1>3, <1>8, <2>1 DEF CallSoundOf
<1> QED
  BY <1>4, <1>5, <1>6, <1>7, <1>8, OperationStep

(* Applying a transaction never ends a lease before its writer sees it     *)
(* expire, never changes a holder, and never shortens a lease.             *)
LEMMA AppliesSafe ==
  ASSUME TypeOK, NEW t \in Txns, AppliesLease(t), NEW x \in Names, leaseDoc[x] # None
  PROVE  /\ leaseDoc'[x] = None => RealExpiry(leaseDoc[x]) < now
         /\ leaseDoc'[x] # None =>
              /\ leaseDoc'[x].holder = leaseDoc[x].holder
              /\ RealExpiry(leaseDoc'[x]) >= RealExpiry(leaseDoc[x])
<1>1. RealExpiry(leaseDoc[x]) \in Int
  BY OffsetAssumption DEF TypeOK, Entries, Entry, RealExpiry
<1>2. CASE x = t.name
  <2>1. leaseDoc[x] = t.old /\ leaseDoc'[x] = t.new
    BY <1>2 DEF AppliesLease, LeaseAssert, ApplyOp, TypeOK
  <2> QED
    BY <2>1 DEF AppliesLease, TxnSound
<1>3. CASE x # t.name
  <2>1. leaseDoc'[x] = leaseDoc[x]
    BY <1>3 DEF AppliesLease, ApplyOp, TypeOK
  <2> QED
    BY <1>1, <2>1
<1> QED
  BY <1>2, <1>3

(* What a step can do to the promises: forget those that have run out, or  *)
(* add the promise of the request whose transaction it commits.            *)
LEMMA PromiseStep ==
  ASSUME TypeOK, CallSound, TxnsSound, ApplyingSound, [Next]_vars, NEW x \in Names, NEW h \in Holders
  PROVE  \/ promised'[x][h] = promised[x][h]
         \/ promised'[x][h] = 0
         \/ \E c \in Clients :
              /\ pc[c] = "apply" /\ AppliesLease(txn[c]) /\ call[c].kind # "expire"
              /\ x = txn[c].name /\ h = call[c].holder
              /\ promised'[x][h] = Later(promised[x][h], call[c].until)
<1>1. CASE Tick
  BY <1>1 DEF Tick, Running, TypeOK
<1>2. ASSUME NEW c \in Clients, Commit(c), promised'[x][h] # promised[x][h]
      PROVE  /\ pc[c] = "apply" /\ AppliesLease(txn[c]) /\ call[c].kind # "expire"
             /\ x = txn[c].name /\ h = call[c].holder
             /\ promised'[x][h] = Later(promised[x][h], call[c].until)
  <2>1. pc[c] = "apply" /\ AppliesLease(txn[c])
    BY <1>2 DEF Commit, AppliesLease, LeaseAssert, TxnsSound, ApplyingSound, TypeOK
  <2>2. call[c].kind # "expire"
    BY <1>2 DEF Commit
  <2>3. promised' = [promised EXCEPT ![txn[c].name][call[c].holder] = Later(@, call[c].until)]
    BY <1>2, <2>2 DEF Commit
  <2>4. txn[c].name \in Names /\ call[c].holder \in Holders
    BY <2>1, <2>2 DEF CallSound, CallSoundOf, TypeOK, Txns, Calls, Kinds
  <2> QED
    BY <1>2, <2>1, <2>2, <2>3, <2>4 DEF TypeOK
<1> QED
  BY <1>1, <1>2, NextCases DEF Refresh, ReadEntry, ReadBeginning, ReadClock, FinishRefresh,
     Attempts, Attempt, Reject, NoExtension, BuildTxn, RunTxn, Abort, Fail, Restart, Resume,
     ResumeApplying, vars

(* A running promise stays covered by the lease in the database.           *)
LEMMA PromiseCoveredStep ==
  TypeOK /\ CallSound /\ TxnsSound /\ ApplyingSound /\ PromiseCovered /\ [Next]_vars => PromiseCovered'
<1> SUFFICES ASSUME TypeOK, CallSound, TxnsSound, ApplyingSound, PromiseCovered, [Next]_vars,
                    NEW x \in Names, NEW h \in Holders, now' <= promised'[x][h]
             PROVE  Holds(x, h)' /\ RealExpiry(leaseDoc'[x]) >= promised'[x][h]
  BY DEF PromiseCovered, RealExpiry
<1>1. now \in Nat /\ now > 0 /\ now' \in Nat /\ now' >= now
      /\ promised[x][h] \in Nat /\ promised'[x][h] \in Nat
  BY TimeStep, TypeStep DEF TypeOK
<1>2. ASSUME now <= promised[x][h]
      PROVE  /\ leaseDoc[x] # None /\ leaseDoc[x].holder = h
             /\ RealExpiry(leaseDoc[x]) >= promised[x][h] /\ RealExpiry(leaseDoc[x]) \in Int
  BY <1>2, OffsetAssumption DEF PromiseCovered, Holds, TypeOK, Entries, Entry, RealExpiry
<1>3. ASSUME now <= promised[x][h]
      PROVE  Holds(x, h)' /\ RealExpiry(leaseDoc'[x]) >= promised[x][h]
  <2>1. CASE UNCHANGED leaseDoc
    BY <1>2, <1>3, <2>1 DEF Holds
  <2>2. ASSUME NEW t \in Txns, AppliesLease(t)
        PROVE  Holds(x, h)' /\ RealExpiry(leaseDoc'[x]) >= promised[x][h]
    <3>1. leaseDoc'[x] # None
      BY <1>1, <1>2, <1>3, <2>2, AppliesSafe
    <3>2. RealExpiry(leaseDoc'[x]) \in Int
      BY <3>1, TypeStep, OffsetAssumption DEF TypeOK, Entries, Entry, RealExpiry
    <3> QED
      BY <1>1, <1>2, <1>3, <2>2, <3>1, <3>2, AppliesSafe DEF Holds
  <2> QED
    BY <2>1, <2>2, DbStep DEF AppliesClock, ApplyOp
<1>4. CASE promised'[x][h] = promised[x][h]
  BY <1>1, <1>3, <1>4
<1>5. CASE promised'[x][h] = 0
  BY <1>1, <1>5
<1>6. ASSUME NEW c \in Clients, pc[c] = "apply", AppliesLease(txn[c]), call[c].kind # "expire",
             x = txn[c].name, h = call[c].holder,
             promised'[x][h] = Later(promised[x][h], call[c].until)
      PROVE  Holds(x, h)' /\ RealExpiry(leaseDoc'[x]) >= promised'[x][h]
  <2>1. /\ leaseDoc'[x] = txn[c].new /\ txn[c].new # None
        /\ txn[c].new.holder = h /\ RealExpiry(txn[c].new) >= call[c].until
    BY <1>6 DEF AppliesLease, ApplyOp, CallSound, CallSoundOf, TypeOK
  <2>2. now' = now /\ call[c].until \in Nat
    BY <1>6 DEF AppliesLease, TypeOK, Calls
  <2> QED
    BY <1>1, <1>3, <1>6, <2>1, <2>2 DEF Later, Holds
<1> QED
  BY <1>4, <1>5, <1>6, PromiseStep

-----------------------------------------------------------------------------
(* All clients start in NewClient, with nothing written or cached.   *)
LEMMA InitInv == Init => Inv
<1> SUFFICES ASSUME Init PROVE Inv
  OBVIOUS
<1> USE DEF Init
<1>1. TypeOK
  BY InitialValues, BoundAssumption DEF TypeOK, Entries, EmptyClock
<1>2. ClockSound
  BY OffsetAssumption DEF ClockSound, EmptyClock, NewScan, Now
<1>3. SkewSound /\ CacheSound
  BY DEF SkewSound, CacheSound
<1>4. WritersKnown
  BY DEF WritersKnown, NewScan
<1>5. TxnsSound /\ ApplyingSound /\ CallSound
  BY DEF TxnsSound, ApplyingSound, NoTxn, CallSound, CallSoundOf, RefreshCall
<1>6. PromiseCovered
  BY DEF PromiseCovered
<1> QED
  BY <1>1, <1>2, <1>3, <1>4, <1>5, <1>6 DEF Inv

(* The inductive invariant holds in every reachable state.                 *)
LEMMA Invariance == Spec => []Inv
<1>1. Inv /\ [Next]_vars => Inv'
  BY TypeStep, ClockSoundStep, SkewSoundStep, CacheSoundStep, WritersKnownStep,
     TxnsSoundStep, ApplyingSoundStep, CallSoundStep, PromiseCoveredStep DEF Inv
<1> QED
  BY <1>1, InitInv, PTL DEF Spec

(* Every variable keeps its type; in particular Run never makes more than  *)
(* NrRetries attempts, and no expiry that is written is negative.          *)
THEOREM TypeCorrect == Spec => []TypeOK
BY Invariance, PTL DEF Inv

(* The guarantee of a ClaimLease, or of an ExtendLease that writes, for    *)
(* every number of clients, all clock offsets, and all crashes.            *)
THEOREM PromisesKept == Spec => []PromiseKept
<1>1. Inv => PromiseKept
  BY DEF Inv, PromiseCovered, PromiseKept
<1> QED
  BY <1>1, Invariance, PTL

(* At no time is a lease promised to two holders: the mutual exclusion     *)
(* that leadership is built on.                                            *)
THEOREM OneHolderAtATime ==
  Spec => [](\A x \in Names, g, h \in Holders :
               now <= promised[x][g] /\ now <= promised[x][h] => g = h)
<1>1. PromiseKept => \A x \in Names, g, h \in Holders :
                       now <= promised[x][g] /\ now <= promised[x][h] => g = h
  BY DEF PromiseKept, Holds
<1> QED
  BY <1>1, PromisesKept, PTL

(* Leases never reports an expiry that its writer would call too early.    *)
THEOREM CachedExpiriesSafe == Spec => []CachedExpirySafe
<1>1. Inv => CachedExpirySafe
  BY LatestSafe DEF Inv, CachedExpirySafe, InfoExpiry, RealExpiry
<1> QED
  BY <1>1, Invariance, PTL

(* The "no clock data" error of Refresh is unreachable.                    *)
THEOREM RefreshAlwaysFindsWriters == Spec => []RefreshFindsWriters
<1>1. Inv => RefreshFindsWriters
  BY DEF Inv, WritersKnown, RefreshFindsWriters, HasClockData
<1> QED
  BY <1>1, Invariance, PTL

(* A lease is removed only when its writer's clock is past its expiry.     *)
THEOREM ExpiryIsSound == Spec => ExpireSound
<1> DEFINE A == \A x \in Names :
                  (leaseDoc[x] # None /\ leaseDoc'[x] = None) =>
                    Now(leaseDoc[x].writer) > leaseDoc[x].expiry
<1>1. Inv /\ [Next]_vars => [A]_vars
  <2> SUFFICES ASSUME Inv, [Next]_vars, NEW x \in Names, leaseDoc[x] # None, leaseDoc'[x] = None
               PROVE  Now(leaseDoc[x].writer) > leaseDoc[x].expiry
    OBVIOUS
  <2>1. PICK t \in Txns : AppliesLease(t)
    BY DbStep DEF Inv, AppliesClock, ApplyOp
  <2>2. RealExpiry(leaseDoc[x]) < now
    BY <2>1, AppliesSafe DEF Inv
  <2>3. now \in Nat /\ leaseDoc[x].expiry \in Nat /\ Offset[leaseDoc[x].writer] \in Nat
    BY OffsetAssumption DEF Inv, TypeOK, Entries, Entry
  <2> QED
    BY <2>2, <2>3 DEF RealExpiry, Now
<1> QED
  BY <1>1, Invariance, PTL DEF Spec, ExpireSound

(* A lease that is rewritten keeps its holder and is never shortened.      *)
THEOREM ExtensionNeverShortens == Spec => NeverShortened
<1> DEFINE A == \A x \in Names :
                  (leaseDoc[x] # None /\ leaseDoc'[x] # None) =>
                    /\ leaseDoc'[x].holder = leaseDoc[x].holder
                    /\ leaseDoc'[x].expiry - Offset[leaseDoc'[x].writer]
                         >= leaseDoc[x].expiry - Offset[leaseDoc[x].writer]
<1>1. Inv /\ [Next]_vars => [A]_vars
  <2> SUFFICES ASSUME Inv, [Next]_vars, NEW x \in Names, leaseDoc[x] # None, leaseDoc'[x] # None
               PROVE  /\ leaseDoc'[x].holder = leaseDoc[x].holder
                      /\ RealExpiry(leaseDoc'[x]) >= RealExpiry(leaseDoc[x])
    BY DEF RealExpiry
  <2>1. RealExpiry(leaseDoc[x]) \in Int
    BY OffsetAssumption DEF Inv, TypeOK, Entries, Entry, RealExpiry
  <2>2. CASE UNCHANGED leaseDoc
    BY <2>1, <2>2
  <2>3. ASSUME NEW t \in Txns, AppliesLease(t)
        PROVE  /\ leaseDoc'[x].holder = leaseDoc[x].holder
               /\ RealExpiry(leaseDoc'[x]) >= RealExpiry(leaseDoc[x])
    BY <2>3, AppliesSafe DEF Inv
  <2> QED
    BY <2>2, <2>3, DbStep DEF Inv, AppliesClock, ApplyOp
<1> QED
  BY <1>1, Invariance, PTL DEF Spec, NeverShortened

-----------------------------------------------------------------------------
(* What the lease d in the database is, at time t, to a copy e of it.      *)
CoveredBy(d, t, e) ==
  e # None /\ t <= RealExpiry(e) =>
    d # None /\ d.holder = e.holder /\ RealExpiry(d) >= RealExpiry(e)

(* The caches, and what a Refresh has read for them, are copies that the   *)
(* database covers.                                                        *)
CachesCovered ==
  \A c \in Clients, x \in Names :
    /\ CoveredBy(leaseDoc[x], now, entries[c][x])
    /\ CoveredBy(leaseDoc[x], now, scan[c].entries[x])

(* A copy that is covered stays covered, whatever is written.              *)
LEMMA StaysCovered ==
  ASSUME Inv, Inv', [Next]_vars, NEW x \in Names
  PROVE  \A e \in Entries : CoveredBy(leaseDoc[x], now, e) => CoveredBy(leaseDoc'[x], now', e)
<1> SUFFICES ASSUME NEW e \in Entries, e # None, now' <= RealExpiry(e),
                    CoveredBy(leaseDoc[x], now, e)
             PROVE  /\ leaseDoc'[x] # None /\ leaseDoc'[x].holder = e.holder
                    /\ RealExpiry(leaseDoc'[x]) >= RealExpiry(e)
  BY DEF CoveredBy
<1>1. RealExpiry(e) \in Int /\ now \in Nat /\ now' \in Nat /\ now <= now'
  BY TimeStep, OffsetAssumption DEF Inv, TypeOK, Entries, Entry, RealExpiry
<1>2. leaseDoc[x] # None /\ leaseDoc[x].holder = e.holder /\ RealExpiry(leaseDoc[x]) >= RealExpiry(e)
  BY <1>1 DEF CoveredBy
<1>3. CASE UNCHANGED leaseDoc
  BY <1>2, <1>3
<1>4. ASSUME NEW t \in Txns, AppliesLease(t)
      PROVE  /\ leaseDoc'[x] # None /\ leaseDoc'[x].holder = e.holder
             /\ RealExpiry(leaseDoc'[x]) >= RealExpiry(e)
  <2>1. RealExpiry(leaseDoc[x]) \in Int
    BY <1>2, OffsetAssumption DEF Inv, TypeOK, Entries, Entry, RealExpiry
  <2>2. leaseDoc'[x] # None
    BY <1>1, <1>2, <1>4, <2>1, AppliesSafe DEF Inv
  <2>3. RealExpiry(leaseDoc'[x]) \in Int
    BY <2>2, OffsetAssumption DEF Inv, TypeOK, Entries, Entry, RealExpiry
  <2> QED
    BY <1>1, <1>2, <1>4, <2>1, <2>2, <2>3, AppliesSafe DEF Inv
<1> QED
  BY <1>3, <1>4, DbStep DEF Inv, AppliesClock, ApplyOp

(* Where the entries of a cache come from.                                 *)
LEMMA CacheSource ==
  ASSUME Inv, [Next]_vars, NEW c \in Clients, NEW x \in Names
  PROVE  entries'[c][x] \in {entries[c][x], scan[c].entries[x], leaseDoc'[x], None}
<1> USE DEF Inv, TypeOK
<1>1. ASSUME NEW d \in Clients, Commit(d)
      PROVE  entries'[c][x] \in {entries[c][x], leaseDoc'[x]}
  <2>1. txn[d].name \in Names
    BY DEF Txns
  <2>2. /\ entries' = [entries EXCEPT ![d][txn[d].name] = txn[d].new]
        /\ leaseDoc' = [leaseDoc EXCEPT ![txn[d].name] = txn[d].new]
    BY <1>1 DEF Commit, ApplyOp
  <2> QED
    BY <2>1, <2>2
<1>2. ASSUME NEW d \in Clients, FinishRefresh(d)
      PROVE  entries'[c][x] \in {entries[c][x], scan[c].entries[x]}
  <2>1. entries' = [entries EXCEPT ![d] = scan[d].entries] \/ entries' = entries
    BY ONLY <1>2 DEF FinishRefresh, caches
  <2>2. entries \in [Clients -> [Names -> Entries]]
    OBVIOUS
  <2> QED
    BY ONLY <2>1, <2>2
<1>3. ASSUME NEW d \in Clients, Restart(d)
      PROVE  entries'[c][x] \in {entries[c][x], None}
  BY <1>3 DEF Restart
<1>4. ASSUME NEW d \in Clients,
             Refresh(d) \/ (\E y \in Names : ReadEntry(d, y)) \/ ReadBeginning(d)
             \/ ReadClock(d) \/ Attempts(d) \/ RunTxn(d) \/ Abort(d) \/ Fail(d)
      PROVE  UNCHANGED entries
  BY <1>4 DEF Refresh, ReadEntry, ReadBeginning, ReadClock, Attempts, Attempt, Reject,
     NoExtension, BuildTxn, RunTxn, Abort, Fail, caches
<1>5. CASE Tick \/ (\E t \in queued : Resume(t)) \/ (\E t \in applying : ResumeApplying(t))
          \/ UNCHANGED vars
  BY <1>5 DEF Tick, Resume, ResumeApplying, vars, caches
<1> QED
  BY <1>1, <1>2, <1>3, <1>4, <1>5, NextCases

(* Every step keeps the copies covered.                                    *)
LEMMA CachesCoveredStep ==
  ASSUME Inv, Inv', [Next]_vars, CachesCovered
  PROVE  CachesCovered'
<1> SUFFICES ASSUME NEW c \in Clients, NEW x \in Names
             PROVE  /\ CoveredBy(leaseDoc'[x], now', entries'[c][x])
                    /\ CoveredBy(leaseDoc'[x], now', scan'[c].entries[x])
  BY DEF CachesCovered, CoveredBy, RealExpiry
<1> DEFINE Ok(e) == CoveredBy(leaseDoc'[x], now', e)
<1>1. /\ entries[c][x] \in Entries /\ scan[c].entries[x] \in Entries
      /\ leaseDoc[x] \in Entries /\ leaseDoc'[x] \in Entries
  BY DEF Inv, TypeOK, Scans
<1>2. Ok(entries[c][x]) /\ Ok(scan[c].entries[x])
  BY <1>1, StaysCovered DEF CachesCovered
<1>3. Ok(None)
  BY DEF CoveredBy
<1>4. ASSUME NEW e \in Entries, e # None PROVE RealExpiry(e) \in Int
  BY <1>4, OffsetAssumption DEF Entries, Entry, RealExpiry
<1>5. Ok(leaseDoc'[x])
  BY <1>1, <1>4 DEF CoveredBy
<1>6. CoveredBy(leaseDoc[x], now, leaseDoc[x])
  BY <1>1, <1>4 DEF CoveredBy
<1>7. Ok(leaseDoc[x])
  BY <1>1, <1>6, StaysCovered
<1>8. scan'[c].entries[x] \in {scan[c].entries[x], leaseDoc[x], None}
  BY ScanStep DEF Inv, NewScan
<1> HIDE DEF Ok
<1>9. Ok(entries'[c][x]) /\ Ok(scan'[c].entries[x])
  BY <1>2, <1>3, <1>5, <1>7, <1>8, CacheSource
<1> QED
  BY <1>9 DEF Ok

(* The copies are covered in every reachable state.                        *)
LEMMA CachesAlwaysCovered == Spec => []CachesCovered
<1>1. Init => CachesCovered
  BY DEF Init, CachesCovered, CoveredBy, NewScan
<1>2. CachesCovered /\ Inv /\ Inv' /\ [Next]_vars => CachesCovered'
  BY CachesCoveredStep
<1> QED
  BY <1>1, <1>2, Invariance, PTL DEF Spec

(* A cached lease whose writer has not seen it expire is that holder's in  *)
(* the database, for at least as long, however stale the cache is: what    *)
(* handleCheck relies on when it trusts a snapshot that agrees with it.    *)
THEOREM StaleCachesTellTheTruth == Spec => []CachedLeaseHolds
<1>1. Inv /\ CachesCovered => CachedLeaseHolds
  <2> SUFFICES ASSUME Inv, CachesCovered, NEW c \in Clients, NEW x \in Names,
                      entries[c][x] # None,
                      Now(entries[c][x].writer) <= entries[c][x].expiry
               PROVE  /\ Holds(x, entries[c][x].holder)
                      /\ RealExpiry(leaseDoc[x]) >= RealExpiry(entries[c][x])
    BY DEF CachedLeaseHolds, RealExpiry
  <2>1. entries[c][x].expiry \in Nat /\ Offset[entries[c][x].writer] \in Nat /\ now \in Nat
    BY OffsetAssumption DEF Inv, TypeOK, Entries, Entry
  <2>2. now <= RealExpiry(entries[c][x])
    BY <2>1 DEF RealExpiry, Now
  <2> QED
    BY <2>2 DEF CachesCovered, CoveredBy, Holds
<1> QED
  BY <1>1, Invariance, CachesAlwaysCovered, PTL

(* An ExtendLease, new or retried, that writes nothing because of a lease  *)
(* that the client itself wrote.                                           *)
OwnShortcut(c, op) ==
  Requested(op) /\ NoExtension(c, op) /\ Cached(c, op).writer = c

(* errNoExtension rests on Earliest, which can be later than the lease's   *)
(* end: ExtendPromiseKept is violated.  Not so if the client wrote the     *)
(* lease itself, even if its cache is stale: then the lease in the         *)
(* database is the holder's, and lasts as long as the request asks.        *)
THEOREM OwnShortcutSound ==
  Spec => [][\A c \in Clients, op \in Calls : OwnShortcut(c, op) =>
               Holds(op.name, op.holder) /\ RealExpiry(leaseDoc[op.name]) >= op.until]_vars
<1> DEFINE A == \A c \in Clients, op \in Calls : OwnShortcut(c, op) =>
                  Holds(op.name, op.holder) /\ RealExpiry(leaseDoc[op.name]) >= op.until
<1>1. Inv /\ CachesCovered => A
  <2> SUFFICES ASSUME Inv, CachesCovered, NEW c \in Clients, NEW op \in Calls, OwnShortcut(c, op)
               PROVE  Holds(op.name, op.holder) /\ RealExpiry(leaseDoc[op.name]) >= op.until
    OBVIOUS
  <2> DEFINE x == op.name
             e == entries[c][x]
  <2>1. /\ op.kind = "extend" /\ ~ExtendInvalid(c, op)
        /\ Wanted(c, op) < Earliest(skews[c][c], e.expiry) /\ e.writer = c
    BY DEF OwnShortcut, NoExtension, NeedsNoExtension, Invalid, Cached, CachedSkew
  <2>2. x \in Names /\ e \in Entries /\ e # None /\ e.holder = op.holder
    BY <2>1 DEF ExtendInvalid, Cached, Inv, TypeOK, Calls
  <2>3. /\ e.expiry \in Nat /\ Offset[c] \in Nat /\ now \in Nat /\ op.until \in Nat
        /\ op.duration \in Nat /\ op.until <= now + op.duration
    BY <2>1, <2>2, OffsetAssumption DEF Inv, TypeOK, Entries, Entry, Calls, OwnShortcut, Requested
  <2>4. skews[c][c] = ZeroSkew
    BY DEF Inv, SkewSound
  <2>5. now + Offset[c] + op.duration < e.expiry
    BY <2>1, <2>4 DEF Wanted, Now, Earliest
  <2>6. RealExpiry(e) = e.expiry - Offset[c]
    BY <2>1 DEF RealExpiry
  <2>7. now <= RealExpiry(e) /\ RealExpiry(e) >= op.until /\ RealExpiry(e) \in Int
    BY <2>3, <2>5, <2>6
  <2>8. /\ leaseDoc[x] # None /\ leaseDoc[x].holder = op.holder
        /\ RealExpiry(leaseDoc[x]) >= RealExpiry(e)
    BY <2>2, <2>7 DEF CachesCovered, CoveredBy
  <2>9. RealExpiry(leaseDoc[x]) \in Int
    BY <2>2, <2>8, OffsetAssumption DEF Inv, TypeOK, Entries, Entry, RealExpiry
  <2> QED
    BY <2>3, <2>7, <2>8, <2>9 DEF Holds
<1> QED
  BY <1>1, Invariance, CachesAlwaysCovered, PTL

-----------------------------------------------------------------------------
(* Time stands still while a lease is written.                             *)
LEMMA TimeOrLease ==
  ASSUME TypeOK, CallSound, [Next]_vars
  PROVE  now' = now \/ UNCHANGED leaseDoc
BY NextCases DEF db, Tick, Refresh, ReadEntry, ReadBeginning, ReadClock, FinishRefresh,
   Attempts, Attempt, Reject, NoExtension, BuildTxn, RunTxn, Commit, Abort, Fail, Restart,
   Resume, ResumeApplying, vars

HolderOf(e) == IF e = None THEN None ELSE e.holder
Over(e, t)  == e # None /\ t + Offset[e.writer] > e.expiry
AbsHolder   == [x \in Names |-> HolderOf(leaseDoc[x])]
AbsLapsed   == {x \in Names : Over(leaseDoc[x], now)}

(* An entry is vacant, in the abstract, only if there is none.             *)
LEMMA HolderType ==
  ASSUME NEW e \in Entries
  PROVE  /\ HolderOf(e) \in Holders \cup {None}
         /\ HolderOf(e) = None <=> e = None
BY NoneAssumption DEF Entries, Entry, HolderOf

(* Being over, in terms of the real expiry.                                *)
LEMMA OverReal ==
  ASSUME NEW e \in Entries, e # None
  PROVE  RealExpiry(e) \in Int /\ \A t \in Nat : Over(e, t) <=> RealExpiry(e) < t
BY OffsetAssumption DEF Entries, Entry, Over, RealExpiry

(* The lease clients implement the abstract leases: whatever the clocks    *)
(* show and whoever fails, each step leaves a lease alone, lets it lapse,  *)
(* claims a vacant one, extends one or expires one that has lapsed.        *)
THEOREM RefinesLeases == Spec => ImplementsLeases
<1>1. Init => Abstract!NoLeases
  BY NoneAssumption DEF Init, Abstract!NoLeases
<1>2. Inv /\ [Next]_vars => [Abstract!LeaseStep]_(Abstract!leases)
  <2> SUFFICES ASSUME Inv, [Next]_vars
               PROVE  Abstract!LeaseStep \/ UNCHANGED Abstract!leases
    OBVIOUS
  <2>1. /\ now \in Nat /\ now' \in Nat /\ now' >= now
        /\ leaseDoc \in [Names -> Entries]
    BY TimeStep DEF Inv, TypeOK
  <2>2. CASE UNCHANGED leaseDoc
    <3>1. AbsHolder' = AbsHolder
      BY <2>2 DEF AbsHolder, HolderOf
    <3>2. AbsLapsed \subseteq AbsLapsed'
      BY <2>1, <2>2, OverReal DEF Inv, AbsLapsed, Over
    <3>3. \A x \in AbsLapsed' : x \in Names /\ AbsHolder[x] # None
      BY <2>1, <2>2, HolderType DEF AbsHolder, AbsLapsed, Over
    <3>4. PICK S \in SUBSET Names : S = AbsLapsed'
      BY DEF AbsLapsed
    <3>5. Abstract!Lapse(S)
      BY <3>1, <3>2, <3>3, <3>4
      DEF Abstract!Lapse, Abstract!Vacant, AbsHolder, AbsLapsed, HolderOf, Over, Now
    <3> QED
      BY <3>5 DEF Abstract!LeaseStep
  <2>3. CASE ~UNCHANGED leaseDoc
    <3>1. PICK t \in Txns : AppliesLease(t)
      BY <2>3, DbStep DEF Inv, AppliesClock, ApplyOp
    <3> DEFINE x == t.name
    <3>2. /\ x \in Names /\ t.old \in Entries /\ t.new \in Entries /\ now' = now
          /\ leaseDoc[x] = t.old /\ leaseDoc' = [leaseDoc EXCEPT ![x] = t.new]
          /\ TxnSound(t)
      BY <2>3, <3>1, TimeOrLease DEF Inv, Txns, AppliesLease, ApplyOp, LeaseAssert
    <3>3. /\ AbsHolder[x] = HolderOf(t.old)
          /\ AbsHolder' = [AbsHolder EXCEPT ![x] = HolderOf(t.new)]
      BY <2>1, <3>2 DEF AbsHolder, HolderOf
    <3>4. /\ x \in AbsLapsed <=> Over(t.old, now)
          /\ AbsLapsed' = IF Over(t.new, now) THEN AbsLapsed \cup {x} ELSE AbsLapsed \ {x}
      BY <2>1, <3>2 DEF AbsLapsed, Over
    <3>5. /\ HolderOf(t.old) = None <=> t.old = None
          /\ HolderOf(t.new) = None <=> t.new = None
          /\ t.new # None => HolderOf(t.new) \in Holders
      BY <3>2, HolderType
    <3> HIDE DEF x
    <3>6. CASE t.old = None /\ t.new = None
      <4>1. AbsHolder' = AbsHolder /\ AbsLapsed' = AbsLapsed
        BY <3>3, <3>4, <3>6 DEF Over, AbsHolder, HolderOf
      <4> QED
        BY <4>1 DEF Abstract!leases, AbsHolder, AbsLapsed, HolderOf, Over, Now
    <3>7. CASE t.old = None /\ t.new # None
      <4>1. /\ AbsHolder[x] = None /\ HolderOf(t.new) \in Holders
            /\ AbsHolder' = [AbsHolder EXCEPT ![x] = HolderOf(t.new)]
            /\ AbsLapsed' \in {AbsLapsed, AbsLapsed \cup {x}}
        BY <3>3, <3>4, <3>5, <3>7 DEF Over
      <4>2. Abstract!Claim(x, HolderOf(t.new))
        BY <4>1 DEF Abstract!Claim, Abstract!Vacant, AbsHolder, AbsLapsed, HolderOf, Over, Now
      <4> QED
        BY <3>2, <4>1, <4>2 DEF Abstract!LeaseStep
    <3>8. CASE t.old # None /\ t.new = None
      <4>1. /\ x \in AbsLapsed /\ AbsLapsed' = AbsLapsed \ {x}
            /\ AbsHolder' = [AbsHolder EXCEPT ![x] = None]
        <5>1. Over(t.old, now)
          BY <2>1, <3>2, <3>8, OverReal DEF TxnSound
        <5>2. ~Over(t.new, now) /\ HolderOf(t.new) = None
          BY <3>8 DEF Over, HolderOf
        <5> QED
          BY <3>3, <3>4, <5>1, <5>2
      <4>2. Abstract!Expire(x)
        BY <4>1 DEF Abstract!Expire, AbsHolder, AbsLapsed, HolderOf, Over, Now
      <4> QED
        BY <3>2, <4>2 DEF Abstract!LeaseStep
    <3>9. CASE t.old # None /\ t.new # None
      <4>1. /\ AbsHolder[x] # None /\ AbsHolder' = AbsHolder
        BY <3>2, <3>3, <3>5, <3>9 DEF TxnSound, HolderOf, AbsHolder
      <4>2. Over(t.new, now) => Over(t.old, now)
        BY <2>1, <3>2, <3>9, OverReal DEF Inv, TxnSound
      <4>3. AbsLapsed' \in {AbsLapsed, AbsLapsed \ {x}}
        BY <3>4, <4>2
      <4>4. Abstract!Extend(x)
        BY <4>1, <4>3 DEF Abstract!Extend, Abstract!Vacant, AbsHolder, AbsLapsed, HolderOf, Over, Now
      <4> QED
        BY <3>2, <4>4 DEF Abstract!LeaseStep
    <3> QED
      BY <3>6, <3>7, <3>8, <3>9
  <2> QED
    BY <2>2, <2>3
<1> QED
  BY <1>1, <1>2, Invariance, PTL DEF Spec, ImplementsLeases, Abstract!LeaseSpec
=============================================================================
