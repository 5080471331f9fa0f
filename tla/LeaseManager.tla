---------------------------- MODULE LeaseManager ----------------------------
(***************************************************************************)
(* juju's worker/lease managers: one per controller, each a loop over a    *)
(* lease client of its own, all above the same leases.                     *)
(*                                                                         *)
(* A client is what LeaseClient shows it to be: its operations are steps   *)
(* of Leases, it trusts its cache at the first attempt, and a transaction  *)
(* goes through only if the cached entry is still the one in the database. *)
(* Instead of times a manager keeps the set of cached entries whose expiry *)
(* has passed by its own clock.  Latest is never early, so that an entry   *)
(* that is due and still in the database has lapsed.                       *)
(***************************************************************************)
EXTENDS Leases, Naturals

CONSTANTS
  Managers,
  Callers,     \* each makes one call at a time
  Requests,    \* Requests[c]: the calls that c may make
  Killable,    \* the managers that may be killed or meet an error
  NrRetries    \* attempts of the transaction runner (3 in the code)

ASSUME CallersAssumption == Managers # {} /\ Names # {} /\ Killable \subseteq Managers
ASSUME RequestsAssumption ==
  Requests \in [Callers -> SUBSET ([kind : {"claim", "check"}, mgr : Managers, name : Names,
                                    holder : Holders]
                                   \cup [kind : {"wait"}, mgr : Managers, name : Names,
                                         holder : {None}])]
ASSUME RetriesAssumption == NrRetries \in Nat \ {0}
ASSUME NoneAssumption == None \notin Holders \cup Callers

VARIABLES
  cache,    \* cache[m][x]: the holder of x in m's snapshot, or None
  fresh,    \* the names whose cached entry, or absence, is that of the database
  due,      \* the names whose cached entry is past its expiry by m's clock
  loop,     \* where m's goroutine is
  dying,    \* the managers whose catacomb is dying
  job,      \* the call m works for, or the lease it expires
  op,       \* the operation of its client
  attempt,  \* the attempt of the transaction runner
  todo,     \* the leases that tick has still to expire
  call,     \* the call each caller is in
  seen      \* history: the open calls during which their lease was not held

client == <<cache, fresh, due>>
work   == <<job, op, attempt, todo>>
system == <<leases, client, loop, dying, work, call>>
vars   == <<system, seen>>

Idle  == [phase |-> "idle", kind |-> "none", mgr |-> None, name |-> None, holder |-> None]
NoJob == [who |-> None, name |-> None, holder |-> None]

Init ==
  /\ NoLeases
  /\ cache = [m \in Managers |-> holder]
  /\ fresh = [m \in Managers |-> Names]
  /\ due = [m \in Managers |-> {}]
  /\ loop = [m \in Managers |-> "select"] /\ dying = {}
  /\ job = [m \in Managers |-> NoJob]
  /\ op = [m \in Managers |-> None]
  /\ attempt = [m \in Managers |-> 0]
  /\ todo = [m \in Managers |-> {}]
  /\ call = [c \in Callers |-> Idle] /\ seen = {}

-----------------------------------------------------------------------------
(* Time.                                                                   *)

TimeIsUp(x) ==
  /\ ~Vacant(x) /\ x \notin lapsed /\ Lapse({x})
  /\ UNCHANGED <<client, loop, dying, work, call>>

(* m's clock passes the expiry that m's client computes for its entry.     *)
FallsDue(m, x) ==
  /\ cache[m][x] # None /\ x \notin due[m]
  /\ x \in fresh[m] => x \in lapsed
  /\ due' = [due EXCEPT ![m] = @ \cup {x}]
  /\ UNCHANGED <<leases, cache, fresh, loop, dying, work, call>>

-----------------------------------------------------------------------------
(* The end of a turn of the loop.                                          *)

At(m, c) == call[c].mgr = m

(* Defect: waiters are looked at only when they are added.                 *)
NeverReleased(m, c) == FALSE

Released(m, c) ==
  /\ At(m, c) /\ call[c].phase = "taken" /\ call[c].kind = "wait"
  /\ cache[m][call[c].name] = None

Forget(m) ==
  /\ job' = [job EXCEPT ![m] = NoJob]
  /\ op' = [op EXCEPT ![m] = None]
  /\ attempt' = [attempt EXCEPT ![m] = 0]
  /\ todo' = [todo EXCEPT ![m] = {}]

(* The caller m works for, if it has not given up, has its answer, and the *)
(* waiters whose lease is not in m's snapshot are released.                *)
EndTurn(m, w) ==
  /\ loop' = [loop EXCEPT ![m] = "select"]
  /\ call' = [c \in Callers |->
                IF \/ c = w /\ At(m, c) /\ call[c].phase = "taken"
                   \/ Released(m, c)
                THEN Idle ELSE call[c]]
  /\ Forget(m)

(* The loop returns; whoever waits for m gets errStopped, in whatever      *)
(* order: no caller depends on when another one has its answer.            *)
Ends(m) ==
  /\ loop' = [loop EXCEPT ![m] = "dead"]
  /\ dying' = dying \cup {m}
  /\ call' = [c \in Callers |-> IF At(m, c) THEN Idle ELSE call[c]]
  /\ Forget(m)

Go(m, place) == loop' = [loop EXCEPT ![m] = place]

-----------------------------------------------------------------------------
(* The operations of the lease client.                                     *)

Target(m) == job[m].name

Refresh(m) ==
  /\ cache' = [cache EXCEPT ![m] = holder]
  /\ fresh' = [fresh EXCEPT ![m] = Names]
  /\ due' = [due EXCEPT ![m] = @ \cap fresh[m]]

(* The ops of an attempt contradict the cache: ErrInvalid.                 *)
Invalid(m) ==
  LET h == cache[m][Target(m)] IN
  \/ op[m] = "claim"  /\ h # None
  \/ op[m] = "extend" /\ h # job[m].holder
  \/ op[m] = "expire" /\ Target(m) \notin due[m]

Write(m) ==
  \/ op[m] = "claim"  /\ Claim(Target(m), job[m].holder)
  \/ op[m] = "extend" /\ Extend(Target(m))
  \/ op[m] = "expire" /\ Expire(Target(m))

(* What follows a success.                                                 *)
Succeeded(m) == Go(m, IF op[m] = "expire" THEN "expire" ELSE "granted")

(* The cached entry is the one in the database.  Every other cache of it   *)
(* is out of date from now on.                                             *)
TxnCommits(m) ==
  /\ loop[m] = "run" /\ Target(m) \in fresh[m]
  /\ Write(m)
  /\ cache' = [cache EXCEPT ![m][Target(m)] = holder'[Target(m)]]
  /\ fresh' = [n \in Managers |-> IF n = m THEN fresh[n] ELSE fresh[n] \ {Target(m)}]
  /\ due' = [due EXCEPT ![m] = @ \ {Target(m)}]
  /\ Succeeded(m)
  /\ UNCHANGED <<dying, work, call>>

(* ExtendLease does not write if its cached entry outlasts the request.    *)
NoExtension(m) ==
  /\ loop[m] = "run" /\ op[m] = "extend" /\ Target(m) \notin due[m]
  /\ Succeeded(m)
  /\ UNCHANGED <<leases, client, dying, work, call>>

(* Somebody else has written the lease.  The next attempt starts with a    *)
(* Refresh; after the last one the error ends the manager.                 *)
TxnAborts(m) ==
  /\ loop[m] = "run" /\ Target(m) \notin fresh[m]
  /\ IF attempt[m] + 1 < NrRetries
     THEN /\ attempt' = [attempt EXCEPT ![m] = @ + 1]
          /\ Go(m, "retry")
          /\ UNCHANGED <<dying, job, op, todo, call>>
     ELSE Ends(m)
  /\ UNCHANGED <<leases, client>>

Retry(m) ==
  /\ loop[m] = "retry"
  /\ Refresh(m) /\ Go(m, "build")
  /\ UNCHANGED <<leases, dying, work, call>>

(* Defect: a retry does not look at what the refreshed cache says.         *)
BuildUnchecked(m) ==
  /\ loop[m] = "build"
  /\ Go(m, "run")
  /\ UNCHANGED <<leases, client, dying, work, call>>

(* Defect: a lease that cannot be expired is dropped from the cache.       *)
BuildUncaches(m) ==
  /\ loop[m] = "build"
  /\ Go(m, IF ~Invalid(m) THEN "run"
           ELSE IF op[m] = "expire" THEN "expire" ELSE "claim")
  /\ cache' = IF Invalid(m) /\ op[m] = "expire"
              THEN [cache EXCEPT ![m][Target(m)] = None] ELSE cache
  /\ UNCHANGED <<leases, fresh, due, dying, work, call>>

Build(m) ==
  /\ loop[m] = "build"
  /\ Go(m, IF ~Invalid(m) THEN "run"
           ELSE IF op[m] = "expire" THEN "expire" ELSE "claim")
  /\ UNCHANGED <<leases, client, dying, work, call>>

-----------------------------------------------------------------------------
(* handleClaim.                                                            *)

Take(m, c, kind) ==
  /\ loop[m] = "select" /\ At(m, c) /\ call[c].phase = "sent" /\ call[c].kind = kind

TakeClaim(m, c) ==
  /\ Take(m, c, "claim")
  /\ call' = [call EXCEPT ![c].phase = "taken"]
  /\ job' = [job EXCEPT ![m] = [who |-> c, name |-> call[c].name, holder |-> call[c].holder]]
  /\ Go(m, "claim")
  /\ UNCHANGED <<leases, client, dying, op, attempt, todo>>

(* The operation is chosen from the snapshot.                              *)
Request(m, kind) ==
  /\ op' = [op EXCEPT ![m] = kind]
  /\ attempt' = [attempt EXCEPT ![m] = 0]
  /\ Go(m, "run")
  /\ UNCHANGED <<leases, client, dying, job, todo, call>>

ClaimOrExtend(m) ==
  /\ loop[m] = "claim" /\ m \notin dying
  /\ \/ cache[m][Target(m)] = None /\ Request(m, "claim")
     \/ cache[m][Target(m)] = job[m].holder /\ Request(m, "extend")

(* Some other holder has the lease, by the snapshot: ErrClaimDenied.       *)
Deny(m) ==
  /\ loop[m] = "claim" /\ m \notin dying
  /\ cache[m][Target(m)] \notin {None, job[m].holder}
  /\ EndTurn(m, job[m].who)
  /\ UNCHANGED <<leases, client, dying>>

Grant(m) ==
  /\ loop[m] = "granted"
  /\ EndTurn(m, job[m].who)
  /\ UNCHANGED <<leases, client, dying>>

-----------------------------------------------------------------------------
(* handleCheck, which trusts a snapshot that agrees with the check only.   *)

CheckHeld(m, c) ==
  /\ Take(m, c, "check") /\ cache[m][call[c].name] = call[c].holder
  /\ call' = [call EXCEPT ![c] = Idle]
  /\ UNCHANGED <<leases, client, loop, dying, work>>

(* Defect: a snapshot that contradicts the check is trusted too.           *)
CheckStale(m, c) ==
  /\ Take(m, c, "check") /\ cache[m][call[c].name] # call[c].holder
  /\ call' = [call EXCEPT ![c].phase = "taken"]
  /\ job' = [job EXCEPT ![m] = [who |-> c, name |-> call[c].name, holder |-> call[c].holder]]
  /\ Go(m, "checked")
  /\ UNCHANGED <<leases, client, dying, op, attempt, todo>>

CheckRefresh(m, c) ==
  /\ Take(m, c, "check") /\ cache[m][call[c].name] # call[c].holder
  /\ Refresh(m)
  /\ call' = [call EXCEPT ![c].phase = "taken"]
  /\ job' = [job EXCEPT ![m] = [who |-> c, name |-> call[c].name, holder |-> call[c].holder]]
  /\ Go(m, "checked")
  /\ UNCHANGED <<leases, dying, op, attempt, todo>>

(* Defect: the caller is told only if the lease is held.                   *)
CheckAnswerHeld(m) ==
  /\ loop[m] = "checked"
  /\ EndTurn(m, IF cache[m][job[m].name] = job[m].holder THEN job[m].who ELSE None)
  /\ UNCHANGED <<leases, client, dying>>

(* nil or ErrNotHeld, by the new snapshot.                                 *)
CheckAnswer(m) ==
  /\ loop[m] = "checked"
  /\ EndTurn(m, job[m].who)
  /\ UNCHANGED <<leases, client, dying>>

-----------------------------------------------------------------------------
(* WaitUntilExpired: added to the blocks, and released in the same turn if *)
(* the lease is not in the snapshot.                                       *)
Block(m, c) ==
  /\ Take(m, c, "wait")
  /\ call' = [call EXCEPT ![c] = IF cache[m][call[c].name] = None THEN Idle
                                 ELSE [@ EXCEPT !.phase = "taken"]]
  /\ UNCHANGED <<leases, client, loop, dying, work>>

-----------------------------------------------------------------------------
(* tick, at the alarm of the first expiry or after MaxSleep.               *)

Tick(m) ==
  /\ loop[m] = "select"
  /\ Refresh(m) /\ Go(m, "ticked")
  /\ UNCHANGED <<leases, dying, work, call>>

(* The leases that are past their expiry now.                              *)
BeginExpiry(m) ==
  /\ loop[m] = "ticked"
  /\ todo' = [todo EXCEPT ![m] = due[m]]
  /\ Go(m, "expire")
  /\ UNCHANGED <<leases, client, dying, job, op, attempt, call>>

ExpireLease(m, x) ==
  /\ loop[m] = "expire" /\ x \in todo[m]
  /\ todo' = [todo EXCEPT ![m] = @ \ {x}]
  /\ job' = [job EXCEPT ![m] = [NoJob EXCEPT !.name = x]]
  /\ op' = [op EXCEPT ![m] = "expire"]
  /\ attempt' = [attempt EXCEPT ![m] = 0]
  /\ Go(m, "build")
  /\ UNCHANGED <<leases, client, dying, call>>

EndTick(m) ==
  /\ loop[m] = "expire" /\ todo[m] = {}
  /\ EndTurn(m, None)
  /\ UNCHANGED <<leases, client, dying>>

-----------------------------------------------------------------------------
(* Callers, and the end of a manager.                                      *)

Call(c, r) ==
  /\ call[c] = Idle
  /\ call' = [call EXCEPT ![c] = [phase |-> "sent", kind |-> r.kind, mgr |-> r.mgr,
                                  name |-> r.name, holder |-> r.holder]]
  /\ UNCHANGED <<leases, client, loop, dying, work>>

(* errStopped.                                                             *)
Stopped(c) ==
  /\ call[c].mgr \in dying
  /\ call' = [call EXCEPT ![c] = Idle]
  /\ UNCHANGED <<leases, client, loop, dying, work>>

Kill(m) ==
  /\ m \in Killable \ dying /\ dying' = dying \cup {m}
  /\ UNCHANGED <<leases, client, loop, work, call>>

(* select, and the head of the loop in handleClaim, notice it.             *)
ErrDying(m) ==
  /\ m \in dying /\ loop[m] \in {"select", "claim"}
  /\ Ends(m)
  /\ UNCHANGED <<leases, client>>

(* An error of the client, with or without its write.                      *)
Fail(m) ==
  /\ m \in Killable /\ loop[m] \in {"select", "run", "retry"}
  /\ \/ UNCHANGED <<leases, fresh>>
     \/ /\ loop[m] = "run" /\ Target(m) \in fresh[m] /\ Write(m)
        /\ fresh' = [n \in Managers |-> fresh[n] \ {Target(m)}]
  /\ Ends(m)
  /\ UNCHANGED <<cache, due>>

(* A new manager and a new client, which starts with a Refresh.            *)
Restart(m) ==
  /\ loop[m] = "dead"
  /\ Refresh(m) /\ Go(m, "select")
  /\ dying' = dying \ {m}
  /\ UNCHANGED <<leases, work, call>>

-----------------------------------------------------------------------------
(* History: during the call, its lease was not held (by its holder).       *)
NotHeld(c) ==
  \/ call[c].name \in lapsed \/ Vacant(call[c].name)
  \/ call[c].kind # "wait" /\ holder[call[c].name] # call[c].holder

Observe ==
  seen' = {c \in Callers : call'[c] # Idle /\ (c \in seen \/ NotHeld(c)')}

(* What m does once it has left select.                                    *)
Work(m) ==
  \/ TxnCommits(m) \/ NoExtension(m) \/ TxnAborts(m) \/ Retry(m) \/ Build(m)
  \/ ClaimOrExtend(m) \/ Deny(m) \/ Grant(m) \/ CheckAnswer(m)
  \/ BeginExpiry(m) \/ EndTick(m) \/ \E x \in Names : ExpireLease(m, x)

Serve(m, c) ==
  TakeClaim(m, c) \/ CheckHeld(m, c) \/ CheckRefresh(m, c) \/ Block(m, c)

Step ==
  \/ \E m \in Managers :
       \/ Work(m) \/ Tick(m) \/ Kill(m) \/ ErrDying(m) \/ Fail(m) \/ Restart(m)
       \/ \E c \in Callers : Serve(m, c)
       \/ \E x \in Names : FallsDue(m, x)
  \/ \E x \in Names : TimeIsUp(x)
  \/ \E c \in Callers : Stopped(c) \/ \E r \in Requests[c] : Call(c, r)

Next == Step /\ Observe

(* Managers and callers are scheduled and client operations return.  The   *)
(* select picks every case that is ready again and again: a call, and the  *)
(* alarm of a lease that is due.  The alarm after MaxSleep starts anew     *)
(* with every turn and may never go off.  Time passes.                     *)
Fairness ==
  /\ \A m \in Managers :
       /\ WF_system(Work(m)) /\ SF_system(due[m] # {} /\ Tick(m))
       /\ \A x \in Names : WF_system(FallsDue(m, x))
  /\ \A c \in Callers : WF_system(Stopped(c)) /\ SF_system(\E m \in Managers : Serve(m, c))
  /\ \A x \in Names : WF_system(TimeIsUp(x))

Spec == Init /\ [][Next]_vars /\ Fairness

-----------------------------------------------------------------------------
TypeOK ==
  /\ holder \in [Names -> Holders \cup {None}]
  /\ lapsed \in SUBSET {x \in Names : ~Vacant(x)}
  /\ cache \in [Managers -> [Names -> Holders \cup {None}]]
  /\ fresh \in [Managers -> SUBSET Names]
  /\ due \in [Managers -> SUBSET Names]
  /\ loop \in [Managers -> {"select", "claim", "run", "retry", "build", "granted",
                            "checked", "ticked", "expire", "dead"}]
  /\ dying \subseteq Managers
  /\ job \in [Managers -> [who : Callers \cup {None}, name : Names \cup {None},
                           holder : Holders \cup {None}]]
  /\ op \in [Managers -> {"claim", "extend", "expire", None}]
  /\ attempt \in [Managers -> 0 .. NrRetries - 1]
  /\ todo \in [Managers -> SUBSET Names]
  /\ call \in [Callers -> [phase : {"sent", "taken"}, kind : {"claim", "check", "wait"},
                           mgr : Managers, name : Names, holder : Holders \cup {None}]
                          \cup {Idle}]
  /\ seen \subseteq Callers

(* A snapshot that has not been overtaken shows the leases as they are,    *)
(* and takes none to be over that still runs.                              *)
SnapshotSound ==
  \A m \in Managers : \A x \in fresh[m] :
    /\ cache[m][x] = holder[x]
    /\ x \in due[m] => x \in lapsed

(* Nobody waits for a manager that has forgotten it: a claim or a check    *)
(* that was received is what the loop works on, a WaitUntilExpired is left *)
(* in the blocks of an idle loop only while its lease is in the snapshot,  *)
(* and a loop that has ended has no callers.                               *)
NobodyForgotten ==
  \A c \in Callers : call[c].phase = "taken" =>
    LET m == call[c].mgr IN
    /\ loop[m] # "dead"
    /\ call[c].kind # "wait" => job[m].who = c
    /\ call[c].kind = "wait" /\ loop[m] = "select" => cache[m][call[c].name] # None

(* Claim: "If it succeeds, the holder is guaranteed to keep the lease", and *)
(* "if it returns ErrClaimDenied, the holder is guaranteed not to have the *)
(* lease" (core/lease/claimer.go), as far as the manager can know: unless  *)
(* another manager's write has overtaken the snapshot, the lease is the    *)
(* claimant's when a claim succeeds and somebody else's when it is denied, *)
(* however many attempts were outrun in between.                           *)
ClaimSound ==
  [][\A m \in Managers : Target(m) \in fresh[m] =>
       /\ Grant(m) => holder[Target(m)] = job[m].holder
       /\ Deny(m)  => holder[Target(m)] \notin {None, job[m].holder}]_vars

Waiting(m, c) == At(m, c) /\ call[c].phase = "taken"

(* Check "returns ErrNotHeld if the lease it represents is not held by the *)
(* holder it represents" (core/lease/claimer.go), and only then: at some   *)
(* moment of the call the lease was not held.                              *)
NotHeldSound ==
  [][\A m \in Managers :
       LET k == job[m] IN
       CheckAnswer(m) /\ cache[m][k.name] # k.holder /\ Waiting(m, k.who) => k.who \in seen]_vars

(* "WaitUntilExpired returns nil when the named lease is no longer held"   *)
(* (core/lease/claimer.go), as far as the manager can know: a waiter is    *)
(* released for a lease that is vacant, or over a snapshot that another    *)
(* manager's write has overtaken.                                          *)
ReleaseSound ==
  [][\A c \in Callers :
       LET m == call[c].mgr
           x == call[c].name
       IN  call[c].kind = "wait" /\ call'[c] = Idle /\ m \notin dying \cup dying' =>
             x \notin fresh'[m] \/ holder'[x] = None]_vars

(* From some moment on no lease is claimed or extended.                    *)
Quiet == <>[][\A m \in Managers : TxnCommits(m) => op[m] = "expire"]_vars

(* Then every claim is decided, every check that had to wait behind one is *)
(* answered, and every WaitUntilExpired returns: the leases run out, some  *)
(* manager expires them, and each manager finds out, although its alarm    *)
(* may only be set for leases that others have expired.  (While claimants  *)
(* at other managers go on, handleClaim may go round for ever, and no      *)
(* caller behind it is served.)                                            *)
QuietSettles ==
  Quiet => \A c \in Callers : call[c] # Idle ~> call[c] = Idle
=============================================================================
