------------------------- MODULE LeaseManagerProofs -------------------------
(***************************************************************************)
(* Proofs about LeaseManager, for any managers, callers, leases and        *)
(* holders.                                                                *)
(***************************************************************************)
EXTENDS LeaseManager, TLAPS

-----------------------------------------------------------------------------
(* The inductive invariant.                                                *)

(* Claims and checks are made for a holder.                                *)
CallsSound == \A c \in Callers : call[c].kind \in {"claim", "check"} => call[c].holder \in Holders

(* What the loop works on is what its place requires.                      *)
JobsSound ==
  \A m \in Managers :
    /\ loop[m] = "claim" => job[m].holder \in Holders
    /\ loop[m] = "checked" => job[m].who \in Callers
    /\ loop[m] \in {"select", "dead"} => job[m].who = None
    /\ loop[m] \in {"run", "retry", "build"} =>
         op[m] = "expire" \/ (op[m] \in {"claim", "extend"} /\ job[m].holder \in Holders)

(* Whom the loop will answer is no waiter, and a check that is about to be *)
(* refused was refuted during the call.                                    *)
TurnSound(m, c) ==
  loop[m] # "select" /\ job[m].who = c /\ Waiting(m, c) =>
    /\ call[c].kind # "wait"
    /\ loop[m] = "checked" /\ cache[m][job[m].name] # job[m].holder => c \in seen

TurnsSound == \A m \in Managers, c \in Callers : TurnSound(m, c)

Inv == TypeOK /\ SnapshotSound /\ CallsSound /\ JobsSound /\ TurnsSound

(* Initially nothing is held, cached or called.                            *)
LEMMA InitInv == Init => Inv
<1> SUFFICES ASSUME Init PROVE Inv
  OBVIOUS
<1> USE RetriesAssumption DEF Init, NoLeases, Idle, NoJob
<1>1. TypeOK
  BY DEF TypeOK, Vacant
<1>2. SnapshotSound /\ CallsSound /\ JobsSound /\ TurnsSound
  BY DEF SnapshotSound, CallsSound, JobsSound, TurnsSound, TurnSound
<1> QED BY <1>1, <1>2 DEF Inv

-----------------------------------------------------------------------------
(* While m is in a turn nobody becomes one of its waiters, and a step that *)
(* leaves m alone leaves its turn sound.                                   *)
LEMMA OthersTurn ==
  ASSUME NEW m \in Managers, TurnsSound, Observe,
         loop'[m] = loop[m], job'[m] = job[m], cache'[m] = cache[m],
         \A c \in Callers : loop[m] # "select" /\ Waiting(m, c)' => call'[c] = call[c]
  PROVE  \A c \in Callers : TurnSound(m, c)'
<1> TAKE c \in Callers
<1> SUFFICES ASSUME loop'[m] # "select", job'[m].who = c, Waiting(m, c)'
             PROVE  /\ call'[c].kind # "wait"
                    /\ loop'[m] = "checked" /\ cache'[m][job'[m].name] # job'[m].holder => c \in seen'
  BY DEF TurnSound
<1>1. call'[c] = call[c] /\ Waiting(m, c) /\ call'[c] # Idle
  BY DEF Waiting, At, Idle
<1>2. TurnSound(m, c)
  BY DEF TurnsSound
<1>3. c \in seen => c \in seen'
  BY <1>1 DEF Observe
<1> QED BY <1>1, <1>2, <1>3 DEF TurnSound

-----------------------------------------------------------------------------

(* What the client writes keeps the leases well typed and leaves the other *)
(* leases as they are.                                                     *)
LEMMA WriteType ==
  ASSUME TypeOK, JobsSound, NEW m \in Managers, loop[m] = "run", Target(m) \in Names, Write(m)
  PROVE  /\ holder' \in [Names -> Holders \cup {None}]
         /\ lapsed' \in SUBSET {x \in Names : ~Vacant(x)'}
         /\ \A y \in Names \ {Target(m)} : holder'[y] = holder[y] /\ (y \in lapsed => y \in lapsed')
<1> DEFINE x == Target(m)
<1> USE NoneAssumption DEF TypeOK, Vacant
<1>1. CASE op[m] = "claim" /\ Claim(x, job[m].holder)
  <2>1. job[m].holder \in Holders
    BY <1>1 DEF JobsSound
  <2> QED BY <1>1, <2>1 DEF Claim
<1>2. CASE op[m] = "extend" /\ Extend(x)
  BY <1>2 DEF Extend
<1>3. CASE op[m] = "expire" /\ Expire(x)
  BY <1>3 DEF Expire
<1> QED BY <1>1, <1>2, <1>3 DEF Write

Places == {"select", "claim", "run", "retry", "build", "granted", "checked", "ticked", "expire",
           "dead"}
Jobs   == [who : Callers \cup {None}, name : Names \cup {None}, holder : Holders \cup {None}]
Calls  == [phase : {"sent", "taken"}, kind : {"claim", "check", "wait"},
           mgr : Managers, name : Names, holder : Holders \cup {None}] \cup {Idle}

(* The end of a turn, and of a manager, keeps the types.                   *)
LEMMA EndsType ==
  ASSUME TypeOK, NEW m \in Managers, NEW w, EndTurn(m, w) \/ Ends(m)
  PROVE  /\ loop' \in [Managers -> Places]
         /\ job' \in [Managers -> Jobs]
         /\ op' \in [Managers -> {"claim", "extend", "expire", None}]
         /\ attempt' \in [Managers -> 0 .. NrRetries - 1]
         /\ todo' \in [Managers -> SUBSET Names]
         /\ call' \in [Callers -> Calls]
<1>1. Forget(m)
  BY DEF EndTurn, Ends
<1>2. job' \in [Managers -> Jobs]
  BY <1>1 DEF TypeOK, Forget, NoJob, Jobs
<1>3. /\ op' \in [Managers -> {"claim", "extend", "expire", None}]
      /\ attempt' \in [Managers -> 0 .. NrRetries - 1]
      /\ todo' \in [Managers -> SUBSET Names]
  BY <1>1, RetriesAssumption DEF TypeOK, Forget
<1>4. loop' \in [Managers -> Places]
  BY DEF TypeOK, EndTurn, Ends, Places
<1>5. call \in [Callers -> Calls] /\ Idle \in Calls
  BY DEF TypeOK, Calls
<1>6. call' \in [Callers -> Calls]
  BY <1>5 DEF EndTurn, Ends
<1> QED BY <1>2, <1>3, <1>4, <1>6

(* A call that is taken, or answered, keeps its type.                      *)
LEMMA CallType ==
  ASSUME TypeOK, NEW c \in Callers, call[c].phase \in {"sent", "taken"}
  PROVE  /\ call[c] # Idle /\ call[c] \in Calls
         /\ call[c].mgr \in Managers /\ call[c].name \in Names
         /\ call[c].kind \in {"claim", "check", "wait"}
         /\ call[c].holder \in Holders \cup {None}
         /\ [call EXCEPT ![c].phase = "taken"] \in [Callers -> Calls]
         /\ [call EXCEPT ![c] = Idle] \in [Callers -> Calls]
<1>1. call \in [Callers -> Calls] /\ call[c] # Idle
  BY DEF TypeOK, Calls, Idle
<1>2. call[c] \in [phase : {"sent", "taken"}, kind : {"claim", "check", "wait"},
                   mgr : Managers, name : Names, holder : Holders \cup {None}]
  BY <1>1 DEF Calls
<1>3. [call[c] EXCEPT !.phase = "taken"] \in Calls
  BY <1>2 DEF Calls
<1>4. Idle \in Calls
  BY DEF Calls
<1> QED BY <1>1, <1>2, <1>3, <1>4

(* Every action keeps the types.                                           *)
LEMMA TypeStep == Inv /\ Next => TypeOK'
<1> SUFFICES ASSUME Inv, Step, Observe PROVE TypeOK'
  BY DEF Next
<1> TypeOK /\ JobsSound /\ CallsSound
  BY DEF Inv
<1> seen' \subseteq Callers
  BY DEF Observe
<1> USE DEF client, leases, work
<1>1. ASSUME NEW m \in Managers, Work(m) PROVE TypeOK'
  <2>1. CASE TxnCommits(m)
    <3>1. Target(m) \in Names
      BY <2>1 DEF TxnCommits, TypeOK
    <3>2. /\ holder' \in [Names -> Holders \cup {None}]
          /\ lapsed' \in SUBSET {x \in Names : ~Vacant(x)'}
      BY <2>1, <3>1, WriteType DEF TxnCommits
    <3>3. cache' \in [Managers -> [Names -> Holders \cup {None}]]
      BY <2>1, <3>1, <3>2 DEF TxnCommits, TypeOK
    <3> QED BY <2>1, <3>2, <3>3 DEF TxnCommits, Succeeded, Go, TypeOK
  <2>2. CASE NoExtension(m)
    BY <2>2 DEF NoExtension, Succeeded, Go, TypeOK, Vacant
  <2>3. CASE TxnAborts(m)
    <3>1. CASE attempt[m] + 1 < NrRetries
      <4>1. /\ attempt' = [attempt EXCEPT ![m] = @ + 1] /\ loop' = [loop EXCEPT ![m] = "retry"]
            /\ UNCHANGED <<leases, client, dying, job, op, todo, call>>
        BY <2>3, <3>1 DEF TxnAborts, Go
      <4>2. attempt' \in [Managers -> 0 .. NrRetries - 1]
        BY <3>1, <4>1, RetriesAssumption DEF TypeOK
      <4>3. loop' \in [Managers -> Places]
        BY <4>1 DEF TypeOK, Places
      <4> QED BY <4>1, <4>2, <4>3 DEF TypeOK, Vacant, Places
    <3>2. CASE ~(attempt[m] + 1 < NrRetries)
      <4>1. Ends(m) /\ UNCHANGED <<leases, client>>
        BY <2>3, <3>2 DEF TxnAborts
      <4>2. dying' \subseteq Managers
        BY <4>1 DEF Ends, TypeOK
      <4> QED BY <4>1, <4>2, EndsType DEF TypeOK, Vacant, Places, Jobs, Calls
    <3> QED BY <3>1, <3>2
  <2>4. CASE Retry(m)
    BY <2>4 DEF Retry, Refresh, Go, TypeOK, Vacant
  <2>5. CASE Build(m)
    BY <2>5 DEF Build, Go, TypeOK, Vacant
  <2>6. CASE ClaimOrExtend(m)
    <3>1. PICK kind \in {"claim", "extend"} : Request(m, kind)
      BY <2>6 DEF ClaimOrExtend
    <3>2. /\ op' \in [Managers -> {"claim", "extend", "expire", None}]
          /\ attempt' \in [Managers -> 0 .. NrRetries - 1]
          /\ loop' \in [Managers -> Places]
      BY <3>1, RetriesAssumption DEF Request, Go, TypeOK, Places
    <3> QED BY <3>1, <3>2 DEF Request, TypeOK, Vacant, Places
  <2>7. CASE Deny(m) \/ Grant(m) \/ CheckAnswer(m) \/ EndTick(m)
    <3>1. PICK w : EndTurn(m, w)
      BY <2>7 DEF Deny, Grant, CheckAnswer, EndTick
    <3>2. UNCHANGED <<leases, client, dying>>
      BY <2>7 DEF Deny, Grant, CheckAnswer, EndTick
    <3> QED BY <3>1, <3>2, EndsType DEF TypeOK, Vacant, Places, Jobs, Calls
  <2>8. CASE BeginExpiry(m)
    BY <2>8 DEF BeginExpiry, Go, TypeOK, Vacant
  <2>9. ASSUME NEW x \in Names, ExpireLease(m, x) PROVE TypeOK'
    BY <2>9, RetriesAssumption DEF ExpireLease, NoJob, Go, TypeOK, Vacant
  <2> QED BY <1>1, <2>1, <2>2, <2>3, <2>4, <2>5, <2>6, <2>7, <2>8, <2>9 DEF Work
<1>2. ASSUME NEW m \in Managers, Tick(m) \/ Kill(m) \/ Restart(m) PROVE TypeOK'
  <2>1. CASE Kill(m)
    BY <2>1 DEF Kill, TypeOK, Vacant
  <2>2. CASE Tick(m) \/ Restart(m)
    <3>1. /\ cache' \in [Managers -> [Names -> Holders \cup {None}]]
          /\ fresh' \in [Managers -> SUBSET Names] /\ due' \in [Managers -> SUBSET Names]
      <4>1. Refresh(m)
        BY <2>2 DEF Tick, Restart
      <4> QED BY <4>1 DEF Refresh, TypeOK
    <3>2. loop' \in [Managers -> Places] /\ dying' \subseteq Managers
      BY <2>2 DEF Tick, Restart, Go, TypeOK, Places
    <3> QED BY <2>2, <3>1, <3>2 DEF Tick, Restart, TypeOK, Vacant, Places
  <2> QED BY <1>2, <2>1, <2>2
<1>3. ASSUME NEW m \in Managers, ErrDying(m) PROVE TypeOK'
  <2>1. Ends(m) /\ UNCHANGED <<leases, client>> /\ dying' \subseteq Managers
    BY <1>3 DEF ErrDying, Ends, TypeOK
  <2> QED BY <2>1, EndsType DEF TypeOK, Vacant, Places, Jobs, Calls
<1>4. ASSUME NEW m \in Managers, Fail(m) PROVE TypeOK'
  <2>1. Ends(m) /\ UNCHANGED <<cache, due>> /\ dying' \subseteq Managers
    BY <1>4 DEF Fail, Ends, TypeOK
  <2>2. CASE UNCHANGED <<leases, fresh>>
    BY <2>1, <2>2, EndsType DEF TypeOK, Vacant, Places, Jobs, Calls
  <2>3. CASE /\ loop[m] = "run" /\ Target(m) \in fresh[m] /\ Write(m)
             /\ fresh' = [n \in Managers |-> fresh[n] \ {Target(m)}]
    <3>1. Target(m) \in Names
      BY <2>3 DEF TypeOK
    <3>2. /\ holder' \in [Names -> Holders \cup {None}]
          /\ lapsed' \in SUBSET {x \in Names : ~Vacant(x)'}
      BY <2>3, <3>1, WriteType
    <3> QED BY <2>1, <2>3, <3>2, EndsType DEF TypeOK, Places, Jobs, Calls
  <2> QED BY <1>4, <2>2, <2>3 DEF Fail
<1>5. ASSUME NEW m \in Managers, NEW c \in Callers, Serve(m, c) PROVE TypeOK'
  <2>1. call[c].phase = "sent"
    BY <1>5 DEF Serve, TakeClaim, CheckHeld, CheckRefresh, Block, Take
  <2>2. call' \in [Callers -> Calls]
    <3>1. \/ call' = [call EXCEPT ![c].phase = "taken"]
          \/ call' = [call EXCEPT ![c] = Idle]
      BY <1>5 DEF Serve, TakeClaim, CheckHeld, CheckRefresh, Block
    <3> QED BY <2>1, <3>1, CallType
  <2>3. [who |-> c, name |-> call[c].name, holder |-> call[c].holder] \in Jobs
    BY <2>1, CallType DEF Jobs
  <2>4. CASE TakeClaim(m, c)
    <3>1. job' \in [Managers -> Jobs] /\ loop' \in [Managers -> Places]
      BY <2>3, <2>4 DEF TakeClaim, Go, TypeOK, Jobs, Places
    <3> QED BY <2>2, <2>4, <3>1 DEF TakeClaim, TypeOK, Vacant, Calls, Jobs, Places
  <2>5. CASE CheckHeld(m, c)
    BY <2>2, <2>5 DEF CheckHeld, TypeOK, Vacant, Calls
  <2>6. CASE CheckRefresh(m, c)
    <3>1. job' \in [Managers -> Jobs] /\ loop' \in [Managers -> Places]
      BY <2>3, <2>6 DEF CheckRefresh, Go, TypeOK, Jobs, Places
    <3>2. /\ cache' \in [Managers -> [Names -> Holders \cup {None}]]
          /\ fresh' \in [Managers -> SUBSET Names] /\ due' \in [Managers -> SUBSET Names]
      BY <2>6 DEF CheckRefresh, Refresh, TypeOK
    <3> QED BY <2>2, <2>6, <3>1, <3>2 DEF CheckRefresh, TypeOK, Vacant, Calls, Jobs, Places
  <2>7. CASE Block(m, c)
    BY <2>2, <2>7 DEF Block, TypeOK, Vacant, Calls
  <2> QED BY <1>5, <2>4, <2>5, <2>6, <2>7 DEF Serve
<1>6. ASSUME NEW m \in Managers, NEW x \in Names, FallsDue(m, x) PROVE TypeOK'
  BY <1>6 DEF FallsDue, TypeOK, Vacant
<1>7. ASSUME NEW x \in Names, TimeIsUp(x) PROVE TypeOK'
  BY <1>7 DEF TimeIsUp, Lapse, TypeOK, Vacant
<1>8. ASSUME NEW c \in Callers, Stopped(c) PROVE TypeOK'
  BY <1>8 DEF Stopped, TypeOK, Vacant
<1>9. ASSUME NEW c \in Callers, NEW r \in Requests[c], Call(c, r) PROVE TypeOK'
  <2>1. [phase |-> "sent", kind |-> r.kind, mgr |-> r.mgr, name |-> r.name, holder |-> r.holder]
          \in Calls
    BY RequestsAssumption DEF Calls
  <2>2. call' \in [Callers -> Calls]
    BY <1>9, <2>1 DEF Call, TypeOK, Calls
  <2> QED BY <1>9, <2>2 DEF Call, TypeOK, Vacant, Calls
<1> QED BY <1>1, <1>2, <1>3, <1>4, <1>5, <1>6, <1>7, <1>8, <1>9 DEF Step

-----------------------------------------------------------------------------
(* A Refresh leaves a snapshot that is sound.                              *)
LEMMA RefreshSound ==
  ASSUME TypeOK, SnapshotSound, NEW m \in Managers, Refresh(m), UNCHANGED leases
  PROVE  SnapshotSound'
  BY DEF TypeOK, SnapshotSound, Refresh, leases

(* A write outdates every other cache of the lease.                        *)
LEMMA WriteSound ==
  ASSUME TypeOK, SnapshotSound, JobsSound, NEW m \in Managers, loop[m] = "run",
         Target(m) \in fresh[m], Write(m),
         TypeOK',
         \A n \in Managers : n # m => cache'[n] = cache[n] /\ due'[n] = due[n],
         \A n \in Managers : n # m => fresh'[n] = fresh[n] \ {Target(m)},
         fresh'[m] \subseteq fresh[m],
         \A y \in Names \ {Target(m)} : cache'[m][y] = cache[m][y] /\ (y \in due'[m] => y \in due[m]),
         Target(m) \in fresh'[m] =>
           cache'[m][Target(m)] = holder'[Target(m)] /\ Target(m) \notin due'[m]
  PROVE  SnapshotSound'
<1>1. Target(m) \in Names
  BY DEF TypeOK
<1>2. \A y \in Names \ {Target(m)} : holder'[y] = holder[y] /\ (y \in lapsed => y \in lapsed')
  BY <1>1, WriteType
<1> SUFFICES ASSUME NEW n \in Managers, NEW x \in fresh'[n]
             PROVE  cache'[n][x] = holder'[x] /\ (x \in due'[n] => x \in lapsed')
  BY DEF SnapshotSound
<1>3. x \in Names
  BY DEF TypeOK
<1>4. CASE x = Target(m)
  BY <1>4
<1>5. CASE x # Target(m)
  <2>1. x \in fresh[n]
    BY <1>5
  <2>2. cache'[n][x] = cache[n][x] /\ (x \in due'[n] => x \in due[n])
    BY <1>3, <1>5
  <2> QED BY <1>2, <1>3, <1>5, <2>1, <2>2 DEF SnapshotSound
<1> QED BY <1>4, <1>5

(* Every action keeps the snapshots sound.                                 *)
LEMMA SnapshotStep == Inv /\ Next => SnapshotSound'
<1> SUFFICES ASSUME Inv, Step, TypeOK' PROVE SnapshotSound'
  BY TypeStep DEF Next
<1> TypeOK /\ SnapshotSound /\ JobsSound
  BY DEF Inv
<1>a. UNCHANGED <<leases, client>> => SnapshotSound'
  BY DEF SnapshotSound, leases, client
<1>1. ASSUME NEW m \in Managers, Work(m) PROVE SnapshotSound'
  <2>1. CASE TxnCommits(m)
    <3>1. /\ cache' = [cache EXCEPT ![m][Target(m)] = holder'[Target(m)]]
          /\ fresh' = [n \in Managers |-> IF n = m THEN fresh[n] ELSE fresh[n] \ {Target(m)}]
          /\ due' = [due EXCEPT ![m] = @ \ {Target(m)}]
          /\ loop[m] = "run" /\ Target(m) \in fresh[m] /\ Write(m)
      BY <2>1 DEF TxnCommits
    <3>2. /\ \A n \in Managers : n # m => cache'[n] = cache[n] /\ due'[n] = due[n]
          /\ \A n \in Managers : n # m => fresh'[n] = fresh[n] \ {Target(m)}
          /\ fresh'[m] \subseteq fresh[m]
          /\ \A y \in Names \ {Target(m)} :
               cache'[m][y] = cache[m][y] /\ (y \in due'[m] => y \in due[m])
          /\ cache'[m][Target(m)] = holder'[Target(m)] /\ Target(m) \notin due'[m]
      BY <3>1 DEF TypeOK
    <3> QED BY <3>1, <3>2, WriteSound
  <2>2. CASE Retry(m)
    BY <2>2, RefreshSound DEF Retry
  <2>3. CASE UNCHANGED <<leases, client>>
    BY <2>3, <1>a
  <2> QED BY <1>1, <2>1, <2>2, <2>3
        DEF Work, NoExtension, TxnAborts, Build, ClaimOrExtend, Request, Deny, Grant, CheckAnswer,
            BeginExpiry, EndTick, ExpireLease
<1>2. ASSUME NEW m \in Managers, Tick(m) \/ Restart(m) PROVE SnapshotSound'
  BY <1>2, RefreshSound DEF Tick, Restart
<1>3. ASSUME NEW m \in Managers, Kill(m) \/ ErrDying(m) PROVE SnapshotSound'
  BY <1>3, <1>a DEF Kill, ErrDying
<1>4. ASSUME NEW m \in Managers, Fail(m) PROVE SnapshotSound'
  <2>1. UNCHANGED <<cache, due>>
    BY <1>4 DEF Fail
  <2>2. CASE UNCHANGED <<leases, fresh>>
    BY <1>a, <2>1, <2>2 DEF client
  <2>3. CASE /\ loop[m] = "run" /\ Target(m) \in fresh[m] /\ Write(m)
             /\ fresh' = [n \in Managers |-> fresh[n] \ {Target(m)}]
    BY <2>1, <2>3, WriteSound
  <2> QED BY <1>4, <2>2, <2>3 DEF Fail
<1>5. ASSUME NEW m \in Managers, NEW c \in Callers, Serve(m, c) PROVE SnapshotSound'
  BY <1>5, <1>a, RefreshSound DEF Serve, TakeClaim, CheckHeld, CheckRefresh, Block
<1>6. ASSUME NEW m \in Managers, NEW x \in Names, FallsDue(m, x) PROVE SnapshotSound'
  BY <1>6 DEF FallsDue, SnapshotSound, TypeOK, leases
<1>7. ASSUME NEW x \in Names, TimeIsUp(x) PROVE SnapshotSound'
  BY <1>7 DEF TimeIsUp, Lapse, SnapshotSound, client
<1>8. ASSUME NEW c \in Callers, Stopped(c) \/ \E r \in Requests[c] : Call(c, r) PROVE SnapshotSound'
  BY <1>8, <1>a DEF Stopped, Call
<1> QED BY <1>1, <1>2, <1>3, <1>4, <1>5, <1>6, <1>7, <1>8 DEF Step

-----------------------------------------------------------------------------
(* A call is answered, taken by the loop of its manager while that is in   *)
(* select, or new.                                                         *)
LEMMA CallChanges ==
  ASSUME Inv, Step, NEW c \in Callers
  PROVE  \/ call'[c] = call[c] \/ call'[c] = Idle
         \/ /\ call[c].phase = "sent" /\ call'[c] = [call[c] EXCEPT !.phase = "taken"]
            /\ call[c].mgr \in Managers /\ loop[call[c].mgr] = "select"
         \/ \E r \in Requests[c] : call'[c] = [phase |-> "sent", kind |-> r.kind, mgr |-> r.mgr,
                                               name |-> r.name, holder |-> r.holder]
<1> DEFINE Goal ==
      \/ call'[c] = call[c] \/ call'[c] = Idle
      \/ /\ call[c].phase = "sent" /\ call'[c] = [call[c] EXCEPT !.phase = "taken"]
         /\ call[c].mgr \in Managers /\ loop[call[c].mgr] = "select"
      \/ \E r \in Requests[c] : call'[c] = [phase |-> "sent", kind |-> r.kind, mgr |-> r.mgr,
                                            name |-> r.name, holder |-> r.holder]
<1>0. call = [d \in Callers |-> call[d]]
  BY DEF Inv, TypeOK
<1>1. CASE UNCHANGED call
  BY <1>1
<1>2. ASSUME NEW m \in Managers, NEW w, EndTurn(m, w) \/ Ends(m) PROVE Goal
  BY <1>2 DEF EndTurn, Ends
<1>3. ASSUME NEW m \in Managers, NEW d \in Callers, Serve(m, d) PROVE Goal
  <2>1. Take(m, d, "claim") \/ Take(m, d, "check") \/ Take(m, d, "wait")
    BY <1>3 DEF Serve, TakeClaim, CheckHeld, CheckRefresh, Block
  <2>2. call[d].phase = "sent" /\ call[d].mgr = m /\ loop[m] = "select"
    BY <2>1 DEF Take, At
  <2>3. call' = [call EXCEPT ![d].phase = "taken"] \/ call' = [call EXCEPT ![d] = Idle]
    BY <1>3 DEF Serve, TakeClaim, CheckHeld, CheckRefresh, Block
  <2>4. CASE c # d
    BY <1>0, <2>3, <2>4
  <2>5. CASE c = d
    BY <1>0, <2>2, <2>3, <2>5
  <2> QED BY <2>4, <2>5
<1>4. ASSUME NEW d \in Callers, Stopped(d) \/ \E r \in Requests[d] : Call(d, r) PROVE Goal
  <2>1. CASE Stopped(d)
    BY <1>0, <2>1 DEF Stopped
  <2>2. ASSUME NEW r \in Requests[d], Call(d, r) PROVE Goal
    <3>1. CASE c = d
      BY <1>0, <2>2, <3>1 DEF Call
    <3>2. CASE c # d
      BY <1>0, <2>2, <3>2 DEF Call
    <3> QED BY <3>1, <3>2
  <2> QED BY <1>4, <2>1, <2>2
<1>5. ASSUME NEW m \in Managers, Work(m) PROVE UNCHANGED call \/ (\E w : EndTurn(m, w)) \/ Ends(m)
  <2>1. CASE Deny(m) \/ Grant(m) \/ CheckAnswer(m) \/ EndTick(m)
    BY <2>1 DEF Deny, Grant, CheckAnswer, EndTick
  <2>2. CASE TxnAborts(m)
    BY <2>2 DEF TxnAborts
  <2>3. CASE UNCHANGED call
    BY <2>3
  <2> QED BY <1>5, <2>1, <2>2, <2>3
        DEF Work, TxnCommits, NoExtension, Retry, Build, ClaimOrExtend, Request, BeginExpiry, ExpireLease
<1>6. ASSUME NEW m \in Managers, Tick(m) \/ Kill(m) \/ ErrDying(m) \/ Fail(m) \/ Restart(m)
      PROVE  UNCHANGED call \/ Ends(m)
  BY <1>6 DEF Tick, Kill, ErrDying, Fail, Restart
<1>7. ASSUME NEW m \in Managers, NEW x \in Names, FallsDue(m, x) \/ TimeIsUp(x) PROVE UNCHANGED call
  BY <1>7 DEF FallsDue, TimeIsUp
<1> HIDE DEF Goal
<1>8. CASE \E m \in Managers : Work(m)
  BY <1>1, <1>2, <1>5, <1>8 DEF Goal
<1>9. CASE \E m \in Managers : Tick(m) \/ Kill(m) \/ ErrDying(m) \/ Fail(m) \/ Restart(m)
  BY <1>1, <1>2, <1>6, <1>9 DEF Goal
<1>10. CASE \E m \in Managers, x \in Names : FallsDue(m, x)
  BY <1>1, <1>7, <1>10
<1>11. CASE \E x \in Names : TimeIsUp(x)
  BY <1>1, <1>11 DEF TimeIsUp
<1>12. Goal
  BY <1>3, <1>4, <1>8, <1>9, <1>10, <1>11 DEF Step, Goal
<1> QED BY <1>12 DEF Goal

(* While m is in a turn nobody is taken by it.                             *)
LEMMA NobodyJoins ==
  ASSUME Inv, Step, NEW m \in Managers, NEW c \in Callers, loop[m] # "select", Waiting(m, c)'
  PROVE  call'[c] = call[c]
<1>1. call'[c].phase = "taken" /\ call'[c].mgr = m
  BY DEF Waiting, At
<1>2. ASSUME call[c].phase = "sent", call'[c] = [call[c] EXCEPT !.phase = "taken"]
      PROVE  call'[c].mgr = call[c].mgr
  BY <1>2, CallType DEF Inv, Calls
<1>3. call'[c] # Idle
  BY <1>1 DEF Idle
<1>4. ASSUME NEW r \in Requests[c]
      PROVE  call'[c] # [phase |-> "sent", kind |-> r.kind, mgr |-> r.mgr,
                         name |-> r.name, holder |-> r.holder]
  BY <1>1
<1> QED BY <1>1, <1>2, <1>3, <1>4, CallChanges

(* Calls keep their holder.                                                *)
LEMMA CallsStep == Inv /\ Next => CallsSound'
<1> SUFFICES ASSUME Inv, Step, NEW c \in Callers, call'[c].kind \in {"claim", "check"}
             PROVE  call'[c].holder \in Holders
  BY DEF Next, CallsSound
<1>1. CASE call'[c] = call[c]
  BY <1>1 DEF Inv, CallsSound
<1>2. CASE call'[c] = Idle
  BY <1>2 DEF Idle
<1>3. CASE call[c].phase = "sent" /\ call'[c] = [call[c] EXCEPT !.phase = "taken"]
  <2>1. call'[c].kind = call[c].kind /\ call'[c].holder = call[c].holder
    BY <1>3, CallType DEF Inv, Calls
  <2> QED BY <2>1 DEF Inv, CallsSound
<1>4. ASSUME NEW r \in Requests[c],
             call'[c] = [phase |-> "sent", kind |-> r.kind, mgr |-> r.mgr,
                         name |-> r.name, holder |-> r.holder]
      PROVE  call'[c].holder \in Holders
  BY <1>4, RequestsAssumption
<1> QED BY <1>1, <1>2, <1>3, <1>4, CallChanges

-----------------------------------------------------------------------------
(* A step of one manager leaves the loops of the others alone, and a step  *)
(* of nobody's leaves all of them.                                         *)
Aside(m) ==
  /\ loop'[m] = loop[m] /\ job'[m] = job[m] /\ op'[m] = op[m] /\ cache'[m] = cache[m]

LEMMA OthersAside ==
  ASSUME Inv, NEW m \in Managers, NEW n \in Managers, m # n,
         \/ Work(m) \/ Tick(m) \/ Kill(m) \/ ErrDying(m) \/ Fail(m) \/ Restart(m)
         \/ (\E c \in Callers : Serve(m, c)) \/ (\E x \in Names : FallsDue(m, x))
  PROVE  Aside(n)
<1> USE DEF work, client
<1> /\ loop = [k \in Managers |-> loop[k]] /\ job = [k \in Managers |-> job[k]]
    /\ op = [k \in Managers |-> op[k]] /\ cache = [k \in Managers |-> cache[k]]
  BY DEF Inv, TypeOK
<1>1. ASSUME NEW w, EndTurn(m, w) \/ Ends(m)
      PROVE  loop'[n] = loop[n] /\ job'[n] = job[n] /\ op'[n] = op[n]
  BY <1>1 DEF EndTurn, Ends, Forget
<1>2. ASSUME Refresh(m) PROVE cache'[n] = cache[n]
  BY <1>2 DEF Refresh
<1>3. ASSUME NEW place, Go(m, place) PROVE loop'[n] = loop[n]
  BY <1>3 DEF Go
<1>4. CASE Work(m)
  <2>1. CASE TxnCommits(m)
    BY <1>3, <2>1 DEF TxnCommits, Succeeded, Aside
  <2>2. CASE NoExtension(m)
    BY <1>3, <2>2 DEF NoExtension, Succeeded, Aside
  <2>3. CASE TxnAborts(m)
    BY <1>1, <1>3, <2>3 DEF TxnAborts, Aside
  <2>4. CASE Retry(m) \/ Build(m) \/ BeginExpiry(m)
    BY <1>2, <1>3, <2>4 DEF Retry, Build, BeginExpiry, Aside
  <2>5. CASE ClaimOrExtend(m)
    BY <1>3, <2>5 DEF ClaimOrExtend, Request, Aside
  <2>6. CASE Deny(m) \/ Grant(m) \/ CheckAnswer(m) \/ EndTick(m)
    BY <1>1, <2>6 DEF Deny, Grant, CheckAnswer, EndTick, Aside
  <2>7. ASSUME NEW x \in Names, ExpireLease(m, x) PROVE Aside(n)
    BY <1>3, <2>7 DEF ExpireLease, Aside
  <2> QED BY <1>4, <2>1, <2>2, <2>3, <2>4, <2>5, <2>6, <2>7 DEF Work
<1>5. CASE Tick(m) \/ Kill(m) \/ Restart(m)
  BY <1>2, <1>3, <1>5 DEF Tick, Kill, Restart, Aside
<1>6. CASE ErrDying(m) \/ Fail(m)
  BY <1>1, <1>6 DEF ErrDying, Fail, Aside
<1>7. ASSUME NEW c \in Callers, Serve(m, c) PROVE Aside(n)
  BY <1>2, <1>3, <1>7 DEF Serve, TakeClaim, CheckHeld, CheckRefresh, Block, Aside
<1>8. ASSUME NEW x \in Names, FallsDue(m, x) PROVE Aside(n)
  BY <1>8 DEF FallsDue, Aside
<1> QED BY <1>4, <1>5, <1>6, <1>7, <1>8

(* JobsSound and TurnsSound, manager by manager.                           *)
JobSound(m) ==
  /\ loop[m] = "claim" => job[m].holder \in Holders
  /\ loop[m] = "checked" => job[m].who \in Callers
  /\ loop[m] \in {"select", "dead"} => job[m].who = None
  /\ loop[m] \in {"run", "retry", "build"} =>
       op[m] = "expire" \/ (op[m] \in {"claim", "extend"} /\ job[m].holder \in Holders)

ManagerSound(m) == JobSound(m) /\ \A c \in Callers : TurnSound(m, c)

LEMMA ManagersSound == JobsSound /\ TurnsSound <=> \A m \in Managers : ManagerSound(m)
  BY DEF JobsSound, TurnsSound, JobSound, ManagerSound

(* A manager that a step leaves alone stays sound.                         *)
LEMMA AsideSound ==
  ASSUME Inv, Step, Observe, NEW m \in Managers, Aside(m)
  PROVE  ManagerSound(m)'
<1>1. \A c \in Callers : TurnSound(m, c)'
  BY OthersTurn, NobodyJoins DEF Aside, Inv
<1>2. JobSound(m)'
  BY DEF Aside, Inv, JobsSound, JobSound
<1> QED BY <1>1, <1>2 DEF ManagerSound

(* So does one that goes on with its turn, and does not refuse a check.    *)
LEMMA GoesOnSound ==
  ASSUME Inv, Step, Observe, NEW m \in Managers,
         loop[m] # "select", loop'[m] # "checked", job'[m].who = job[m].who, JobSound(m)'
  PROVE  ManagerSound(m)'
<1> SUFFICES ASSUME NEW c \in Callers, job'[m].who = c, Waiting(m, c)'
             PROVE  call'[c].kind # "wait"
  BY DEF ManagerSound, TurnSound
<1>1. call'[c] = call[c] /\ Waiting(m, c)
  BY NobodyJoins DEF Waiting, At
<1> QED BY <1>1 DEF Inv, TurnsSound, TurnSound

(* And one that works for nobody.                                          *)
LEMMA AloneSound ==
  ASSUME NEW m \in Managers, job'[m].who = None, JobSound(m)'
  PROVE  ManagerSound(m)'
  BY NoneAssumption DEF ManagerSound, TurnSound

(* The manager that takes the step stays sound.                            *)
LEMMA WorkSound ==
  ASSUME Inv, Step, Observe, NEW m \in Managers, Work(m)
  PROVE  ManagerSound(m)'
<1> USE DEF work
<1> TypeOK /\ JobSound(m)
  BY DEF Inv, JobsSound, JobSound
<1>a. ASSUME NEW place, Go(m, place) PROVE loop'[m] = place
  BY <1>a DEF Go, TypeOK
<1>b. ASSUME NEW w, EndTurn(m, w) \/ Ends(m) PROVE loop'[m] \in {"select", "dead"} /\ job'[m].who = None
  BY <1>b DEF EndTurn, Ends, Forget, NoJob, TypeOK
<1>1. CASE TxnCommits(m) \/ NoExtension(m)
  <2>1. loop'[m] \in {"expire", "granted"} /\ job'[m] = job[m] /\ loop[m] = "run"
    BY <1>1, <1>a DEF TxnCommits, NoExtension, Succeeded
  <2>2. JobSound(m)'
    BY <2>1 DEF JobSound
  <2> QED BY <2>1, <2>2, GoesOnSound
<1>2. CASE TxnAborts(m) /\ ~Ends(m)
  <2>1. loop'[m] = "retry" /\ job'[m] = job[m] /\ op'[m] = op[m] /\ loop[m] = "run"
    BY <1>2, <1>a DEF TxnAborts
  <2>2. JobSound(m)'
    BY <2>1 DEF JobSound
  <2> QED BY <2>1, <2>2, GoesOnSound
<1>3. CASE Retry(m)
  <2>1. loop'[m] = "build" /\ job'[m] = job[m] /\ op'[m] = op[m] /\ loop[m] = "retry"
    BY <1>3, <1>a DEF Retry
  <2>2. JobSound(m)'
    BY <2>1 DEF JobSound
  <2> QED BY <2>1, <2>2, GoesOnSound
<1>4. CASE Build(m)
  <2>1. /\ loop'[m] = IF ~Invalid(m) THEN "run" ELSE IF op[m] = "expire" THEN "expire" ELSE "claim"
        /\ job'[m] = job[m] /\ op'[m] = op[m] /\ loop[m] = "build"
    BY <1>4, <1>a DEF Build
  <2>2. JobSound(m)' /\ loop'[m] # "checked"
    BY <2>1 DEF JobSound
  <2> QED BY <2>1, <2>2, GoesOnSound
<1>5. CASE ClaimOrExtend(m)
  <2>1. PICK kind \in {"claim", "extend"} : Request(m, kind)
    BY <1>5 DEF ClaimOrExtend
  <2>2. loop'[m] = "run" /\ job'[m] = job[m] /\ op'[m] = kind /\ loop[m] = "claim"
    BY <1>5, <1>a, <2>1 DEF ClaimOrExtend, Request, TypeOK
  <2>3. JobSound(m)'
    BY <2>2 DEF JobSound
  <2> QED BY <2>2, <2>3, GoesOnSound
<1>6. CASE Deny(m) \/ Grant(m) \/ CheckAnswer(m) \/ EndTick(m) \/ Ends(m)
  <2>1. loop'[m] \in {"select", "dead"} /\ job'[m].who = None
    BY <1>6, <1>b DEF Deny, Grant, CheckAnswer, EndTick
  <2>2. JobSound(m)'
    BY <2>1 DEF JobSound
  <2> QED BY <2>1, <2>2, AloneSound
<1>7. CASE BeginExpiry(m)
  <2>1. loop'[m] = "expire" /\ job'[m] = job[m] /\ loop[m] = "ticked"
    BY <1>7, <1>a DEF BeginExpiry
  <2>2. JobSound(m)'
    BY <2>1 DEF JobSound
  <2> QED BY <2>1, <2>2, GoesOnSound
<1>8. ASSUME NEW x \in Names, ExpireLease(m, x) PROVE ManagerSound(m)'
  <2>1. loop'[m] = "build" /\ job'[m].who = None /\ op'[m] = "expire"
    BY <1>8, <1>a DEF ExpireLease, NoJob, TypeOK
  <2>2. JobSound(m)'
    BY <2>1 DEF JobSound
  <2> QED BY <2>1, <2>2, AloneSound
<1> QED BY <1>1, <1>2, <1>3, <1>4, <1>5, <1>6, <1>7, <1>8 DEF Work

LEMMA ServeSound ==
  ASSUME Inv, Step, Observe, NEW m \in Managers, NEW c \in Callers, Serve(m, c)
  PROVE  ManagerSound(m)'
<1> USE DEF work, client
<1> TypeOK /\ JobSound(m)
  BY DEF Inv, JobsSound, JobSound
<1>1. loop[m] = "select" /\ call[c].mgr = m /\ call[c].phase = "sent"
  BY DEF Serve, TakeClaim, CheckHeld, CheckRefresh, Block, Take, At
<1>2. CASE CheckHeld(m, c) \/ Block(m, c)
  <2>1. Aside(m)
    BY <1>2 DEF CheckHeld, Block, Aside
  <2> QED BY <2>1, AsideSound
<1> DEFINE Job == [who |-> c, name |-> call[c].name, holder |-> call[c].holder]
<1>3. ASSUME TakeClaim(m, c) \/ CheckRefresh(m, c)
      PROVE  /\ job'[m] = Job /\ call'[c] = [call[c] EXCEPT !.phase = "taken"]
             /\ call[c].kind \in {"claim", "check"} /\ call[c].holder \in Holders
  <2>1. call[c].kind \in {"claim", "check"}
    BY <1>3 DEF TakeClaim, CheckRefresh, Take
  <2>2. job'[m] = Job /\ call' = [call EXCEPT ![c].phase = "taken"]
    BY <1>3 DEF TakeClaim, CheckRefresh, TypeOK
  <2>3. call'[c] = [call[c] EXCEPT !.phase = "taken"]
    BY <2>2 DEF TypeOK
  <2> QED BY <2>1, <2>2, <2>3 DEF Inv, CallsSound
<1>4. ASSUME TakeClaim(m, c) \/ CheckRefresh(m, c)
      PROVE  /\ call'[c].kind = call[c].kind /\ call'[c].name = call[c].name
             /\ call'[c].holder = call[c].holder /\ call'[c] # Idle
  BY <1>1, <1>3, <1>4, CallType DEF Calls, Idle
<1>5. CASE TakeClaim(m, c)
  <2>1. loop'[m] = "claim"
    BY <1>5 DEF TakeClaim, Go, TypeOK
  <2>2. JobSound(m)'
    BY <1>3, <1>5, <2>1 DEF JobSound
  <2> QED BY <1>3, <1>4, <1>5, <2>1, <2>2 DEF ManagerSound, TurnSound
<1>6. CASE CheckRefresh(m, c)
  <2>1. loop'[m] = "checked" /\ cache'[m] = holder /\ holder' = holder
    BY <1>6 DEF CheckRefresh, Refresh, Go, TypeOK, leases
  <2>2. JobSound(m)'
    BY <1>3, <1>6, <2>1 DEF JobSound
  <2>3. call[c].kind = "check"
    BY <1>6 DEF CheckRefresh, Take
  <2>4. cache'[m][job'[m].name] # job'[m].holder => NotHeld(c)'
    BY <1>3, <1>4, <1>6, <2>1, <2>3 DEF NotHeld
  <2>5. cache'[m][job'[m].name] # job'[m].holder => c \in seen'
    BY <1>4, <1>6, <2>4 DEF Observe
  <2> QED BY <1>3, <1>4, <1>6, <2>2, <2>3, <2>5 DEF ManagerSound, TurnSound
<1> QED BY <1>2, <1>5, <1>6 DEF Serve

LEMMA OtherStepsSound ==
  ASSUME Inv, Step, Observe, NEW m \in Managers,
         Tick(m) \/ Kill(m) \/ ErrDying(m) \/ Fail(m) \/ Restart(m)
  PROVE  ManagerSound(m)'
<1> USE DEF work, client
<1> TypeOK /\ JobSound(m)
  BY DEF Inv, JobsSound, JobSound
<1>1. CASE Tick(m) \/ Restart(m)
  <2>1. loop[m] \in {"select", "dead"} /\ loop'[m] \in {"ticked", "select"} /\ job'[m] = job[m]
    BY <1>1 DEF Tick, Restart, Go, TypeOK
  <2>2. JobSound(m)' /\ job'[m].who = None
    BY <2>1 DEF JobSound
  <2> QED BY <2>2, AloneSound
<1>2. CASE Kill(m)
  <2>1. Aside(m)
    BY <1>2 DEF Kill, Aside
  <2> QED BY <2>1, AsideSound
<1>3. CASE ErrDying(m) \/ Fail(m)
  <2>1. loop'[m] = "dead" /\ job'[m].who = None
    BY <1>3 DEF ErrDying, Fail, Ends, Forget, NoJob, TypeOK
  <2>2. JobSound(m)'
    BY <2>1 DEF JobSound
  <2> QED BY <2>1, <2>2, AloneSound
<1> QED BY <1>1, <1>2, <1>3

LEMMA ManagersStep == Inv /\ Next => JobsSound' /\ TurnsSound'
<1> SUFFICES ASSUME Inv, Step, Observe, NEW n \in Managers PROVE ManagerSound(n)'
  BY ManagersSound DEF Next, JobsSound, TurnsSound, JobSound, ManagerSound
<1>1. ASSUME NEW m \in Managers,
             \/ Work(m) \/ Tick(m) \/ Kill(m) \/ ErrDying(m) \/ Fail(m) \/ Restart(m)
             \/ (\E c \in Callers : Serve(m, c))
      PROVE  ManagerSound(n)'
  <2>1. CASE m = n
    BY <1>1, <2>1, WorkSound, ServeSound, OtherStepsSound
  <2>2. CASE m # n
    <3>1. Aside(n)
      BY <1>1, <2>2, OthersAside
    <3> QED BY <3>1, AsideSound
  <2> QED BY <2>1, <2>2
<1>2. ASSUME UNCHANGED <<loop, job, op, cache>> PROVE ManagerSound(n)'
  <2>1. Aside(n)
    BY <1>2 DEF Aside
  <2> QED BY <2>1, AsideSound
<1>3. ASSUME NEW m \in Managers, NEW x \in Names, FallsDue(m, x) \/ TimeIsUp(x) PROVE ManagerSound(n)'
  BY <1>2, <1>3 DEF FallsDue, TimeIsUp, work, client
<1>4. ASSUME NEW c \in Callers, Stopped(c) \/ \E r \in Requests[c] : Call(c, r) PROVE ManagerSound(n)'
  BY <1>2, <1>4 DEF Stopped, Call, work, client
<1> QED BY <1>1, <1>3, <1>4 DEF Step

-----------------------------------------------------------------------------
(* Nothing changes in a stuttering step.                                   *)
LEMMA StutterInv == Inv /\ UNCHANGED vars => Inv'
<1> SUFFICES ASSUME Inv, UNCHANGED vars PROVE Inv'
  OBVIOUS
<1> USE DEF vars, system, leases, client, work
<1>1. TypeOK'
  BY DEF Inv, TypeOK, Vacant
<1>2. SnapshotSound' /\ CallsSound' /\ JobsSound'
  BY DEF Inv, SnapshotSound, CallsSound, JobsSound
<1>3. TurnsSound'
  BY DEF Inv, TurnsSound, TurnSound, Waiting, At
<1> QED BY <1>1, <1>2, <1>3 DEF Inv

(* Inv is an invariant.                                                    *)
THEOREM Invariance == Spec => []Inv
<1>1. Inv /\ [Next]_vars => Inv'
  BY TypeStep, SnapshotStep, CallsStep, ManagersStep, StutterInv DEF Inv
<1> QED BY InitInv, <1>1, PTL DEF Spec

(* TypeOK, for any managers and callers: among others, no transaction of a *)
(* manager's client is attempted more than NrRetries times.                *)
THEOREM TypeCorrect == Spec => []TypeOK
<1>1. Inv => TypeOK
  BY DEF Inv
<1> QED BY <1>1, Invariance, PTL

(* SnapshotSound: what the loop decides from its snapshot is decided from  *)
(* the leases as they are, unless another manager has written since.       *)
THEOREM SnapshotsSound == Spec => []SnapshotSound
<1>1. Inv => SnapshotSound
  BY DEF Inv
<1> QED BY <1>1, Invariance, PTL

(* NotHeldSound: handleCheck refuses only what was not held at a moment of *)
(* the call, because it refreshes before it refuses.                       *)
THEOREM RefusalsSound == Spec => NotHeldSound
<1> DEFINE A == \A m \in Managers :
                  CheckAnswer(m) /\ cache[m][job[m].name] # job[m].holder /\ Waiting(m, job[m].who)
                    => job[m].who \in seen
<1>1. Inv => A
  BY DEF Inv, JobsSound, TurnsSound, TurnSound, CheckAnswer
<1>2. Inv /\ [Next]_vars => [A]_vars
  BY <1>1
<1>3. Spec => [][A]_vars
  BY <1>2, Invariance, PTL DEF Spec
<1> QED BY <1>3 DEF NotHeldSound

-----------------------------------------------------------------------------
(* A waiter whose call ends while its manager lives was released over the  *)
(* manager's snapshot.                                                     *)
LEMMA ReleasedBySnapshot ==
  ASSUME Inv, Step, NEW c \in Callers, call[c].kind = "wait", call'[c] = Idle,
         call[c].mgr \notin dying \cup dying'
  PROVE  UNCHANGED <<leases, client>> /\ cache[call[c].mgr][call[c].name] = None
<1> DEFINE Goal == UNCHANGED <<leases, client>> /\ cache[call[c].mgr][call[c].name] = None
<1>0. call'[c] # call[c] /\ call = [d \in Callers |-> call[d]]
  BY DEF Idle, Inv, TypeOK
<1>1. ASSUME NEW m \in Managers, Deny(m) \/ Grant(m) \/ CheckAnswer(m) \/ EndTick(m) PROVE Goal
  <2>1. EndTurn(m, job[m].who) \/ EndTurn(m, None)
    BY <1>1 DEF Deny, Grant, CheckAnswer, EndTick
  <2>2. loop[m] # "select" /\ UNCHANGED <<leases, client>>
    BY <1>1 DEF Deny, Grant, CheckAnswer, EndTick
  <2>3. \/ job[m].who = c /\ At(m, c) /\ call[c].phase = "taken"
        \/ Released(m, c)
    BY <1>0, <2>1, NoneAssumption DEF EndTurn
  <2>4. ~(job[m].who = c /\ At(m, c) /\ call[c].phase = "taken")
    BY <2>2 DEF Inv, TurnsSound, TurnSound, Waiting
  <2> QED BY <2>2, <2>3, <2>4 DEF Released, At
<1>2. ASSUME NEW m \in Managers, Ends(m) PROVE FALSE
  BY <1>0, <1>2 DEF Ends, At
<1>3. ASSUME NEW m \in Managers, Work(m) PROVE Goal
  <2>1. CASE Deny(m) \/ Grant(m) \/ CheckAnswer(m) \/ EndTick(m)
    BY <1>1, <2>1
  <2>2. CASE TxnAborts(m)
    BY <1>0, <1>2, <2>2 DEF TxnAborts
  <2>3. CASE UNCHANGED call
    BY <1>0, <2>3
  <2> QED BY <1>3, <2>1, <2>2, <2>3
        DEF Work, TxnCommits, NoExtension, Retry, Build, ClaimOrExtend, Request, BeginExpiry, ExpireLease
<1>4. ASSUME NEW m \in Managers, Tick(m) \/ Kill(m) \/ ErrDying(m) \/ Fail(m) \/ Restart(m) PROVE FALSE
  BY <1>0, <1>2, <1>4 DEF Tick, Kill, ErrDying, Fail, Restart
<1>5. ASSUME NEW m \in Managers, NEW d \in Callers, Serve(m, d) PROVE Goal
  <2>1. c = d
    BY <1>0, <1>5 DEF Serve, TakeClaim, CheckHeld, CheckRefresh, Block
  <2>2. Block(m, c)
    BY <1>5, <2>1 DEF Serve, TakeClaim, CheckHeld, CheckRefresh, Take
  <2>3. call[c].mgr = m /\ call[c].phase = "sent" /\ UNCHANGED <<leases, client>>
    BY <2>2 DEF Block, Take, At
  <2>4. ASSUME cache[m][call[c].name] # None PROVE FALSE
    <3>1. call' = [call EXCEPT ![c].phase = "taken"]
      BY <2>2, <2>4 DEF Block
    <3>2. call'[c] = [call[c] EXCEPT !.phase = "taken"]
      BY <1>0, <3>1
    <3>3. call'[c].phase = "taken"
      BY <2>3, <3>2, CallType DEF Inv, Calls
    <3> QED BY <3>3 DEF Idle
  <2> QED BY <2>3, <2>4
<1>6. ASSUME NEW m \in Managers, NEW x \in Names, FallsDue(m, x) \/ TimeIsUp(x) PROVE FALSE
  BY <1>0, <1>6 DEF FallsDue, TimeIsUp
<1>7. ASSUME NEW d \in Callers, Stopped(d) \/ \E r \in Requests[d] : Call(d, r) PROVE FALSE
  <2>1. call[d].mgr \in dying \/ call[d] = Idle
    BY <1>7 DEF Stopped, Call
  <2>2. c # d
    BY <1>0, <2>1
  <2> QED BY <1>0, <1>7, <2>2 DEF Stopped, Call
<1> HIDE DEF Goal
<1>8. Goal
  BY <1>3, <1>4, <1>5, <1>6, <1>7, CallersAssumption DEF Step
<1> QED BY <1>8 DEF Goal

(* ReleaseSound: a WaitUntilExpired that returns without an error found    *)
(* the lease vacant, or its manager's snapshot was overtaken.              *)
THEOREM ReleasesSound == Spec => ReleaseSound
<1> DEFINE A == \A c \in Callers :
                  LET m == call[c].mgr
                      x == call[c].name
                  IN  call[c].kind = "wait" /\ call'[c] = Idle /\ m \notin dying \cup dying' =>
                        x \notin fresh'[m] \/ holder'[x] = None
<1>1. ASSUME Inv, Next PROVE A
  <2> SUFFICES ASSUME NEW c \in Callers, call[c].kind = "wait", call'[c] = Idle,
                      call[c].mgr \notin dying \cup dying', call[c].name \in fresh'[call[c].mgr]
               PROVE  holder'[call[c].name] = None
    OBVIOUS
  <2>1. UNCHANGED <<leases, client>> /\ cache[call[c].mgr][call[c].name] = None
    BY <1>1, ReleasedBySnapshot DEF Next
  <2>2. call[c].mgr \in Managers
    BY <1>1 DEF Inv, TypeOK, Idle
  <2> QED BY <1>1, <2>1, <2>2 DEF Inv, SnapshotSound, leases, client
<1>2. Inv /\ [Next]_vars => [A]_vars
  BY <1>1
<1>3. Spec => [][A]_vars
  BY <1>2, Invariance, PTL DEF Spec
<1> QED BY <1>3 DEF ReleaseSound
-----------------------------------------------------------------------------
(* Nobody is forgotten, and the client is asked for what fits the lease.   *)

(* The loop expires leases for nobody.                                     *)
ExpiresAlone ==
  \A m \in Managers :
    \/ loop[m] \in {"ticked", "expire"}
    \/ loop[m] \in {"run", "retry", "build"} /\ op[m] = "expire"
    => job[m].who = None

Remembered(m, c) ==
  /\ loop[m] # "dead"
  /\ call[c].kind # "wait" => job[m].who = c
  /\ call[c].kind = "wait" /\ loop[m] = "select" => cache[m][call[c].name] # None

(* The operation that runs is the one that the snapshot suggests.          *)
OpChosen(m) ==
  loop[m] = "run" =>
    /\ op[m] = "claim"  => cache[m][Target(m)] = None
    /\ op[m] = "extend" => cache[m][Target(m)] = job[m].holder
    /\ op[m] = "expire" => Target(m) \in due[m]

OpsChosen == \A m \in Managers : OpChosen(m)

(* A step of m that is not the end of its turn.                            *)
LEMMA AloneWork ==
  ASSUME Inv, ExpiresAlone, NEW m \in Managers, Work(m)
  PROVE  \/ /\ loop[m] # "select" /\ loop'[m] \notin {"select", "dead"}
            /\ UNCHANGED call
            /\ job'[m].who = job[m].who
         \/ EndTurn(m, job[m].who) /\ cache' = cache /\ loop[m] # "select"
         \/ Ends(m)
<1> TypeOK
  BY DEF Inv
<1> USE DEF work, client
<1>a. ASSUME NEW place, Go(m, place) PROVE loop'[m] = place
  BY <1>a DEF Go, TypeOK
<1>1. CASE TxnCommits(m) \/ NoExtension(m)
  BY <1>1, <1>a DEF TxnCommits, NoExtension, Succeeded
<1>2. CASE TxnAborts(m)
  BY <1>2, <1>a DEF TxnAborts
<1>3. CASE Retry(m) \/ BeginExpiry(m)
  BY <1>3, <1>a DEF Retry, BeginExpiry
<1>4. CASE Build(m)
  BY <1>4, <1>a DEF Build
<1>5. CASE ClaimOrExtend(m)
  BY <1>5, <1>a DEF ClaimOrExtend, Request
<1>6. CASE Deny(m) \/ Grant(m) \/ CheckAnswer(m)
  BY <1>6 DEF Deny, Grant, CheckAnswer
<1>7. CASE EndTick(m)
  <2>1. job[m].who = None
    BY <1>7 DEF EndTick, ExpiresAlone
  <2> QED BY <1>7, <2>1 DEF EndTick
<1>8. ASSUME NEW x \in Names, ExpireLease(m, x)
      PROVE  /\ loop[m] # "select" /\ loop'[m] \notin {"select", "dead"} /\ UNCHANGED call
             /\ job'[m].who = job[m].who
  <2>1. job[m].who = None /\ loop[m] = "expire"
    BY <1>8 DEF ExpireLease, ExpiresAlone
  <2>2. job'[m].who = None /\ loop'[m] = "build" /\ UNCHANGED call
    BY <1>8, <1>a DEF ExpireLease, NoJob, TypeOK
  <2> QED BY <2>1, <2>2
<1> QED BY <1>1, <1>2, <1>3, <1>4, <1>5, <1>6, <1>7, <1>8 DEF Work

(* A caller that is taken was so before, or is received in this step.      *)
LEMMA TakenBefore ==
  ASSUME Inv, ExpiresAlone, Step, NEW c \in Callers, call'[c].phase = "taken"
  PROVE  call'[c] = call[c] \/ \E m \in Managers : Serve(m, c)
<1>0. call = [d \in Callers |-> call[d]] /\ call'[c] # Idle
  BY DEF Inv, TypeOK, Idle
<1>1. ASSUME NEW m \in Managers, NEW w, EndTurn(m, w) \/ Ends(m) PROVE call'[c] = call[c]
  BY <1>0, <1>1 DEF EndTurn, Ends
<1>2. ASSUME NEW m \in Managers, Work(m) PROVE call'[c] = call[c]
  BY <1>1, <1>2, AloneWork
<1>3. ASSUME NEW m \in Managers, Tick(m) \/ Kill(m) \/ ErrDying(m) \/ Fail(m) \/ Restart(m)
      PROVE  call'[c] = call[c]
  BY <1>1, <1>3 DEF Tick, Kill, ErrDying, Fail, Restart
<1>4. ASSUME NEW m \in Managers, NEW d \in Callers, Serve(m, d), d # c PROVE call'[c] = call[c]
  BY <1>0, <1>4 DEF Serve, TakeClaim, CheckHeld, CheckRefresh, Block
<1>5. ASSUME NEW m \in Managers, NEW x \in Names, FallsDue(m, x) \/ TimeIsUp(x)
      PROVE  call'[c] = call[c]
  BY <1>5 DEF FallsDue, TimeIsUp
<1>6. ASSUME NEW d \in Callers, Stopped(d) \/ \E r \in Requests[d] : Call(d, r)
      PROVE  call'[c] = call[c]
  <2>1. d # c
    BY <1>0, <1>6 DEF Stopped, Call
  <2> QED BY <1>0, <1>6, <2>1 DEF Stopped, Call
<1> QED BY <1>2, <1>3, <1>4, <1>5, <1>6, CallersAssumption DEF Step

(* A step either is m's own or leaves its loop alone.                      *)
LEMMA OwnOrAside ==
  ASSUME Inv, Step, NEW m \in Managers
  PROVE  \/ Aside(m)
         \/ Work(m) \/ Tick(m) \/ ErrDying(m) \/ Fail(m) \/ Restart(m)
         \/ \E c \in Callers : TakeClaim(m, c) \/ CheckRefresh(m, c)
<1> USE DEF work, client
<1>1. ASSUME NEW n \in Managers, NEW x \in Names, FallsDue(n, x) \/ TimeIsUp(x) PROVE Aside(m)
  BY <1>1 DEF FallsDue, TimeIsUp, Aside
<1>2. ASSUME NEW d \in Callers, Stopped(d) \/ \E r \in Requests[d] : Call(d, r) PROVE Aside(m)
  BY <1>2 DEF Stopped, Call, Aside
<1>3. ASSUME Kill(m) \/ \E c \in Callers : CheckHeld(m, c) \/ Block(m, c) PROVE Aside(m)
  BY <1>3 DEF Kill, CheckHeld, Block, Aside
<1>4. ASSUME NEW n \in Managers, n # m,
             \/ Work(n) \/ Tick(n) \/ Kill(n) \/ ErrDying(n) \/ Fail(n) \/ Restart(n)
             \/ (\E c \in Callers : Serve(n, c))
      PROVE  Aside(m)
  BY <1>4, OthersAside
<1> QED BY <1>1, <1>2, <1>3, <1>4, CallersAssumption DEF Step, Serve

(* A turn for an expiry is for nobody.                                     *)
LEMMA ExpiresAloneStep == ASSUME Inv, ExpiresAlone, Step PROVE ExpiresAlone'
<1> SUFFICES ASSUME NEW m \in Managers,
                    \/ loop'[m] \in {"ticked", "expire"}
                    \/ loop'[m] \in {"run", "retry", "build"} /\ op'[m] = "expire"
             PROVE  job'[m].who = None
  BY DEF ExpiresAlone
<1> TypeOK /\ JobSound(m)
  BY DEF Inv, JobsSound, JobSound
<1> DEFINE Alone == \/ loop[m] \in {"ticked", "expire"}
                    \/ loop[m] \in {"run", "retry", "build"} /\ op[m] = "expire"
<1> USE DEF work, client
<1>a. ASSUME NEW place, Go(m, place) PROVE loop'[m] = place
  BY <1>a DEF Go, TypeOK
<1>b. ASSUME NEW w, EndTurn(m, w) \/ Ends(m) PROVE loop'[m] \in {"select", "dead"}
  BY <1>b DEF EndTurn, Ends, TypeOK
<1>c. Alone => job[m].who = None
  BY DEF ExpiresAlone
<1>1. CASE Aside(m)
  BY <1>1, <1>c DEF Aside
<1>2. CASE TxnCommits(m) \/ NoExtension(m)
  BY <1>2, <1>a, <1>c DEF TxnCommits, NoExtension, Succeeded
<1>3. CASE TxnAborts(m)
  BY <1>3, <1>a, <1>b, <1>c DEF TxnAborts
<1>4. CASE Retry(m) \/ BeginExpiry(m)
  BY <1>4, <1>a, <1>c DEF Retry, BeginExpiry
<1>5. CASE Build(m)
  BY <1>5, <1>a, <1>c DEF Build
<1>6. CASE ClaimOrExtend(m)
  BY <1>6, <1>a DEF ClaimOrExtend, Request, TypeOK
<1>7. CASE Deny(m) \/ Grant(m) \/ CheckAnswer(m) \/ EndTick(m) \/ ErrDying(m) \/ Fail(m)
  BY <1>7, <1>b DEF Deny, Grant, CheckAnswer, EndTick, ErrDying, Fail
<1>8. ASSUME NEW x \in Names, ExpireLease(m, x) PROVE job'[m].who = None
  BY <1>8 DEF ExpireLease, NoJob, TypeOK
<1>9. CASE Tick(m) \/ Restart(m)
  BY <1>9, <1>a DEF Tick, Restart, JobSound
<1>10. ASSUME NEW c \in Callers, TakeClaim(m, c) \/ CheckRefresh(m, c) PROVE FALSE
  BY <1>10, <1>a DEF TakeClaim, CheckRefresh
<1> QED BY <1>1, <1>2, <1>3, <1>4, <1>5, <1>6, <1>7, <1>8, <1>9, <1>10, OwnOrAside DEF Work

(* Every step remembers those whose calls it has received.                 *)
LEMMA RememberedStep ==
  ASSUME Inv, ExpiresAlone, NobodyForgotten, Step PROVE NobodyForgotten'
<1> SUFFICES ASSUME NEW c \in Callers, call'[c].phase = "taken"
             PROVE  \E m \in Managers : m = call'[c].mgr /\ Remembered(m, c)'
  BY DEF NobodyForgotten, Remembered
<1> TypeOK
  BY DEF Inv
<1> USE DEF work, client
<1>1. ASSUME NEW m \in Managers, Serve(m, c)
      PROVE  m = call'[c].mgr /\ Remembered(m, c)'
  <2>1. call[c].mgr = m /\ call[c].phase = "sent" /\ loop[m] = "select"
    BY <1>1 DEF Serve, TakeClaim, CheckHeld, CheckRefresh, Block, Take, At
  <2>2. ASSUME call' = [call EXCEPT ![c].phase = "taken"]
        PROVE  /\ call'[c].mgr = m /\ call'[c].kind = call[c].kind
               /\ call'[c].name = call[c].name
    <3>1. call'[c] = [call[c] EXCEPT !.phase = "taken"]
      BY <2>2 DEF TypeOK
    <3> QED BY <2>1, <3>1, CallType DEF Calls
  <2>3. CASE TakeClaim(m, c) \/ CheckRefresh(m, c)
    <3>1. call[c].kind # "wait" /\ job'[m].who = c /\ loop'[m] # "dead"
      BY <2>3 DEF TakeClaim, CheckRefresh, Take, Go, TypeOK
    <3> QED BY <2>1, <2>2, <2>3, <3>1 DEF Remembered, TakeClaim, CheckRefresh
  <2>4. CASE CheckHeld(m, c)
    BY <2>4 DEF CheckHeld, TypeOK, Idle
  <2>5. CASE Block(m, c)
    <3>1. cache[m][call[c].name] # None
      BY <2>5 DEF Block, TypeOK, Idle
    <3>2. call' = [call EXCEPT ![c].phase = "taken"] /\ call[c].kind = "wait"
      BY <2>5, <3>1 DEF Block, Take
    <3> QED BY <2>1, <2>2, <2>5, <3>1, <3>2 DEF Block, Remembered
  <2> QED BY <1>1, <2>3, <2>4, <2>5 DEF Serve
<1>2. CASE call'[c] = call[c]
  <2>1. call[c].phase = "taken" /\ call[c].mgr \in Managers
    BY <1>2, CallType
  <2>2. PICK m \in Managers : m = call[c].mgr
    BY <2>1
  <2>3. Remembered(m, c)
    BY <2>1, <2>2 DEF NobodyForgotten, Remembered
  <2> SUFFICES Remembered(m, c)'
    BY <1>2, <2>2
  <2>4. CASE Aside(m)
    BY <1>2, <2>3, <2>4 DEF Aside, Remembered
  <2>5. ASSUME Ends(m) PROVE FALSE
    <3>1. call'[c] = Idle
      BY <2>2, <2>5 DEF Ends, At
    <3> QED BY <3>1 DEF Idle
  <2>6. CASE EndTurn(m, job[m].who) /\ cache' = cache /\ loop[m] # "select"
    <3>1. call'[c] # Idle /\ At(m, c)
      BY <2>2 DEF Idle, At
    <3>2. c # job[m].who /\ ~Released(m, c)
      BY <2>1, <2>6, <3>1 DEF EndTurn
    <3>3. call[c].kind = "wait" /\ cache[m][call[c].name] # None
      BY <2>1, <2>3, <3>1, <3>2 DEF Remembered, Released
    <3>4. loop'[m] = "select"
      BY <2>6 DEF EndTurn, TypeOK
    <3> QED BY <1>2, <2>6, <3>3, <3>4 DEF Remembered
  <2>7. CASE Work(m)
    <3>1. ASSUME loop'[m] \notin {"select", "dead"}, job'[m].who = job[m].who
          PROVE  Remembered(m, c)'
      BY <1>2, <2>3, <3>1 DEF Remembered
    <3> QED BY <2>5, <2>6, <2>7, <3>1, AloneWork
  <2>8. CASE Tick(m)
    <3>1. loop'[m] = "ticked" /\ job' = job
      BY <2>8 DEF Tick, Go, TypeOK
    <3> QED BY <1>2, <2>3, <3>1 DEF Remembered
  <2>9. CASE ErrDying(m) \/ Fail(m)
    BY <2>5, <2>9 DEF ErrDying, Fail
  <2>10. CASE Restart(m)
    BY <2>3, <2>10 DEF Restart, Remembered
  <2>11. ASSUME NEW d \in Callers, TakeClaim(m, d) \/ CheckRefresh(m, d)
         PROVE  Remembered(m, c)'
    <3>1. loop[m] = "select" /\ loop'[m] \in {"claim", "checked"}
      BY <2>11 DEF TakeClaim, CheckRefresh, Take, Go, TypeOK
    <3>2. job[m].who = None
      BY <3>1 DEF Inv, JobsSound
    <3>3. call[c].kind = "wait"
      BY <2>3, <3>2, NoneAssumption DEF Remembered
    <3> QED BY <1>2, <3>1, <3>3 DEF Remembered
  <2> QED BY <2>4, <2>7, <2>8, <2>9, <2>10, <2>11, OwnOrAside
<1> QED BY <1>1, <1>2, TakenBefore

(* While m's operation runs, no lease ceases to be due for m.              *)
LEMMA DueStays ==
  ASSUME TypeOK, Step, NEW m \in Managers, loop[m] = "run", loop'[m] = "run"
  PROVE  due[m] \subseteq due'[m]
<1> USE DEF work, client
<1>a. ASSUME NEW n \in Managers, NEW s, due' = [due EXCEPT ![n] = s], n # m
      PROVE  due'[m] = due[m]
  BY <1>a DEF TypeOK
<1>b. ASSUME NEW n \in Managers, loop[n] # "run", Refresh(n) PROVE due[m] \subseteq due'[m]
  BY <1>b DEF Refresh, TypeOK
<1>1. ASSUME NEW n \in Managers, TxnCommits(n) PROVE due[m] \subseteq due'[m]
  <2>1. n # m
    BY <1>1 DEF TxnCommits, Succeeded, Go, TypeOK
  <2> QED BY <1>1, <2>1 DEF TxnCommits, TypeOK
<1>2. ASSUME NEW n \in Managers, Work(n) PROVE due[m] \subseteq due'[m]
  <2>1. CASE Retry(n)
    BY <1>b, <2>1 DEF Retry
  <2>2. CASE NoExtension(n) \/ TxnAborts(n) \/ Build(n)
    BY <2>2 DEF NoExtension, TxnAborts, Build
  <2>3. CASE ClaimOrExtend(n) \/ Deny(n) \/ Grant(n) \/ CheckAnswer(n)
    BY <2>3 DEF ClaimOrExtend, Request, Deny, Grant, CheckAnswer
  <2>4. CASE BeginExpiry(n) \/ EndTick(n) \/ \E x \in Names : ExpireLease(n, x)
    BY <2>4 DEF BeginExpiry, EndTick, ExpireLease
  <2> QED BY <1>1, <1>2, <2>1, <2>2, <2>3, <2>4 DEF Work
<1>3. ASSUME NEW n \in Managers, Tick(n) \/ Restart(n) \/ \E c \in Callers : CheckRefresh(n, c)
      PROVE  due[m] \subseteq due'[m]
  BY <1>b, <1>3 DEF Tick, Restart, CheckRefresh, Take
<1>4. ASSUME NEW n \in Managers,
             \/ Kill(n) \/ ErrDying(n) \/ Fail(n)
             \/ \E c \in Callers : TakeClaim(n, c) \/ CheckHeld(n, c) \/ Block(n, c)
      PROVE  due[m] \subseteq due'[m]
  BY <1>4 DEF Kill, ErrDying, Fail, TakeClaim, CheckHeld, Block
<1>5. ASSUME NEW n \in Managers, NEW x \in Names, FallsDue(n, x)
      PROVE  due[m] \subseteq due'[m]
  BY <1>5 DEF FallsDue, TypeOK
<1>6. ASSUME NEW x \in Names, TimeIsUp(x) PROVE due[m] \subseteq due'[m]
  BY <1>6 DEF TimeIsUp
<1>7. ASSUME NEW d \in Callers, Stopped(d) \/ \E r \in Requests[d] : Call(d, r)
      PROVE  due[m] \subseteq due'[m]
  BY <1>7 DEF Stopped, Call
<1> QED BY <1>2, <1>3, <1>4, <1>5, <1>6, <1>7 DEF Step, Serve

(* The operation is chosen by the snapshot, and nothing changes the        *)
(* snapshot of a loop whose operation runs.                                *)
LEMMA OpsChosenStep == ASSUME Inv, OpsChosen, Step PROVE OpsChosen'
<1> SUFFICES ASSUME NEW m \in Managers, loop'[m] = "run" PROVE OpChosen(m)'
  BY DEF OpsChosen, OpChosen
<1> TypeOK
  BY DEF Inv
<1> USE DEF work, client
<1>a. ASSUME NEW place, Go(m, place) PROVE loop'[m] = place
  BY <1>a DEF Go, TypeOK
<1>b. ASSUME NEW w, EndTurn(m, w) \/ Ends(m) PROVE FALSE
  BY <1>b DEF EndTurn, Ends, TypeOK
<1>1. CASE Aside(m)
  <2>1. loop[m] = "run" /\ OpChosen(m) /\ due[m] \subseteq due'[m]
    BY <1>1, DueStays DEF Aside, OpsChosen
  <2> QED BY <1>1, <2>1 DEF Aside, OpChosen, Target
<1>2. CASE ClaimOrExtend(m)
  BY <1>2 DEF ClaimOrExtend, Request, OpChosen, Target, TypeOK
<1>3. CASE Build(m)
  <2>1. ~Invalid(m)
    BY <1>3, <1>a DEF Build
  <2> QED BY <1>3, <2>1 DEF Build, Invalid, OpChosen, Target
<1>4. ASSUME \/ TxnCommits(m) \/ NoExtension(m) \/ Retry(m) \/ BeginExpiry(m)
             \/ (\E x \in Names : ExpireLease(m, x)) \/ TxnAborts(m)
      PROVE  FALSE
  BY <1>4, <1>a, <1>b DEF TxnCommits, NoExtension, Succeeded, Retry, BeginExpiry, ExpireLease, TxnAborts
<1>5. ASSUME \/ Deny(m) \/ Grant(m) \/ CheckAnswer(m) \/ EndTick(m) \/ ErrDying(m) \/ Fail(m)
      PROVE  FALSE
  BY <1>5, <1>b DEF Deny, Grant, CheckAnswer, EndTick, ErrDying, Fail
<1>6. ASSUME \/ Tick(m) \/ Restart(m)
             \/ \E c \in Callers : TakeClaim(m, c) \/ CheckRefresh(m, c)
      PROVE  FALSE
  BY <1>6, <1>a DEF Tick, Restart, TakeClaim, CheckRefresh
<1> QED BY <1>1, <1>2, <1>3, <1>4, <1>5, <1>6, OwnOrAside DEF Work

(* A loop that is about to grant a claim has the claimant in its snapshot. *)
Granting(m) == loop[m] = "granted" => cache[m][Target(m)] = job[m].holder
Grantings == \A m \in Managers : Granting(m)

LEMMA GrantingsStep == ASSUME Inv, OpsChosen, Grantings, Step PROVE Grantings'
<1> SUFFICES ASSUME NEW m \in Managers, loop'[m] = "granted" PROVE Granting(m)'
  BY DEF Grantings, Granting
<1> TypeOK
  BY DEF Inv
<1> USE DEF work, client
<1>a. ASSUME NEW place, Go(m, place) PROVE loop'[m] = place
  BY <1>a DEF Go, TypeOK
<1>b. ASSUME NEW w, EndTurn(m, w) \/ Ends(m) PROVE FALSE
  BY <1>b DEF EndTurn, Ends, TypeOK
<1>1. CASE Aside(m)
  BY <1>1 DEF Aside, Grantings, Granting, Target
<1>2. CASE TxnCommits(m)
  <2> DEFINE x == Target(m)
  <2>1. /\ loop[m] = "run" /\ x \in fresh[m] /\ Write(m) /\ job' = job
        /\ cache' = [cache EXCEPT ![m][x] = holder'[x]]
    BY <1>2 DEF TxnCommits
  <2>2. op[m] # "expire"
    BY <1>2, <1>a DEF TxnCommits, Succeeded
  <2>3. OpChosen(m) /\ x \in Names /\ cache[m][x] = holder[x]
    BY <2>1 DEF OpsChosen, Inv, SnapshotSound, TypeOK
  <2>4. holder'[x] = job[m].holder
    <3>1. CASE op[m] = "claim" /\ Claim(x, job[m].holder)
      BY <2>3, <3>1 DEF Claim, TypeOK
    <3>2. CASE op[m] = "extend" /\ Extend(x)
      BY <2>1, <2>3, <3>2 DEF Extend, OpChosen
    <3> QED BY <2>1, <2>2, <3>1, <3>2 DEF Write
  <2>5. cache'[m][x] = holder'[x]
    BY <2>1, <2>3 DEF TypeOK
  <2> QED BY <2>1, <2>4, <2>5 DEF Granting, Target
<1>3. CASE NoExtension(m)
  <2>1. OpChosen(m) /\ loop[m] = "run" /\ op[m] = "extend"
    BY <1>3 DEF NoExtension, OpsChosen
  <2> QED BY <1>3, <2>1 DEF NoExtension, OpChosen, Granting, Target
<1>4. ASSUME \/ Retry(m) \/ BeginExpiry(m) \/ Build(m) \/ ClaimOrExtend(m)
             \/ (\E x \in Names : ExpireLease(m, x)) \/ TxnAborts(m)
      PROVE  FALSE
  BY <1>4, <1>a, <1>b DEF Retry, BeginExpiry, Build, ClaimOrExtend, Request, ExpireLease, TxnAborts
<1>5. ASSUME \/ Deny(m) \/ Grant(m) \/ CheckAnswer(m) \/ EndTick(m) \/ ErrDying(m) \/ Fail(m)
      PROVE  FALSE
  BY <1>5, <1>b DEF Deny, Grant, CheckAnswer, EndTick, ErrDying, Fail
<1>6. ASSUME \/ Tick(m) \/ Restart(m)
             \/ \E c \in Callers : TakeClaim(m, c) \/ CheckRefresh(m, c)
      PROVE  FALSE
  BY <1>6, <1>a DEF Tick, Restart, TakeClaim, CheckRefresh
<1> QED BY <1>1, <1>2, <1>3, <1>4, <1>5, <1>6, OwnOrAside DEF Work

(* The second layer, on top of Inv.                                        *)
Attentive == ExpiresAlone /\ NobodyForgotten /\ OpsChosen /\ Grantings

LEMMA AlwaysAttentive == Spec => [](Inv /\ Attentive)
<1>1. Init => Attentive
  BY DEF Init, NoLeases, Attentive, ExpiresAlone, NobodyForgotten, OpsChosen, OpChosen, Grantings,
         Granting, Idle
<1>2. ASSUME Inv, Attentive, [Next]_vars PROVE Attentive'
  <2>1. CASE Next
    BY <1>2, <2>1, ExpiresAloneStep, RememberedStep, OpsChosenStep, GrantingsStep DEF Attentive, Next
  <2>2. CASE UNCHANGED vars
    BY <1>2, <2>2 DEF vars, system, client, work, Attentive, ExpiresAlone, NobodyForgotten,
                      OpsChosen, OpChosen, Grantings, Granting, Target
  <2> QED BY <1>2, <2>1, <2>2
<1> QED BY <1>1, <1>2, Invariance, PTL DEF Spec

(* NobodyForgotten: a call that a manager has received is in its loop, its *)
(* blocks or answered; a loop that has ended leaves nobody behind.         *)
THEOREM NobodyIsForgotten == Spec => []NobodyForgotten
<1>1. Attentive => NobodyForgotten
  BY DEF Attentive
<1> QED BY <1>1, AlwaysAttentive, PTL

(* What the loop asks of its client is always a step that Leases allows if *)
(* the snapshot has not been overtaken: a claim of a vacant lease, an      *)
(* extension of the claimant's own, the expiry of one that is over.  Thus  *)
(* the guards of Leases never hold up a transaction of the managers.       *)
OpFitsLease ==
  \A m \in Managers : loop[m] = "run" /\ Target(m) \in fresh[m] =>
    \/ op[m] = "claim"  /\ Vacant(Target(m)) /\ job[m].holder \in Holders
    \/ op[m] = "extend" /\ holder[Target(m)] = job[m].holder /\ job[m].holder \in Holders
    \/ op[m] = "expire" /\ Target(m) \in lapsed

(* OpFitsLease: whatever a manager's client is asked to do is what Leases  *)
(* allows, unless another manager has written the lease in the meantime.   *)
THEOREM OpsFitLeases == Spec => []OpFitsLease
<1>1. ASSUME Inv, Attentive PROVE OpFitsLease
  <2> SUFFICES ASSUME NEW m \in Managers, loop[m] = "run", Target(m) \in fresh[m]
               PROVE  \/ op[m] = "claim"  /\ Vacant(Target(m)) /\ job[m].holder \in Holders
                      \/ op[m] = "extend" /\ holder[Target(m)] = job[m].holder
                         /\ job[m].holder \in Holders
                      \/ op[m] = "expire" /\ Target(m) \in lapsed
    BY DEF OpFitsLease
  <2>1. OpChosen(m)
    BY <1>1 DEF Attentive, OpsChosen
  <2>2. /\ cache[m][Target(m)] = holder[Target(m)]
        /\ Target(m) \in due[m] => Target(m) \in lapsed
    BY <1>1 DEF Inv, SnapshotSound
  <2>3. op[m] = "expire" \/ (op[m] \in {"claim", "extend"} /\ job[m].holder \in Holders)
    BY <1>1 DEF Inv, JobsSound
  <2> QED BY <2>1, <2>2, <2>3 DEF OpChosen, Vacant
<1> QED BY <1>1, AlwaysAttentive, PTL

(* ClaimSound: a claim is granted or denied as the lease is, unless the    *)
(* snapshot was overtaken.                                                 *)
THEOREM ClaimsSound == Spec => ClaimSound
<1> DEFINE A == \A m \in Managers : Target(m) \in fresh[m] =>
                  /\ Grant(m) => holder[Target(m)] = job[m].holder
                  /\ Deny(m)  => holder[Target(m)] \notin {None, job[m].holder}
<1>1. ASSUME Inv, Attentive PROVE A
  <2> SUFFICES ASSUME NEW m \in Managers, Target(m) \in fresh[m]
               PROVE  /\ Grant(m) => holder[Target(m)] = job[m].holder
                      /\ Deny(m)  => holder[Target(m)] \notin {None, job[m].holder}
    OBVIOUS
  <2>1. cache[m][Target(m)] = holder[Target(m)] /\ Granting(m)
    BY <1>1 DEF Inv, SnapshotSound, Attentive, Grantings
  <2> QED BY <2>1 DEF Grant, Deny, Granting
<1>2. Inv /\ Attentive => [A]_vars
  BY <1>1
<1>3. Spec => [][A]_vars
  BY <1>2, AlwaysAttentive, PTL
<1> QED BY <1>3 DEF ClaimSound
=============================================================================
