------------------------ MODULE LeaderElectionProofs ------------------------
(***************************************************************************)
(* At most one leader, for any number of candidates and of faults, and for *)
(* any periods with RenewDeadline + 3 * Latency + Second <= LeaseDuration. *)
(*                                                                         *)
(* The argument compares two clocks.  Bound(c) is the longest time since   *)
(* the record of a leader came to be what it is, as its own clocks show    *)
(* it: its last renewal may have left it as it was for almost a second     *)
(* (Observed).  No other candidate has observed that record for longer     *)
(* (Patience), and Bound(c) never reaches LeaseDuration.  An Update that   *)
(* would replace the record needs an observation that is older than that   *)
(* (Grounds).                                                              *)
(***************************************************************************)
EXTENDS LeaderElection, TLAPS

Bound(c) ==
  (Second - 1) + Latency + clock[c]
    + (IF clock[c] = RenewDeadline THEN spent[c] ELSE 0) + (IF last[c] THEN Latency ELSE 0)

(* Where a leader is in Poll.                                              *)
Polls ==
  \A c \in Candidates :
    /\ last[c] => Leading(c) /\ Busy(c) /\ clock[c] = RenewDeadline
    /\ Leading(c) /\ ~Busy(c) => clock[c] < RenewDeadline
    /\ mode[c] = "ended" => ~Busy(c)

(* Whoever leads, or is about to hear that it does, holds the record, and  *)
(* nobody else has observed that record for long.                          *)
Patience ==
  \A c \in Candidates :
    /\ Leading(c) => /\ holder = c
                     /\ \A d \in Candidates \ {c} : known[d] => age[d] <= Bound(c)
    /\ step[c] = "ack" => /\ holder = c /\ current[c] /\ ~late[c]
                          /\ \A d \in Candidates \ {c} : known[d] => age[d] <= spent[c] + (Second - 1)

(* Nobody can have observed a record before it was written, and that was   *)
(* after its RenewTime.                                                    *)
Observed == \A d \in Candidates : known[d] => age[d] <= stamp \/ stamp = StampCap

(* What Get returned, as long as the record has not changed since.         *)
Answers ==
  \A c \in Candidates :
    /\ current[c] /\ step[c] \in {"got", "put"} => seen[c] = holder
    /\ current[c] /\ step[c] = "got" => (same[c] <=> known[c])

(* An Update that may replace the record of another candidate, and one     *)
(* that was abandoned.                                                     *)
Grounds ==
  \A c \in Candidates :
    /\ step[c] = "put" /\ current[c] /\ seen[c] \notin {None, c} =>
         known[c] /\ age[c] >= LeaseDuration + spent[c]
    /\ late[c] => \A d \in Candidates \ {c} : ~Leading(d) /\ step[d] # "ack"

Inv == TypeOK /\ Polls /\ Patience /\ Observed /\ Answers /\ Grounds

USE NoneAssumption, PeriodsAssumption, LatencyAssumption, FaultsAssumption

-----------------------------------------------------------------------------
(* A leader's bound stays below LeaseDuration.                             *)
LEMMA BoundBelowLease ==
  ASSUME TypeOK, NEW c \in Candidates
  PROVE  /\ Bound(c) \in Nat /\ Bound(c) < LeaseDuration
         /\ spent[c] + (Second - 1) < LeaseDuration /\ spent[c] \in Nat
<1>1. clock[c] \in 0..RenewDeadline /\ spent[c] \in 0..Latency BY DEF TypeOK
<1> QED BY <1>1 DEF Bound

(* An Update that the server will accept replaces neither the record of a  *)
(* leader nor one whose writer is about to lead.                           *)
LEMMA NobodyIsDeposed ==
  ASSUME Inv, NEW c \in Candidates, step[c] = "put", current[c]
  PROVE  \A d \in Candidates \ {c} : ~Leading(d) /\ step[d] # "ack"
<1> SUFFICES ASSUME NEW d \in Candidates \ {c}, Leading(d) \/ step[d] = "ack" PROVE FALSE
  OBVIOUS
<1>1. holder = d BY DEF Inv, Patience
<1>2. seen[c] = d BY <1>1 DEF Inv, Answers
<1>3. known[c] /\ age[c] >= LeaseDuration + spent[c] BY <1>2 DEF Inv, Grounds
<1>4. /\ Bound(d) \in Nat /\ Bound(d) < LeaseDuration /\ spent[d] \in Nat
      /\ spent[d] + (Second - 1) < LeaseDuration /\ spent[c] \in Nat /\ age[c] \in Nat
  BY BoundBelowLease DEF Inv, TypeOK, AgeCap
<1>5. age[c] <= Bound(d) \/ age[c] <= spent[d] + (Second - 1) BY <1>3 DEF Inv, Patience
<1> QED BY <1>3, <1>4, <1>5

-----------------------------------------------------------------------------
(* Nobody leads at first.                                                  *)
LEMMA InitInv == Init => Inv
<1> SUFFICES ASSUME Init PROVE Inv OBVIOUS
<1> USE DEF Init
<1>1. TypeOK BY DEF TypeOK, AgeCap, StampCap
<1>6. Observed BY DEF Observed
<1>2. Polls BY DEF Polls, Leading, Busy
<1>3. Patience BY DEF Patience, Leading
<1>4. Answers BY DEF Answers
<1>5. Grounds BY DEF Grounds
<1> QED BY <1>1, <1>2, <1>3, <1>4, <1>5, <1>6 DEF Inv

(* Time: an observation grows older no faster than a leader's bound.       *)
LEMMA TickInv == ASSUME Inv, Tick PROVE Inv'
<1>1. TypeOK' 
  <2>1. last' \in [Candidates -> BOOLEAN] BY DEF Tick, Inv, TypeOK
  <2>2. spent' \in [Candidates -> 0..Latency] BY DEF Tick, Inv, TypeOK, Busy
  <2>3. clock' \in [Candidates -> 0..RenewDeadline] BY DEF Tick, Inv, TypeOK, Advanced
  <2>4. age' \in [Candidates -> 0..AgeCap] BY DEF Tick, Inv, TypeOK, Advanced, AgeCap
  <2>5. step' \in [Candidates -> {"idle", "get", "got", "put", "ack"}] BY DEF Tick, Inv, TypeOK
  <2>6. stamp' \in 0..StampCap BY DEF Tick, Inv, TypeOK, Advanced, StampCap
  <2> QED BY <2>1, <2>2, <2>3, <2>4, <2>5, <2>6 DEF Tick, Inv, TypeOK, answers
<1>2. ASSUME NEW c \in Candidates
      PROVE  /\ age'[c] <= age[c] + 1 /\ age'[c] \in Nat /\ age[c] \in Nat
             /\ age'[c] >= age[c]
             /\ age[c] < AgeCap => age'[c] = age[c] + 1
             /\ Busy(c) => /\ step'[c] = step[c] /\ spent'[c] = spent[c] + 1 /\ spent[c] < Latency
                           /\ last'[c] = last[c]
             /\ ~Busy(c) => spent'[c] = 0 /\ step'[c] \in {"idle", "get"}
             /\ mode'[c] = mode[c] /\ known'[c] = known[c] /\ late'[c] = late[c]
             /\ seen'[c] = seen[c] /\ same'[c] = same[c] /\ current'[c] = current[c]
             /\ spent[c] \in Nat /\ clock[c] \in 0..RenewDeadline
             /\ mode[c] # "ended" =>
                  clock'[c] = IF clock[c] < RenewDeadline THEN clock[c] + 1 ELSE clock[c]
             /\ ~Busy(c) /\ step'[c] = "get" => Rings(c) \/ Closes(c)
             /\ Rings(c) \/ Closes(c) => step'[c] = "get"
             /\ ~Closes(c) => last'[c] = last[c]
  BY DEF Tick, Inv, TypeOK, Advanced, AgeCap, Busy, server, answers, Rings, Closes
<1>3. holder' = holder BY DEF Tick, server
<1>4. Polls'
  BY <1>2 DEF Inv, Polls, Leading, Busy, Rings, Closes
<1>5. Patience'
  <2>1. ASSUME NEW c \in Candidates, Leading(c), NEW d \in Candidates \ {c}, known[d]
        PROVE  age'[d] <= Bound(c)'
    <3>1. age[d] <= Bound(c) BY <2>1 DEF Inv, Patience
    <3>2. Bound(c)' >= Bound(c) + 1
      <4>1. CASE Busy(c) BY <1>2, <2>1, <4>1 DEF Bound, Leading
      <4>2. CASE ~Busy(c)
        <5>1. clock[c] < RenewDeadline /\ ~last[c] BY <2>1, <4>2 DEF Inv, Polls
        <5> QED BY <1>2, <2>1, <4>2, <5>1 DEF Bound, Leading
      <4> QED BY <4>1, <4>2
    <3>3. Bound(c) \in Nat /\ Bound(c)' \in Nat
      BY <1>1, BoundBelowLease DEF Inv, Bound, TypeOK
    <3> QED BY <1>2, <3>1, <3>2, <3>3
  <2>2. ASSUME NEW c \in Candidates, step'[c] = "ack", NEW d \in Candidates \ {c}, known[d]
        PROVE  age'[d] <= spent'[c] + (Second - 1)
    <3>1. Busy(c) /\ step[c] = "ack" BY <1>2, <2>2 DEF Busy
    <3> QED BY <1>2, <2>2, <3>1 DEF Inv, Patience
  <2>3. ASSUME NEW c \in Candidates, step'[c] = "ack" PROVE step[c] = "ack"
    BY <1>2, <2>3 DEF Busy
  <2> QED BY <1>2, <1>3, <2>1, <2>2, <2>3 DEF Inv, Patience, Leading
<1>6. Answers'
  BY <1>2, <1>3 DEF Inv, Answers, Busy
<1>7. Grounds'
  <2>1. ASSUME NEW c \in Candidates, step'[c] = "put", current[c], seen[c] \notin {None, c}
        PROVE  known[c] /\ age'[c] >= LeaseDuration + spent'[c]
    <3>1. Busy(c) /\ step[c] = "put" BY <1>2, <2>1 DEF Busy
    <3>2. known[c] /\ age[c] >= LeaseDuration + spent[c] BY <2>1, <3>1 DEF Inv, Grounds
    <3>3. CASE age[c] < AgeCap BY <1>2, <3>1, <3>2, <3>3
    <3>4. CASE age[c] >= AgeCap BY <1>2, <3>1, <3>2, <3>4 DEF AgeCap
    <3> QED BY <1>2, <3>2, <3>3, <3>4 DEF AgeCap
  <2>2. ASSUME NEW c \in Candidates, step'[c] = "ack" PROVE step[c] = "ack"
    BY <1>2, <2>2 DEF Busy
  <2> QED BY <1>2, <2>1, <2>2 DEF Inv, Grounds, Leading
<1>8. Observed'
  <2>1. stamp \in 0..StampCap /\ StampCap \in Nat BY DEF Inv, TypeOK, StampCap
  <2>2. stamp' = IF stamp < StampCap THEN stamp + 1 ELSE stamp BY DEF Tick, Advanced
  <2> QED BY <1>2, <2>1, <2>2 DEF Inv, Observed
<1> QED BY <1>1, <1>4, <1>5, <1>6, <1>7, <1>8 DEF Inv

(* What the end of an attempt that fails leaves behind.                    *)
LEMMA FailedKeeps ==
  ASSUME Inv, NEW c \in Candidates, Busy(c), Failed(c)
  PROVE  /\ mode' \in [Candidates -> {"acquire", "lead", "ended"}]
         /\ step' \in [Candidates -> {"idle", "get", "got", "put", "ack"}]
         /\ last' \in [Candidates -> BOOLEAN]
         /\ clock' \in [Candidates -> 0..RenewDeadline] /\ spent' \in [Candidates -> 0..Latency]
         /\ Polls' /\ step'[c] \in {"idle", "get"}
         /\ \A d \in Candidates : Leading(d)' => Leading(d) /\ Bound(d)' >= Bound(d)
         /\ \A d \in Candidates \ {c} : /\ step'[d] = step[d] /\ spent'[d] = spent[d]
                                        /\ mode'[d] = mode[d]
<1>1. /\ mode[c] \in {"acquire", "lead", "ended"} /\ last[c] \in BOOLEAN
      /\ clock[c] \in 0..RenewDeadline /\ spent[c] \in 0..Latency
      /\ last[c] => Leading(c)
  BY DEF Inv, TypeOK, Polls
<1>2. /\ mode' = [mode EXCEPT ![c] = IF last[c] THEN "ended" ELSE mode[c]]
      /\ step' = [step EXCEPT ![c] = IF Again(c) THEN "get" ELSE "idle"]
      /\ clock' = [clock EXCEPT ![c] = IF Leading(c) /\ ~last[c] THEN clock[c] ELSE 0]
      /\ spent' = [spent EXCEPT ![c] = 0]
      /\ last' = [last EXCEPT ![c] = Again(c)]
  BY DEF Failed
<1>3. Again(c) <=> Leading(c) /\ ~last[c] /\ clock[c] = RenewDeadline BY DEF Again
<1>4. Again(c) \in BOOLEAN BY Zenon DEF Again
<1>5. /\ mode' \in [Candidates -> {"acquire", "lead", "ended"}]
      /\ step' \in [Candidates -> {"idle", "get", "got", "put", "ack"}]
      /\ last' \in [Candidates -> BOOLEAN]
      /\ clock' \in [Candidates -> 0..RenewDeadline] /\ spent' \in [Candidates -> 0..Latency]
  BY <1>1, <1>2, <1>4 DEF Inv, TypeOK
<1>6. /\ mode'[c] = (IF last[c] THEN "ended" ELSE mode[c])
      /\ step'[c] = (IF Again(c) THEN "get" ELSE "idle")
      /\ clock'[c] = (IF Leading(c) /\ ~last[c] THEN clock[c] ELSE 0)
      /\ spent'[c] = 0 /\ (last'[c] <=> Again(c))
      /\ \A d \in Candidates \ {c} : /\ step'[d] = step[d] /\ spent'[d] = spent[d]
                                     /\ mode'[d] = mode[d] /\ clock'[d] = clock[d]
                                     /\ last'[d] = last[d]
  BY <1>2, <1>4 DEF Inv, TypeOK
<1>7. Polls' BY <1>1, <1>3, <1>6 DEF Inv, Polls, Leading, Busy
<1>8. ASSUME NEW d \in Candidates, Leading(d)' PROVE Leading(d) /\ Bound(d)' >= Bound(d)
  <2>1. CASE d = c
    <3>1. ~last[c] /\ Leading(c) BY <1>6, <1>8, <2>1 DEF Leading
    <3> QED BY <1>1, <1>3, <1>6, <2>1, <3>1 DEF Bound
  <2>2. CASE d # c
    <3>1. Bound(d)' = Bound(d) /\ Bound(d) \in Nat
      BY <1>6, <2>2, BoundBelowLease DEF Bound, Inv
    <3> QED BY <1>6, <1>8, <2>2, <3>1 DEF Leading
  <2> QED BY <2>1, <2>2
<1> QED BY <1>5, <1>6, <1>7, <1>8

(* An attempt that fails on its way changes nothing for the others.        *)
LEMMA FailedInv ==
  ASSUME Inv, NEW c \in Candidates, Busy(c), Failed(c),
         UNCHANGED <<holder, stamp, answers>>,
         faults' \in 0..MaxFaults,
         late' = [late EXCEPT ![c] = late[c] \/ (step[c] = "put" /\ current[c])] \/ late' = late,
         \/ UNCHANGED <<known, age>>
         \/ known' = [known EXCEPT ![c] = equal[c]] /\ age' = [age EXCEPT ![c] = 0]
  PROVE  Inv'
<1>1. /\ mode' \in [Candidates -> {"acquire", "lead", "ended"}]
      /\ step' \in [Candidates -> {"idle", "get", "got", "put", "ack"}]
      /\ last' \in [Candidates -> BOOLEAN]
      /\ clock' \in [Candidates -> 0..RenewDeadline] /\ spent' \in [Candidates -> 0..Latency]
      /\ Polls' /\ step'[c] \in {"idle", "get"}
      /\ \A d \in Candidates : Leading(d)' => Leading(d) /\ Bound(d)' >= Bound(d)
      /\ \A d \in Candidates \ {c} : /\ step'[d] = step[d] /\ spent'[d] = spent[d]
                                     /\ mode'[d] = mode[d]
  BY FailedKeeps
<1>2. /\ known' \in [Candidates -> BOOLEAN] /\ age' \in [Candidates -> 0..AgeCap]
      /\ \A d \in Candidates \ {c} : known'[d] = known[d] /\ age'[d] = age[d]
      /\ age'[c] = 0 \/ (age'[c] = age[c] /\ known'[c] = known[c])
  BY DEF Inv, TypeOK, AgeCap
<1>3. /\ late' \in [Candidates -> BOOLEAN]
      /\ \A d \in Candidates \ {c} : late'[d] = late[d]
      /\ late'[c] => late[c] \/ (step[c] = "put" /\ current[c])
  BY DEF Inv, TypeOK
<1>4. /\ holder' = holder /\ seen' = seen /\ same' = same /\ current' = current
      /\ stamp' = stamp /\ equal' = equal
  BY DEF answers
<1>5. TypeOK' BY <1>1, <1>2, <1>3, <1>4 DEF Inv, TypeOK
<1>6. Patience'
  <2>1. ASSUME NEW d \in Candidates, Leading(d)', NEW e \in Candidates \ {d}, known'[e]
        PROVE  age'[e] <= Bound(d)'
    <3>1. /\ Leading(d) /\ Bound(d)' >= Bound(d) /\ Bound(d) \in Nat /\ Bound(d)' \in Nat
          /\ age[e] \in Nat
      BY <1>1, <1>5, <2>1, BoundBelowLease DEF Inv, TypeOK, AgeCap, Bound
    <3>2. CASE age'[e] = 0 BY <3>1, <3>2
    <3>3. CASE age'[e] = age[e] /\ known'[e] = known[e]
      BY <2>1, <3>1, <3>3 DEF Inv, Patience
    <3> QED BY <1>2, <3>2, <3>3
  <2>2. ASSUME NEW d \in Candidates, step'[d] = "ack"
        PROVE  /\ holder' = d /\ current'[d] /\ ~late'[d]
               /\ \A e \in Candidates \ {d} : known'[e] => age'[e] <= spent'[d] + (Second - 1)
    <3>1. d # c /\ step[d] = "ack" /\ spent'[d] = spent[d] /\ spent[d] \in Nat
      BY <1>1, <2>2 DEF Inv, TypeOK
    <3>2. ASSUME NEW e \in Candidates \ {d}, known'[e] PROVE age'[e] <= spent[d] + (Second - 1)
      BY <1>2, <3>1, <3>2 DEF Inv, Patience
    <3> QED BY <1>3, <1>4, <3>1, <3>2 DEF Inv, Patience
  <2> QED BY <1>1, <1>4, <2>1, <2>2 DEF Inv, Patience
<1>7. Answers' BY <1>1, <1>2, <1>4 DEF Inv, Answers
<1>8. Grounds'
  <2>1. ASSUME NEW d \in Candidates, step'[d] = "put", current'[d], seen'[d] \notin {None, d}
        PROVE  known'[d] /\ age'[d] >= LeaseDuration + spent'[d]
    <3>1. d # c BY <1>1, <2>1
    <3> QED BY <1>1, <1>2, <1>4, <2>1, <3>1 DEF Inv, Grounds
  <2>2. ASSUME NEW d \in Candidates, late'[d], NEW e \in Candidates \ {d}
        PROVE  ~Leading(e)' /\ step'[e] # "ack"
    <3>1. late[d] \/ (d = c /\ step[c] = "put" /\ current[c]) BY <1>3, <2>2
    <3>2. ~Leading(e) /\ step[e] # "ack" BY <3>1, NobodyIsDeposed DEF Inv, Grounds
    <3> QED BY <1>1, <3>2
  <2> QED BY <2>1, <2>2 DEF Grounds
<1>9. Observed'
  <2>1. stamp \in Nat BY DEF Inv, TypeOK, StampCap
  <2> QED BY <1>2, <1>4, <2>1 DEF Inv, Observed
<1> QED BY <1>1, <1>5, <1>6, <1>7, <1>8, <1>9 DEF Inv

(* Steps of tryAcquireOrRenew in which neither the record nor a leader     *)
(* changes.                                                                *)
LEMMA WorkInv ==
  ASSUME Inv, NEW c \in Candidates, Start(c) \/ Get(c) \/ Attempt(c)
  PROVE  Inv'
<1>1. /\ holder' = holder /\ late' = late /\ mode' = mode /\ last' = last /\ clock' = clock
      /\ spent' = spent /\ faults' = faults /\ stamp' = stamp
      /\ \E place \in {"get", "got", "put"} : step' = [step EXCEPT ![c] = place]
      /\ step[c] # "ack" /\ (step[c] = "idle" => ~Leading(c) /\ mode[c] # "ended")
  BY DEF Start, Get, Attempt, Goes, server, timers, Leading, Busy
<1>2. /\ known' \in [Candidates -> BOOLEAN] /\ age' \in [Candidates -> 0..AgeCap]
      /\ \A d \in Candidates \ {c} : known'[d] = known[d] /\ age'[d] = age[d]
      /\ age'[c] = 0 \/ (age'[c] = age[c] /\ known'[c] = known[c])
  BY DEF Start, Get, Attempt, Observe, Inv, TypeOK, timers, AgeCap
<1>3. /\ seen' \in [Candidates -> Candidates \cup {None}] /\ same' \in [Candidates -> BOOLEAN]
      /\ current' \in [Candidates -> BOOLEAN] /\ equal' \in [Candidates -> BOOLEAN]
      /\ \A d \in Candidates \ {c} : /\ seen'[d] = seen[d] /\ same'[d] = same[d]
                                     /\ current'[d] = current[d]
  <2>1. /\ seen \in [Candidates -> Candidates \cup {None}] /\ same \in [Candidates -> BOOLEAN]
        /\ current \in [Candidates -> BOOLEAN] /\ known \in [Candidates -> BOOLEAN]
        /\ holder \in Candidates \cup {None} /\ equal \in [Candidates -> BOOLEAN]
    BY DEF Inv, TypeOK
  <2>2. CASE Get(c)
    <3>1. /\ seen' = [seen EXCEPT ![c] = holder] /\ same' = [same EXCEPT ![c] = known[c]]
          /\ current' = [current EXCEPT ![c] = TRUE] /\ equal' = [equal EXCEPT ![c] = TRUE]
      BY ONLY <2>2 DEF Get
    <3> QED BY ONLY <2>1, <3>1
  <2>3. CASE Start(c) \/ Attempt(c)
    <3>1. seen' = seen /\ same' = same /\ current' = current /\ equal' = equal
      BY ONLY <2>3 DEF Start, Attempt, answers
    <3> QED BY ONLY <2>1, <3>1
  <2> QED BY <2>2, <2>3
<1>4. /\ step' \in [Candidates -> {"idle", "get", "got", "put", "ack"}]
      /\ step'[c] \in {"get", "got", "put"} /\ \A d \in Candidates \ {c} : step'[d] = step[d]
  BY <1>1 DEF Inv, TypeOK
<1>5. TypeOK' BY <1>1, <1>2, <1>3, <1>4 DEF Inv, TypeOK
<1>6. Polls' BY <1>1, <1>4 DEF Inv, Polls, Leading, Busy
<1>7. Patience'
  <2>1. ASSUME NEW d \in Candidates, Leading(d)', NEW e \in Candidates \ {d}, known'[e]
        PROVE  age'[e] <= Bound(d)'
    <3>1. Leading(d) /\ Bound(d)' = Bound(d) /\ Bound(d) \in Nat
      BY <1>1, <2>1, BoundBelowLease DEF Inv, Bound, Leading
    <3> QED BY <1>2, <2>1, <3>1 DEF Inv, Patience
  <2>2. ASSUME NEW d \in Candidates, step'[d] = "ack"
        PROVE  /\ holder' = d /\ current'[d] /\ ~late'[d]
               /\ \A e \in Candidates \ {d} : known'[e] => age'[e] <= spent'[d] + (Second - 1)
    <3>1. d # c /\ step[d] = "ack" /\ spent[d] \in Nat BY <1>4, <2>2 DEF Inv, TypeOK
    <3>2. ASSUME NEW e \in Candidates \ {d}, known'[e] PROVE age'[e] <= spent[d] + (Second - 1)
      BY <1>2, <3>1, <3>2 DEF Inv, Patience
    <3> QED BY <1>1, <1>3, <3>1, <3>2 DEF Inv, Patience
  <2> QED BY <1>1, <2>1, <2>2 DEF Inv, Patience, Leading
<1>8. /\ current'[c] /\ step'[c] \in {"got", "put"} => seen'[c] = holder'
      /\ current'[c] /\ step'[c] = "got" => (same'[c] <=> known'[c])
      /\ step'[c] = "put" /\ current'[c] /\ seen'[c] \notin {None, c} =>
           known'[c] /\ age'[c] >= LeaseDuration + spent'[c]
  <2>1. CASE Start(c)
    <3>1. step'[c] = "get" BY <2>1 DEF Start, Goes, Inv, TypeOK
    <3> QED BY <3>1
  <2>2. CASE Get(c)
    <3>1. step'[c] = "got" /\ seen'[c] = holder /\ (same'[c] <=> known[c]) /\ known'[c] = known[c]
      BY <2>2 DEF Get, Goes, Inv, TypeOK
    <3> QED BY <1>1, <3>1
  <2>3. CASE Attempt(c)
    <3>1. /\ step[c] = "got" /\ step'[c] = "put" /\ ~Held(c) /\ Observe(c)
          /\ seen' = seen /\ current' = current /\ spent' = spent
      BY <2>3 DEF Attempt, Goes, Inv, TypeOK, answers
    <3>2. ASSUME current'[c] PROVE seen[c] = holder /\ (same[c] <=> known[c])
      BY <3>1, <3>2 DEF Inv, Answers
    <3>3. ASSUME current'[c], seen[c] \notin {None, c}
          PROVE  known'[c] /\ age'[c] >= LeaseDuration + spent'[c]
      <4>1. same[c] /\ ~(age[c] < LeaseDuration + spent[c]) BY <3>1, <3>3 DEF Held
      <4>2. known' = known /\ age' = age BY <3>1, <4>1 DEF Observe
      <4>3. age[c] \in Nat /\ spent[c] \in Nat BY DEF Inv, TypeOK, AgeCap
      <4> QED BY <3>1, <3>2, <3>3, <4>1, <4>2, <4>3
    <3> QED BY <1>1, <3>1, <3>2, <3>3
  <2> QED BY <2>1, <2>2, <2>3
<1>9. Answers' BY <1>1, <1>2, <1>3, <1>4, <1>8 DEF Inv, Answers
<1>10. Grounds'
  <2>1. ASSUME NEW d \in Candidates, step'[d] = "put", current'[d], seen'[d] \notin {None, d}
        PROVE  known'[d] /\ age'[d] >= LeaseDuration + spent'[d]
    BY <1>1, <1>2, <1>3, <1>4, <1>8, <2>1 DEF Inv, Grounds
  <2>2. ASSUME NEW d \in Candidates, late'[d], NEW e \in Candidates \ {d}
        PROVE  ~Leading(e)' /\ step'[e] # "ack"
    BY <1>1, <1>4, <2>2 DEF Inv, Grounds, Leading
  <2> QED BY <2>1, <2>2 DEF Grounds
<1>11. Observed'
  <2>1. stamp \in Nat BY DEF Inv, TypeOK, StampCap
  <2> QED BY <1>1, <1>2, <2>1 DEF Inv, Observed
<1> QED BY <1>5, <1>6, <1>7, <1>9, <1>10, <1>11 DEF Inv

(* A record is written, by Update or by one that was abandoned: nobody has *)
(* observed it, or the holder has left it as it was less than a second ago.*)
LEMMA RecordInv ==
  ASSUME Inv, NEW c \in Candidates, Put(c) \/ LatePut(c)
  PROVE  Inv'
<1>1. /\ holder' = c
      /\ late' = [d \in Candidates |-> FALSE]
      /\ UNCHANGED <<mode, last, clock, spent, age, seen, same, faults>>
      /\ current' \in [Candidates -> BOOLEAN]
      /\ \A d \in Candidates \ {c} : ~current'[d]
  BY DEF Put, LatePut, Record, timers
<1>9. /\ known' \in [Candidates -> BOOLEAN] /\ equal' \in [Candidates -> BOOLEAN]
      /\ stamp' \in 0..StampCap
      /\ \/ \A d \in Candidates : ~known'[d]
         \/ holder = c /\ known' = known /\ stamp' = stamp
  <2>1. /\ known \in [Candidates -> BOOLEAN] /\ equal \in [Candidates -> BOOLEAN]
        /\ stamp \in 0..StampCap /\ spent[c] \in 0..StampCap /\ 0 \in 0..StampCap
    BY DEF Inv, TypeOK, StampCap
  <2>2. CASE holder = c /\ UNCHANGED <<known, equal, stamp>> BY <2>1, <2>2
  <2>3. CASE Changed(0) \/ Changed(spent[c]) BY <2>1, <2>3 DEF Changed
  <2> QED BY <2>2, <2>3 DEF Put, LatePut, Alike
<1>10. Observed' BY <1>1, <1>9 DEF Inv, Observed
<1>11. ASSUME NEW d \in Candidates \ {c}, step'[c] = "ack", step'[c] # step[c], known'[d]
       PROVE  age'[d] <= spent'[c] + (Second - 1)
  <2>1. Put(c) BY <1>11 DEF LatePut
  <2>2. Alike(c) BY <1>11, <2>1 DEF Put, Changed
  <2>3. stamp < Second + spent[c] /\ known[d] BY <1>11, <2>2 DEF Alike
  <2>4. /\ stamp \in Nat /\ spent[c] \in 0..Latency /\ age[d] \in Nat
        /\ StampCap = Second + Latency
    BY DEF Inv, TypeOK, StampCap, AgeCap
  <2>5. age[d] <= stamp BY <2>3, <2>4 DEF Inv, Observed
  <2> QED BY <1>1, <2>3, <2>4, <2>5
<1>2. \A d \in Candidates \ {c} : ~Leading(d) /\ step[d] # "ack"
  BY NobodyIsDeposed DEF Put, LatePut, Inv, Grounds
<1>3. /\ step' \in [Candidates -> {"idle", "get", "got", "put", "ack"}]
      /\ \A d \in Candidates \ {c} : step'[d] = step[d]
      /\ step'[c] = step[c] \/ (step[c] = "put" /\ step'[c] = "ack" /\ current'[c])
      /\ step'[c] = step[c] => ~current'[c] /\ step[c] # "ack"
  <2>1. CASE Put(c)
    <3>1. /\ step[c] = "put" /\ step' = [step EXCEPT ![c] = "ack"]
          /\ current' = [d \in Candidates |-> d = c]
      BY <2>1 DEF Put, Goes
    <3> QED BY <3>1 DEF Inv, TypeOK
  <2>2. CASE LatePut(c)
    <3>1. step' = step /\ late[c] /\ current' = [d \in Candidates |-> FALSE]
      BY <2>2 DEF LatePut
    <3>2. step[c] # "ack" BY <3>1 DEF Inv, Patience
    <3> QED BY <3>1, <3>2 DEF Inv, TypeOK
  <2> QED BY <2>1, <2>2
<1>4. TypeOK' BY <1>1, <1>3, <1>9 DEF Inv, TypeOK
<1>5. Polls' BY <1>1, <1>3 DEF Inv, Polls, Leading, Busy
<1>6. Patience'
  <2>1. ASSUME Leading(c), NEW d \in Candidates \ {c}, known'[d]
        PROVE  age'[d] <= Bound(c)'
    <3>1. Bound(c)' = Bound(c) BY <1>1 DEF Bound
    <3> QED BY <1>1, <1>9, <2>1, <3>1 DEF Inv, Patience
  <2>2. /\ Leading(c)' => Leading(c)
        /\ \A d \in Candidates \ {c} : ~Leading(d)' /\ step'[d] # "ack"
    BY <1>1, <1>2, <1>3 DEF Leading
  <2>3. step'[c] = "ack" => step'[c] # step[c] /\ current'[c] BY <1>3
  <2> QED BY <1>1, <1>11, <2>1, <2>2, <2>3 DEF Patience
<1>7. Answers' BY <1>1, <1>3 DEF Answers
<1>8. Grounds' BY <1>1, <1>3 DEF Grounds
<1> QED BY <1>4, <1>5, <1>6, <1>7, <1>8, <1>10 DEF Inv

(* A candidate hears that its record was written: it leads.                *)
LEMMA AckInv ==
  ASSUME Inv, NEW c \in Candidates, Ack(c)
  PROVE  Inv'
<1>1. /\ step[c] = "ack" /\ mode' = [mode EXCEPT ![c] = "lead"]
      /\ step' = [step EXCEPT ![c] = "idle"] /\ clock' = [clock EXCEPT ![c] = 0]
      /\ spent' = [spent EXCEPT ![c] = 0] /\ last' = [last EXCEPT ![c] = FALSE]
      /\ known' = [known EXCEPT ![c] = FALSE] /\ age' = [age EXCEPT ![c] = 0]
      /\ UNCHANGED <<holder, stamp, late, seen, same, current, equal, faults>>
  BY DEF Ack, Succeed, server, answers
<1>2. /\ holder = c /\ current[c] /\ ~late[c]
      /\ \A d \in Candidates \ {c} : known[d] => age[d] <= spent[c] + (Second - 1)
  BY <1>1 DEF Inv, Patience
<1>3. \A d \in Candidates \ {c} : ~Leading(d) /\ step[d] # "ack" BY <1>2 DEF Inv, Patience
<1>4. /\ mode'[c] = "lead" /\ step'[c] = "idle" /\ clock'[c] = 0 /\ spent'[c] = 0 /\ ~last'[c]
      /\ ~known'[c] /\ spent[c] \in 0..Latency
      /\ \A d \in Candidates \ {c} :
           /\ mode'[d] = mode[d] /\ step'[d] = step[d] /\ clock'[d] = clock[d]
           /\ spent'[d] = spent[d] /\ last'[d] = last[d] /\ known'[d] = known[d]
           /\ age'[d] = age[d] /\ age[d] \in Nat
  BY <1>1 DEF Inv, TypeOK, AgeCap
<1>5. TypeOK'
  <2>1. mode' \in [Candidates -> {"acquire", "lead", "ended"}] BY <1>1 DEF Inv, TypeOK
  <2>2. step' \in [Candidates -> {"idle", "get", "got", "put", "ack"}] BY <1>1 DEF Inv, TypeOK
  <2>3. last' \in [Candidates -> BOOLEAN] /\ known' \in [Candidates -> BOOLEAN]
    BY <1>1 DEF Inv, TypeOK
  <2>4. /\ clock' \in [Candidates -> 0..RenewDeadline] /\ spent' \in [Candidates -> 0..Latency]
        /\ age' \in [Candidates -> 0..AgeCap]
    BY <1>1 DEF Inv, TypeOK, AgeCap
  <2> QED BY <1>1, <2>1, <2>2, <2>3, <2>4 DEF Inv, TypeOK
<1>6. Polls' BY <1>4 DEF Inv, Polls, Leading, Busy
<1>7. Patience'
  <2>1. Bound(c)' = (Second - 1) + Latency BY <1>4 DEF Bound
  <2>2. \A d \in Candidates \ {c} : known'[d] => age'[d] <= (Second - 1) + Latency
    BY <1>2, <1>4
  <2>3. \A d \in Candidates \ {c} : ~Leading(d)' BY <1>3, <1>4 DEF Leading
  <2>4. \A d \in Candidates : step'[d] # "ack" BY <1>3, <1>4
  <2> QED BY <1>1, <1>2, <2>1, <2>2, <2>3, <2>4 DEF Patience
<1>8. Answers' BY <1>1, <1>4 DEF Inv, Answers
<1>9. Grounds'
  <2>1. \A d \in Candidates \ {c} : ~late[d] BY <1>1 DEF Inv, Grounds
  <2> QED BY <1>1, <1>2, <1>4, <2>1 DEF Inv, Grounds
<1>10. Observed' BY <1>1, <1>4 DEF Inv, Observed
<1> QED BY <1>5, <1>6, <1>7, <1>8, <1>9, <1>10 DEF Inv

(* A process dies, perhaps with an Update under way.                       *)
LEMMA CrashInv ==
  ASSUME Inv, NEW c \in Candidates, Crash(c)
  PROVE  Inv'
<1>1. /\ mode' = [mode EXCEPT ![c] = "ended"] /\ step' = [step EXCEPT ![c] = "idle"]
      /\ last' = [last EXCEPT ![c] = FALSE]
      /\ late' = [late EXCEPT ![c] = late[c] \/ (step[c] = "put" /\ current[c])]
      /\ UNCHANGED <<holder, stamp, clock, spent, age, known, seen, same, current, equal>>
      /\ faults < MaxFaults /\ faults' = faults + 1
  BY DEF Crash, Fault, timers, answers
<1>2. /\ mode'[c] = "ended" /\ step'[c] = "idle" /\ ~last'[c]
      /\ late'[c] => late[c] \/ (step[c] = "put" /\ current[c])
      /\ \A d \in Candidates \ {c} : /\ mode'[d] = mode[d] /\ step'[d] = step[d]
                                     /\ last'[d] = last[d] /\ late'[d] = late[d]
  BY <1>1 DEF Inv, TypeOK
<1>3. TypeOK'
  <2>1. mode' \in [Candidates -> {"acquire", "lead", "ended"}] BY <1>1 DEF Inv, TypeOK
  <2>2. step' \in [Candidates -> {"idle", "get", "got", "put", "ack"}] BY <1>1 DEF Inv, TypeOK
  <2>3. last' \in [Candidates -> BOOLEAN] /\ late' \in [Candidates -> BOOLEAN]
    BY <1>1 DEF Inv, TypeOK
  <2>4. faults' \in 0..MaxFaults BY <1>1 DEF Inv, TypeOK
  <2> QED BY <1>1, <2>1, <2>2, <2>3, <2>4 DEF Inv, TypeOK
<1>4. Polls' BY <1>1, <1>2 DEF Inv, Polls, Leading, Busy
<1>5. Patience'
  <2>1. \A d \in Candidates \ {c} : Bound(d)' = Bound(d) BY <1>1, <1>2 DEF Bound
  <2>2. ~Leading(c)' /\ step'[c] # "ack" BY <1>2 DEF Leading
  <2> QED BY <1>1, <1>2, <2>1, <2>2 DEF Inv, Patience, Leading
<1>6. Answers' BY <1>1, <1>2 DEF Inv, Answers
<1>7. Grounds'
  <2>1. ASSUME NEW d \in Candidates, late'[d], NEW e \in Candidates \ {d}
        PROVE  ~Leading(e)' /\ step'[e] # "ack"
    <3>1. late[d] \/ (d = c /\ step[c] = "put" /\ current[c]) BY <1>2, <2>1
    <3>2. ~Leading(e) /\ step[e] # "ack" BY <3>1, NobodyIsDeposed DEF Inv, Grounds
    <3> QED BY <1>2, <3>2 DEF Leading
  <2> QED BY <1>1, <1>2, <2>1 DEF Inv, Grounds
<1>8. Observed' BY <1>1 DEF Inv, Observed
<1> QED BY <1>3, <1>4, <1>5, <1>6, <1>7, <1>8 DEF Inv

(* A new process starts without observations.                              *)
LEMMA RestartInv ==
  ASSUME Inv, NEW c \in Candidates, Restart(c)
  PROVE  Inv'
<1>1. /\ mode[c] = "ended" /\ mode' = [mode EXCEPT ![c] = "acquire"]
      /\ clock' = [clock EXCEPT ![c] = RetryPeriod] /\ spent' = [spent EXCEPT ![c] = 0]
      /\ age' = [age EXCEPT ![c] = AgeCap] /\ known' = [known EXCEPT ![c] = FALSE]
      /\ UNCHANGED <<holder, stamp, late, step, last, seen, same, current, equal, faults>>
  BY DEF Restart, server, answers
<1>2. step[c] = "idle" /\ ~last[c] /\ ~Leading(c) BY <1>1 DEF Inv, Polls, Busy, Leading
<1>3. /\ mode'[c] = "acquire" /\ ~known'[c]
      /\ \A d \in Candidates \ {c} :
           /\ mode'[d] = mode[d] /\ clock'[d] = clock[d] /\ spent'[d] = spent[d]
           /\ age'[d] = age[d] /\ known'[d] = known[d]
  BY <1>1 DEF Inv, TypeOK
<1>4. TypeOK'
  <2>1. mode' \in [Candidates -> {"acquire", "lead", "ended"}] BY <1>1 DEF Inv, TypeOK
  <2>2. known' \in [Candidates -> BOOLEAN] BY <1>1 DEF Inv, TypeOK
  <2>3. /\ clock' \in [Candidates -> 0..RenewDeadline] /\ spent' \in [Candidates -> 0..Latency]
        /\ age' \in [Candidates -> 0..AgeCap]
    BY <1>1 DEF Inv, TypeOK, AgeCap
  <2> QED BY <1>1, <2>1, <2>2, <2>3 DEF Inv, TypeOK
<1>5. Polls' BY <1>1, <1>2, <1>3 DEF Inv, Polls, Leading, Busy
<1>6. Patience'
  <2>1. \A d \in Candidates \ {c} : Bound(d)' = Bound(d) BY <1>1, <1>3 DEF Bound
  <2>2. ~Leading(c)' BY <1>3 DEF Leading
  <2> QED BY <1>1, <1>2, <1>3, <2>1, <2>2 DEF Inv, Patience, Leading
<1>7. Answers' BY <1>1, <1>2, <1>3 DEF Inv, Answers
<1>8. Grounds' BY <1>1, <1>2, <1>3 DEF Inv, Grounds, Leading
<1>9. Observed' BY <1>1, <1>3 DEF Inv, Observed
<1> QED BY <1>4, <1>5, <1>6, <1>7, <1>8, <1>9 DEF Inv

(* Every step keeps the invariant.                                         *)
LEMMA NextInv == Inv /\ [Next]_vars => Inv'
<1> SUFFICES ASSUME Inv, [Next]_vars PROVE Inv' OBVIOUS
<1>1. faults \in 0..MaxFaults BY DEF Inv, TypeOK
<1>2. ASSUME NEW c \in Candidates, Refrain(c) PROVE Inv'
  <2>1. Busy(c) /\ Failed(c) /\ faults' = faults /\ late' = late /\ UNCHANGED <<holder, stamp, answers>>
    BY <1>2 DEF Refrain, Busy, server
  <2>2. \/ UNCHANGED <<known, age>>
        \/ known' = [known EXCEPT ![c] = equal[c]] /\ age' = [age EXCEPT ![c] = 0]
    BY <1>2 DEF Refrain, Observe
  <2> QED BY <1>1, <2>1, <2>2, FailedInv
<1>3. ASSUME NEW c \in Candidates, Conflict(c) PROVE Inv'
  <2>1. /\ Busy(c) /\ Failed(c) /\ faults' = faults /\ late' = late
        /\ UNCHANGED <<holder, stamp, answers>> /\ UNCHANGED <<known, age>>
    BY <1>3 DEF Conflict, Busy, server
  <2> QED BY <1>1, <2>1, FailedInv
<1>4. ASSUME NEW c \in Candidates, CallFails(c) PROVE Inv'
  <2>1. /\ Busy(c) /\ Failed(c) /\ faults' = faults + 1 /\ faults < MaxFaults
        /\ late' = [late EXCEPT ![c] = late[c] \/ (step[c] = "put" /\ current[c])]
        /\ UNCHANGED <<holder, stamp, answers>> /\ UNCHANGED <<known, age>>
    BY <1>4 DEF CallFails, Fault
  <2>2. faults' \in 0..MaxFaults BY <1>1, <2>1
  <2> QED BY <2>1, <2>2, FailedInv
<1>5. CASE UNCHANGED vars
  <2>1. UNCHANGED <<holder, stamp, late, mode, step, last, clock, spent, age, known, seen, same,
                    current, equal, faults>>
    BY <1>5 DEF vars, server, timers, answers
  <2>2. TypeOK' BY <2>1 DEF Inv, TypeOK
  <2>3. Polls' /\ Answers' /\ Grounds' /\ Patience' /\ Observed'
    BY <2>1 DEF Inv, Polls, Answers, Grounds, Patience, Observed, Leading, Busy, Bound
  <2> QED BY <2>2, <2>3 DEF Inv
<1> QED BY <1>2, <1>3, <1>4, <1>5, TickInv, WorkInv, RecordInv, AckInv, CrashInv, RestartInv
        DEF Next, Try

-----------------------------------------------------------------------------
(* Theorems.                                                               *)

(* The inductive invariant holds in every reachable state.                 *)
THEOREM Invariance == Spec => []Inv
BY InitInv, NextInv, PTL DEF Spec

(* Every variable keeps its type, and attempts end in time.                *)
THEOREM TypeCorrect == Spec => []TypeOK
<1>1. Inv => TypeOK BY DEF Inv
<1> QED BY <1>1, Invariance, PTL

(* A candidate that leads is the holder of the record on the server, if    *)
(* LeaseDuration leaves the margin of LatencyAssumption.                   *)
THEOREM LeadersHold == Spec => []LeaderHoldsRecord
<1>1. Inv => LeaderHoldsRecord BY DEF Inv, Patience, LeaderHoldsRecord
<1> QED BY <1>1, Invariance, PTL

(* At most one candidate leads, if LeaseDuration exceeds RenewDeadline by  *)
(* a second, the precision of the record, and three times what             *)
(* tryAcquireOrRenew takes at most: what NewLeaderElector checks, that     *)
(* LeaseDuration exceeds RenewDeadline at all, is not enough.              *)
THEOREM AtMostOneLeads == Spec => []OneLeader
<1>1. Inv => OneLeader BY DEF Inv, Patience, OneLeader
<1> QED BY <1>1, Invariance, PTL
-----------------------------------------------------------------------------
(* Renewals.                                                               *)

(* A leader that renews its record finds its own: nobody else writes it.   *)
RenewalFindsItself ==
  \A c \in Candidates : Leading(c) /\ step[c] \in {"got", "put"} => seen[c] = c

(* Get shows a leader its own record, and it attempts to replace no other. *)
LEMMA RenewalStep == Inv /\ RenewalFindsItself /\ [Next]_vars => RenewalFindsItself'
<1> SUFFICES ASSUME Inv, RenewalFindsItself, [Next]_vars,
                    NEW c \in Candidates, Leading(c)', step'[c] \in {"got", "put"}
             PROVE  seen'[c] = c
  BY DEF RenewalFindsItself
<1> USE DEF Leading, answers, server, timers
<1>1. TypeOK BY DEF Inv
<1>2. Leading(c) /\ step[c] \in {"got", "put"} => seen[c] = c BY DEF RenewalFindsItself
<1>3. Leading(c) => holder = c BY DEF Inv, Patience
<1>4. ASSUME NEW d \in Candidates, Get(d) PROVE seen'[c] = c
  BY <1>1, <1>2, <1>3, <1>4 DEF Get, Goes, TypeOK
<1>5. ASSUME NEW d \in Candidates, Attempt(d) PROVE seen'[c] = c
  BY <1>1, <1>2, <1>5 DEF Attempt, Goes, TypeOK
<1>6. ASSUME NEW d \in Candidates, Failed(d), UNCHANGED seen PROVE seen'[c] = c
  <2>1. c # d BY <1>1, <1>6 DEF Failed, TypeOK
  <2> QED BY <1>1, <1>2, <1>6, <2>1 DEF Failed, TypeOK
<1>7. ASSUME NEW d \in Candidates, Refrain(d) \/ Conflict(d) \/ CallFails(d) PROVE seen'[c] = c
  BY <1>6, <1>7 DEF Refrain, Conflict, CallFails
<1>8. ASSUME NEW d \in Candidates, Start(d) \/ Put(d) PROVE seen'[c] = c
  BY <1>1, <1>2, <1>8 DEF Start, Put, Goes, TypeOK
<1>9. ASSUME NEW d \in Candidates, Ack(d) PROVE seen'[c] = c
  BY <1>1, <1>2, <1>9 DEF Ack, Succeed, TypeOK
<1>10. ASSUME NEW d \in Candidates, LatePut(d) \/ Crash(d) \/ Restart(d) PROVE seen'[c] = c
  BY <1>1, <1>2, <1>10 DEF LatePut, Crash, Restart, TypeOK
<1>11. CASE Tick
  BY <1>1, <1>2, <1>11 DEF Tick, TypeOK
<1>12. CASE UNCHANGED vars
  BY <1>2, <1>12 DEF vars
<1> QED BY <1>4, <1>5, <1>7, <1>8, <1>9, <1>10, <1>11, <1>12 DEF Next, Try

(* RenewalFindsItself: no leader ever sees the record of another candidate *)
(* when it renews its own, so that "lock is held" is never its failure;    *)
(* with the margin of LatencyAssumption, which also covers renewals that   *)
(* the others cannot see.                                                  *)
THEOREM LeadersFindThemselves == Spec => []RenewalFindsItself
<1>1. Init => RenewalFindsItself BY DEF Init, RenewalFindsItself, Leading
<1> QED BY <1>1, RenewalStep, Invariance, PTL DEF Spec

(* As long as nothing has failed: Poll's first tick is enough, and the     *)
(* record is the leader's own from Get to Update.                          *)
Smooth(c) ==
  /\ mode[c] # "ended" /\ ~last[c] /\ ~late[c]
  /\ Leading(c) /\ ~Busy(c) => clock[c] < RetryPeriod
  /\ Leading(c) /\ step[c] \in {"got", "put"} => current[c]

Untroubled == faults = 0 => \A c \in Candidates : Smooth(c)

(* The end of an attempt that is no leader's.                              *)
LEMMA SmoothFailure ==
  ASSUME TypeOK, NEW c \in Candidates, NEW d \in Candidates, Smooth(c), Smooth(d),
         Failed(d), ~Leading(d), UNCHANGED <<late, current>>
  PROVE  Smooth(c)'
<1>1. CASE c = d
  BY <1>1 DEF Smooth, Failed, Again, Leading, Busy, TypeOK
<1>2. CASE c # d
  BY <1>2 DEF Smooth, Failed, Leading, Busy, TypeOK
<1> QED BY <1>1, <1>2

(* Time: a leader that waits begins its next attempt after RetryPeriod.    *)
LEMMA SmoothTick ==
  ASSUME TypeOK, Tick, NEW c \in Candidates, Smooth(c)
  PROVE  Smooth(c)'
<1> USE DEF Leading, Busy
<1>1. /\ clock'[c] = IF mode[c] = "ended" THEN 0 ELSE Advanced(clock[c], RenewDeadline)
      /\ step'[c] = IF Rings(c) \/ Closes(c) THEN "get" ELSE step[c]
      /\ Closes(c) \/ last'[c] = last[c]
      /\ UNCHANGED <<mode, late, current>>
  BY DEF Tick, server, answers
<1>2. clock[c] \in 0..RenewDeadline BY DEF TypeOK
<1>3. ~Closes(c) BY <1>2 DEF Closes, Smooth
<1>4. ASSUME Leading(c), ~Busy(c), ~Rings(c) PROVE clock'[c] < RetryPeriod
  <2>1. clock[c] < RetryPeriod BY <1>4 DEF Smooth
  <2>2. clock[c] + 1 # RetryPeriod
    <3>1. RetryPeriod % RetryPeriod = 0 OBVIOUS
    <3> QED BY <1>4, <3>1 DEF Rings
  <2> QED BY <1>1, <1>2, <2>1, <2>2 DEF Advanced
<1>5. Leading(c)' /\ ~Busy(c)' => clock'[c] < RetryPeriod
  BY <1>1, <1>4
<1>6. Leading(c)' /\ step'[c] \in {"got", "put"} => current'[c]
  BY <1>1 DEF Smooth
<1> QED BY <1>1, <1>3, <1>5, <1>6 DEF Smooth

(* No step but a fault stops a leader.                                     *)
LEMMA UntroubledStep == Inv /\ RenewalFindsItself /\ Untroubled /\ [Next]_vars => Untroubled'
<1> SUFFICES ASSUME Inv, RenewalFindsItself, Untroubled, [Next]_vars, faults' = 0,
                    NEW c \in Candidates
             PROVE  Smooth(c)'
  BY DEF Untroubled
<1> USE DEF Leading, Busy, answers, server, timers
<1>1. TypeOK /\ faults \in Nat BY DEF Inv, TypeOK
<1>2. ASSUME NEW d \in Candidates, CallFails(d) \/ Crash(d) PROVE FALSE
  BY <1>1, <1>2 DEF CallFails, Crash, Fault
<1>3. CASE UNCHANGED vars
  BY <1>3 DEF vars, Untroubled, Smooth
<1>4. ASSUME Next PROVE faults = 0
  BY <1>2, <1>4 DEF Next, Try, Tick, Start, Get, Refrain, Attempt, Put, Conflict, Ack, LatePut, Restart
<1>5. ASSUME Next PROVE \A d \in Candidates : Smooth(d)
  BY <1>4, <1>5 DEF Untroubled
<1>6. ASSUME Next, NEW d \in Candidates, LatePut(d) \/ Restart(d) PROVE FALSE
  BY <1>5, <1>6 DEF LatePut, Restart, Smooth
<1>7. ASSUME Next, NEW d \in Candidates, Refrain(d) \/ Conflict(d) PROVE Smooth(c)'
  <2>1. Failed(d) /\ UNCHANGED <<late, current>> BY <1>7 DEF Refrain, Conflict
  <2>2. ~Leading(d)
    BY <1>5, <1>7 DEF Refrain, Conflict, Held, RenewalFindsItself, Smooth
  <2> QED BY <1>1, <1>5, <1>7, <2>1, <2>2, SmoothFailure
<1>8. ASSUME Next, NEW d \in Candidates, Start(d) \/ Get(d) \/ Attempt(d) PROVE Smooth(c)'
  <2>1. Smooth(c) BY <1>5, <1>8
  <2>2. UNCHANGED <<mode, last, late, clock>> BY <1>8 DEF Start, Get, Attempt
  <2>3. CASE Start(d)
    BY <1>1, <2>1, <2>2, <2>3 DEF Start, Goes, Smooth, TypeOK
  <2>4. CASE Get(d)
    BY <1>1, <2>1, <2>2, <2>4 DEF Get, Goes, Smooth, TypeOK
  <2>5. CASE Attempt(d)
    BY <1>1, <2>1, <2>2, <2>5 DEF Attempt, Goes, Smooth, TypeOK
  <2> QED BY <1>8, <2>3, <2>4, <2>5
<1>9. ASSUME Next, NEW d \in Candidates, Put(d) PROVE Smooth(c)'
  <2>1. /\ Smooth(c) /\ UNCHANGED <<mode, last, clock>> /\ late' = [e \in Candidates |-> FALSE]
        /\ step' = [step EXCEPT ![d] = "ack"]
    BY <1>5, <1>9 DEF Put, Record, Goes
  <2>2. c # d => ~Leading(c) BY <1>9, NobodyIsDeposed DEF Put
  <2> QED BY <1>1, <2>1, <2>2 DEF Smooth, TypeOK
<1>10. ASSUME Next, NEW d \in Candidates, Ack(d) PROVE Smooth(c)'
  BY <1>1, <1>5, <1>10 DEF Ack, Succeed, Smooth, TypeOK
<1>11. ASSUME Next, Tick PROVE Smooth(c)'
  BY <1>1, <1>5, <1>11, SmoothTick
<1> QED BY <1>2, <1>3, <1>6, <1>7, <1>8, <1>9, <1>10, <1>11 DEF Next, Try

(* Without failed calls and crashes nobody who leads ever stops: renewals  *)
(* are neither refused nor late, and the deadline is never reached.        *)
NoFaultNoStop ==
  faults = 0 => \A c \in Candidates : mode[c] # "ended" /\ (Leading(c) => ~last[c])

(* NoFaultNoStop: a leader loses its lead by failed calls and crashes only *)
(* and never by the other candidates or by the course of time; with the    *)
(* margin of LatencyAssumption.                                            *)
THEOREM OnlyFaultsStop == Spec => []NoFaultNoStop
<1>1. Init => Untroubled BY DEF Init, Untroubled, Smooth, Leading
<1>2. Spec => [](Inv /\ RenewalFindsItself)
  BY Invariance, LeadersFindThemselves, PTL
<1>3. Spec => []Untroubled
  BY <1>1, <1>2, UntroubledStep, PTL DEF Spec
<1>4. Untroubled => NoFaultNoStop BY DEF Untroubled, Smooth, NoFaultNoStop
<1> QED BY <1>3, <1>4, PTL
=============================================================================
