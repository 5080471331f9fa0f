--------------------------- MODULE LeaderElection ---------------------------
(***************************************************************************)
(* kube's leader election: candidates that keep a record with the identity *)
(* of the leader in an annotation of an Endpoints object.                  *)
(*                                                                         *)
(* Time is relative.  No clock of a candidate is ever compared with that   *)
(* of another one, or with a time in the record; the times in the record   *)
(* only make it different from the one before.  The model has therefore,   *)
(* for each candidate, whether the record it observed equals the one on    *)
(* the server, and how long ago it observed it.                            *)
(*                                                                         *)
(* Times are written in whole seconds (api/unversioned/time.go), so that a *)
(* renewal within the same second writes an equal record, which nobody     *)
(* takes for a change.                                                     *)
(***************************************************************************)
EXTENDS Naturals

CONSTANTS
  Candidates,
  None,           \* nobody holds the record, or there is none
  LeaseDuration, RenewDeadline, RetryPeriod,
  Latency,        \* the longest time that tryAcquireOrRenew takes
  Second,         \* the precision of the times in the record
  MaxFaults       \* bound: failed calls and crashes

ASSUME NoneAssumption == None \notin Candidates
ASSUME FaultsAssumption == MaxFaults \in Nat

(* What NewLeaderElector demands (without the jitter).                     *)
ASSUME PeriodsAssumption ==
  /\ LeaseDuration \in Nat /\ RenewDeadline \in Nat /\ RetryPeriod \in Nat \ {0}
  /\ RenewDeadline < LeaseDuration /\ RetryPeriod < RenewDeadline

(* What it does not check: a leader stops only after the attempt in flight *)
(* at the deadline and one more, and learns late of its last success,      *)
(* which may have left a record as it was that is almost a second older.   *)
ASSUME LatencyAssumption ==
  /\ Latency \in Nat /\ Second \in Nat \ {0}
  /\ RenewDeadline + 3 * Latency + Second <= LeaseDuration

VARIABLES
  holder,   \* HolderIdentity of the record on the server
  stamp,    \* time since the RenewTime with which the record was first written
  mode,     \* acquire, lead (between OnStartedLeading and OnStoppedLeading) or ended
  step,     \* where tryAcquireOrRenew is
  last,     \* this attempt is the one that Poll makes after its deadline
  clock,    \* time since Poll was called, or since the last attempt of acquire
  spent,    \* time since the attempt started
  age,      \* time since observedTime
  known,    \* observedRecord equals the record on the server
  seen,     \* the holder that Get returned
  same,     \* Get returned observedRecord
  current,  \* the server still has the version that Get returned, or that Update wrote
  equal,    \* the record on the server equals the one that Get returned
  late,     \* an abandoned Update is on its way, and the record is still what it expects
  faults

server  == <<holder, stamp, late>>
timers  == <<clock, spent, age>>
answers == <<seen, same, current, equal>>
vars    == <<server, mode, step, last, timers, known, answers, faults>>

AgeCap   == LeaseDuration + Latency
StampCap == Second + Latency

Init ==
  /\ holder = None /\ stamp = StampCap
  /\ mode = [c \in Candidates |-> "acquire"] /\ step = [c \in Candidates |-> "idle"]
  /\ last = [c \in Candidates |-> FALSE]
  /\ clock = [c \in Candidates |-> RetryPeriod]
  /\ spent = [c \in Candidates |-> 0] /\ age = [c \in Candidates |-> AgeCap]
  /\ known = [c \in Candidates |-> FALSE]
  /\ seen = [c \in Candidates |-> None]
  /\ same = [c \in Candidates |-> FALSE] /\ current = [c \in Candidates |-> FALSE]
  /\ equal = [c \in Candidates |-> FALSE] /\ late = [c \in Candidates |-> FALSE]
  /\ faults = 0

Leading(c) == mode[c] = "lead"
Busy(c)    == step[c] # "idle"

-----------------------------------------------------------------------------
(* Time, and Poll, which calls tryAcquireOrRenew every RetryPeriod and     *)
(* once more when RenewDeadline has passed.  A tick that comes while an    *)
(* attempt is running is lost; if tick and deadline coincide, either may   *)
(* come first.                                                             *)

Advanced(n, cap) == IF n < cap THEN n + 1 ELSE n

Rings(c)  == Leading(c) /\ ~Busy(c) /\ (clock[c] + 1) % RetryPeriod = 0
Closes(c) == Leading(c) /\ ~Busy(c) /\ clock[c] + 1 = RenewDeadline

Tick ==
  /\ \A c \in Candidates : Busy(c) => spent[c] < Latency
  /\ clock' = [c \in Candidates |-> IF mode[c] = "ended" THEN 0
                                    ELSE Advanced(clock[c], RenewDeadline)]
  /\ age' = [c \in Candidates |-> Advanced(age[c], AgeCap)]
  /\ stamp' = Advanced(stamp, StampCap)
  /\ spent' = [c \in Candidates |-> IF Busy(c) THEN spent[c] + 1 ELSE 0]
  /\ step' = [c \in Candidates |-> IF Rings(c) \/ Closes(c) THEN "get" ELSE step[c]]
  /\ \E first \in SUBSET Candidates :
       last' = [c \in Candidates |-> IF Closes(c) THEN Rings(c) => c \in first ELSE last[c]]
  /\ UNCHANGED <<holder, late, mode, known, answers, faults>>

-----------------------------------------------------------------------------
(* The end of an attempt.                                                  *)

(* acquire returns, or Poll is called again.                               *)
Succeed(c) ==
  /\ mode' = [mode EXCEPT ![c] = "lead"]
  /\ step' = [step EXCEPT ![c] = "idle"]
  /\ clock' = [clock EXCEPT ![c] = 0]
  /\ spent' = [spent EXCEPT ![c] = 0]
  /\ last' = [last EXCEPT ![c] = FALSE]

(* acquire sleeps; Poll waits for its next tick, makes its last attempt or *)
(* has made it, and then renew returns and with it Run.                    *)
Again(c) == Leading(c) /\ ~last[c] /\ clock[c] = RenewDeadline

Failed(c) ==
  /\ mode' = [mode EXCEPT ![c] = IF last[c] THEN "ended" ELSE @]
  /\ step' = [step EXCEPT ![c] = IF Again(c) THEN "get" ELSE "idle"]
  /\ clock' = [clock EXCEPT ![c] = IF Leading(c) /\ ~last[c] THEN @ ELSE 0]
  /\ spent' = [spent EXCEPT ![c] = 0]
  /\ last' = [last EXCEPT ![c] = Again(c)]

-----------------------------------------------------------------------------
(* tryAcquireOrRenew.                                                      *)

Goes(c, place) == step' = [step EXCEPT ![c] = place]

Start(c) ==
  /\ mode[c] = "acquire" /\ ~Busy(c) /\ clock[c] >= RetryPeriod
  /\ Goes(c, "get")
  /\ UNCHANGED <<server, mode, last, timers, known, answers, faults>>

(* The server answers Get.                                                 *)
Get(c) ==
  /\ step[c] = "get" /\ Goes(c, "got")
  /\ seen' = [seen EXCEPT ![c] = holder]
  /\ same' = [same EXCEPT ![c] = known[c]]
  /\ current' = [current EXCEPT ![c] = TRUE]
  /\ equal' = [equal EXCEPT ![c] = TRUE]
  /\ UNCHANGED <<server, mode, last, timers, known, faults>>

(* Defect: only a new holder, and not a renewal, is taken for a change.    *)
ObserveHolder(c) ==
  IF seen[c] = None \/ same[c] THEN UNCHANGED <<known, age>>
  ELSE known' = [known EXCEPT ![c] = equal[c]] /\ UNCHANGED age

(* A record that does not equal the observed one is observed now.          *)
Observe(c) ==
  IF seen[c] = None \/ same[c] THEN UNCHANGED <<known, age>>
  ELSE /\ known' = [known EXCEPT ![c] = equal[c]]
       /\ age' = [age EXCEPT ![c] = 0]

(* Defect: only the holder may replace a record.                           *)
HeldForever(c) == seen[c] \notin {None, c}

(* observedTime + LeaseDuration is after the time when the attempt began.  *)
Held(c) ==
  /\ seen[c] \notin {None, c}
  /\ same[c] => age[c] < LeaseDuration + spent[c]

Refrain(c) ==
  /\ step[c] = "got" /\ Held(c) /\ Observe(c) /\ Failed(c)
  /\ UNCHANGED <<server, answers, faults>>

Attempt(c) ==
  /\ step[c] = "got" /\ ~Held(c) /\ Observe(c) /\ Goes(c, "put")
  /\ UNCHANGED <<server, mode, last, clock, spent, answers, faults>>

(* The record gets a new version, so that every Update under way expects   *)
(* an older one.                                                           *)
Record(c) ==
  /\ holder' = c
  /\ late' = [d \in Candidates |-> FALSE]

(* The record differs from the one before, and nobody has observed it.     *)
Changed(age0) ==
  /\ known' = [d \in Candidates |-> FALSE]
  /\ equal' = [d \in Candidates |-> FALSE]
  /\ stamp' = age0

(* The holder's record equals the one before if RenewTime, the time when   *)
(* the attempt began, is in the same second: less than a second later, as  *)
(* the seconds of its clock fall.                                          *)
Alike(c) ==
  /\ holder = c /\ stamp < Second + spent[c]
  /\ UNCHANGED <<known, equal, stamp>>

(* Defect: Update does not send the resource version that Get returned.    *)
PutBlindly(c) ==
  /\ step[c] = "put"
  /\ Record(c) /\ current' = [d \in Candidates |-> d = c]
  /\ Alike(c) \/ Changed(spent[c])
  /\ Goes(c, "ack")
  /\ UNCHANGED <<mode, last, timers, seen, same, faults>>

(* Create and Update succeed if the version is still the one that Get      *)
(* returned.                                                               *)
Put(c) ==
  /\ step[c] = "put" /\ current[c]
  /\ Record(c) /\ current' = [d \in Candidates |-> d = c]
  /\ Alike(c) \/ Changed(spent[c])
  /\ Goes(c, "ack")
  /\ UNCHANGED <<mode, last, timers, seen, same, faults>>

Conflict(c) ==
  /\ step[c] = "put" /\ ~current[c] /\ Failed(c)
  /\ UNCHANGED <<server, age, known, answers, faults>>

(* observedRecord keeps the nanoseconds that the server does not get, and  *)
(* equals nothing that Get will return.                                    *)
Ack(c) ==
  /\ step[c] = "ack" /\ Succeed(c)
  /\ known' = [known EXCEPT ![c] = FALSE]
  /\ age' = [age EXCEPT ![c] = 0]
  /\ UNCHANGED <<server, answers, faults>>

-----------------------------------------------------------------------------
(* Faults.                                                                 *)

Fault == faults < MaxFaults /\ faults' = faults + 1

(* A call fails, before or after it had its effect on the server; if it    *)
(* was an Update, it may still have it later.                              *)
CallFails(c) ==
  /\ Busy(c) /\ Failed(c) /\ Fault
  /\ late' = [late EXCEPT ![c] = @ \/ (step[c] = "put" /\ current[c])]
  /\ UNCHANGED <<holder, stamp, age, known, answers>>

(* When its attempt began is forgotten: the holder's late record may equal *)
(* the one before, and the renewals of the next second may equal it.       *)
LatePut(c) ==
  /\ late[c] /\ Record(c) /\ current' = [d \in Candidates |-> FALSE]
  /\ (holder = c /\ UNCHANGED <<known, equal, stamp>>) \/ Changed(0)
  /\ UNCHANGED <<mode, step, last, timers, seen, same, faults>>

Crash(c) ==
  /\ mode[c] # "ended" /\ Fault
  /\ mode' = [mode EXCEPT ![c] = "ended"]
  /\ step' = [step EXCEPT ![c] = "idle"]
  /\ last' = [last EXCEPT ![c] = FALSE]
  /\ late' = [late EXCEPT ![c] = @ \/ (step[c] = "put" /\ current[c])]
  /\ UNCHANGED <<holder, stamp, timers, known, answers>>

(* A new process with the same identity.                                   *)
Restart(c) ==
  /\ mode[c] = "ended"
  /\ mode' = [mode EXCEPT ![c] = "acquire"]
  /\ clock' = [clock EXCEPT ![c] = RetryPeriod]
  /\ spent' = [spent EXCEPT ![c] = 0]
  /\ age' = [age EXCEPT ![c] = AgeCap]
  /\ known' = [known EXCEPT ![c] = FALSE]
  /\ UNCHANGED <<server, step, last, answers, faults>>

-----------------------------------------------------------------------------
Try(c) == Get(c) \/ Refrain(c) \/ Attempt(c) \/ Put(c) \/ Conflict(c) \/ Ack(c)

Next ==
  \/ Tick
  \/ \E c \in Candidates : Start(c) \/ Try(c) \/ CallFails(c) \/ LatePut(c) \/ Crash(c) \/ Restart(c)

(* Time goes on, and candidates that are alive go on; a process that ended *)
(* need not come back, and an abandoned Update need not arrive.            *)
Spec ==
  /\ Init /\ [][Next]_vars
  /\ SF_vars(Tick)
  /\ \A c \in Candidates : WF_vars(Start(c)) /\ WF_vars(Try(c))

-----------------------------------------------------------------------------
(* Properties.                                                             *)

(* Every variable keeps its type; no attempt takes longer than Latency.    *)
TypeOK ==
  /\ holder \in Candidates \cup {None} /\ stamp \in 0..StampCap
  /\ mode \in [Candidates -> {"acquire", "lead", "ended"}]
  /\ step \in [Candidates -> {"idle", "get", "got", "put", "ack"}]
  /\ last \in [Candidates -> BOOLEAN] /\ known \in [Candidates -> BOOLEAN]
  /\ clock \in [Candidates -> 0..RenewDeadline] /\ spent \in [Candidates -> 0..Latency]
  /\ age \in [Candidates -> 0..AgeCap]
  /\ seen \in [Candidates -> Candidates \cup {None}]
  /\ same \in [Candidates -> BOOLEAN] /\ current \in [Candidates -> BOOLEAN]
  /\ equal \in [Candidates -> BOOLEAN] /\ late \in [Candidates -> BOOLEAN]
  /\ faults \in 0..MaxFaults

(* At most one candidate is between OnStartedLeading and OnStoppedLeading, *)
(* whatever calls fail, are late or are answered late, and although there  *)
(* are renewals that nobody can see: the package comment does not promise  *)
(* it ("does not guarantee that only one client is acting as a leader",    *)
(* leaderelection.go:21), but with LatencyAssumption, and clocks of the    *)
(* same rate, it is so.                                                    *)
OneLeader == \A c, d \in Candidates : Leading(c) /\ Leading(d) => c = d

(* A leader that has not stopped yet is still the holder on the server, so *)
(* that IsLeader and GetLeader of the others agree with it: the lease that *)
(* the others grant it outlasts its own deadline.                          *)
LeaderHoldsRecord == \A c \in Candidates : Leading(c) => holder = c

(* Once calls succeed again, somebody becomes and remains the leader,      *)
(* also if the last one crashed and never returns; unless all have ended.  *)
LeaderRemains ==
  <>[](\E c \in Candidates : Leading(c)) \/ <>[](\A c \in Candidates : mode[c] = "ended")

=============================================================================
