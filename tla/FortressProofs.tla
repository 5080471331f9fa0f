--------------------------- MODULE FortressProofs ---------------------------
(***************************************************************************)
(* Proofs about the fortress, for any number of guests and of Lockdowns.   *)
(*                                                                         *)
(* The counter of the WaitGroup counts the visits that run and the ones    *)
(* that have still to call Done.  The goroutine of the Lockdown in         *)
(* progress, once woken, finds it at zero, since the loop lets no guest in *)
(* before the guard has its answer and calls Unlock.                       *)
(***************************************************************************)
EXTENDS Fortress, FiniteSetTheorems, TLAPS

Counted == active = Cardinality(Visiting) + finishing

(* What the guard knows about the gate.                                    *)
GateKnown ==
  /\ guard = "answering" => (open <=> unlocking)
  /\ guard # "idle" /\ unlocking => view = "open"
  /\ view # "open" => ~open
  /\ guard = "asking" /\ ~unlocking => tickets < MaxLockdowns

Over == {"woken", "returned"}

(* The waits that matter end with no visit.                                *)
WaitsSound ==
  /\ guard = "answering" /\ ~unlocking =>
       tickets > 0 /\ (waiter[tickets] \in Over => active = 0)
  /\ view = "locked" => active = 0
  /\ loop = "select" => waiter[0] = "none"
  /\ waiter[0] \in Over => active = 0
  /\ loop = "dead" => waiter[0] = "returned"

Inv == TypeOK /\ Counted /\ GateKnown /\ WaitsSound

-----------------------------------------------------------------------------
(* The guests that are visiting are finitely many.                         *)
LEMMA VisitingFinite ==
  /\ IsFiniteSet(Visiting) /\ Cardinality(Visiting) \in Nat
  /\ Cardinality(Visiting) = 0 <=> Visiting = {}
BY GuestsAssumption, FS_Subset, FS_CardinalityType, FS_EmptySet DEF Visiting

(* A new fortress is locked and empty.                                     *)
LEMMA InitInv == Init => Inv
<1> SUFFICES ASSUME Init PROVE Inv
  OBVIOUS
<1>1. TypeOK
  <2>1. /\ guest \in [Guests -> {"idle", "asking", "visiting"}]
        /\ waiter \in [Waiters -> {"none", "called", "blocked", "woken", "returned"}]
    BY DEF Init
  <2>2. finishing \in 0 .. active /\ active \in 0 .. MaxActive /\ tickets \in 0 .. MaxLockdowns
    BY BoundsAssumption DEF Init
  <2> QED
    BY <2>1, <2>2 DEF Init, TypeOK
<1>2. Visiting = {}
  BY DEF Init, Visiting
<1>3. Counted
  BY <1>2, FS_EmptySet DEF Init, Counted
<1>4. GateKnown /\ WaitsSound
  BY BoundsAssumption DEF Init, GateKnown, WaitsSound, Waiters, Over
<1> QED
  BY <1>1, <1>3, <1>4 DEF Inv

(* active.Add and active.Done keep the counter in step with the visits.    *)
LEMMA CountedStep == Inv /\ [Next]_vars => Counted'
<1> SUFFICES ASSUME Inv, [Next]_vars PROVE Counted'
  OBVIOUS
<1> USE DEF Inv, Counted
<1>1. CASE guest' = guest /\ finishing' = finishing /\ active' = active
  BY <1>1 DEF Visiting
<1>2. ASSUME NEW g \in Guests, TakeGuestTicket(g) PROVE Counted'
  <2>1. Visiting' = Visiting \cup {g} /\ g \notin Visiting
    BY <1>2 DEF TakeGuestTicket, Visiting, TypeOK
  <2>2. Cardinality(Visiting') = Cardinality(Visiting) + 1
    BY <2>1, VisitingFinite, FS_AddElement
  <2> QED
    BY <1>2, <2>2, VisitingFinite DEF TakeGuestTicket, TypeOK
<1>3. ASSUME NEW g \in Guests, VisitEnds(g) PROVE Counted'
  <2>1. Visiting' = Visiting \ {g} /\ g \in Visiting
    BY <1>3 DEF VisitEnds, Visiting, TypeOK
  <2>2. Cardinality(Visiting') = Cardinality(Visiting) - 1
    BY <2>1, VisitingFinite, FS_RemoveElement
  <2> QED
    BY <1>3, <2>2, VisitingFinite DEF VisitEnds, TypeOK
<1>4. ASSUME NEW g \in Guests, GuestCalls(g) \/ GuestGivesUp(g) PROVE Counted'
  <2>1. Visiting' = Visiting
    BY <1>4 DEF GuestCalls, GuestGivesUp, Visiting, TypeOK
  <2> QED
    BY <1>4, <2>1 DEF GuestCalls, GuestGivesUp
<1>5. CASE Finished
  <2>1. Visiting' = Visiting
    BY <1>5 DEF Finished, Visiting
  <2> QED
    BY <1>5, <2>1, VisitingFinite DEF Finished, TypeOK
<1>6. CASE Kill \/ LoopReturns \/ LoopDies
  BY <1>1, <1>6 DEF Kill, LoopReturns, LoopDies
<1>7. CASE TakeGuardTicket \/ GuardCalls \/ GuardRefused \/ GuardAnswered \/ LockdownAborted
  BY <1>1, <1>7 DEF TakeGuardTicket, GuardCalls, GuardRefused, GuardAnswered, LockdownAborted
<1>8. ASSUME NEW t \in Waiters, StartWait(t) \/ WakeUp(t) PROVE Counted'
  BY <1>1, <1>8 DEF StartWait, WakeUp
<1>9. CASE UNCHANGED vars
  BY <1>1, <1>9 DEF vars
<1> QED
  BY <1>2, <1>3, <1>4, <1>5, <1>6, <1>7, <1>8, <1>9 DEF Next, Step, Crashed

(* Types, given the bounds that GateKnown and Counted put on the counters. *)
LEMMA TypeStep == Inv /\ [Next]_vars => TypeOK'
<1> SUFFICES ASSUME Inv, [Next]_vars PROVE TypeOK'
  OBVIOUS
<1> USE BoundsAssumption DEF Inv, TypeOK, Waiters, loopVars, guardVars
<1>1. ASSUME NEW g \in Guests, TakeGuestTicket(g) PROVE TypeOK'
  BY <1>1 DEF TakeGuestTicket
<1>2. ASSUME NEW g \in Guests, VisitEnds(g) PROVE TypeOK'
  <2>1. g \in Visiting
    BY <1>2 DEF VisitEnds, Visiting
  <2>2. finishing < active
    BY <2>1, VisitingFinite DEF Counted
  <2> QED
    BY <1>2, <2>2 DEF VisitEnds
<1>3. ASSUME NEW g \in Guests, GuestCalls(g) \/ GuestGivesUp(g) PROVE TypeOK'
  BY <1>3 DEF GuestCalls, GuestGivesUp
<1>4. CASE Finished
  <2>1. waiter' \in [0 .. MaxLockdowns -> {"none", "called", "blocked", "woken", "returned"}]
    BY <1>4 DEF Finished, WakeBlocked
  <2> QED
    BY <1>4, <2>1 DEF Finished
<1>5. CASE Kill
  BY <1>5 DEF Kill
<1>6. CASE LoopReturns \/ LoopDies
  BY <1>6 DEF LoopReturns, LoopDies
<1>7. CASE TakeGuardTicket
  BY <1>7 DEF TakeGuardTicket, GateKnown
<1>8. CASE GuardCalls \/ GuardRefused \/ GuardAnswered \/ LockdownAborted
  BY <1>8 DEF GuardCalls, GuardRefused, GuardAnswered, LockdownAborted
<1>9. ASSUME NEW t \in Waiters, StartWait(t) \/ WakeUp(t) PROVE TypeOK'
  BY <1>9 DEF StartWait, WakeUp
<1>10. CASE UNCHANGED vars
  BY <1>10 DEF vars
<1> QED
  BY <1>1, <1>2, <1>3, <1>4, <1>5, <1>6, <1>7, <1>8, <1>9, <1>10 DEF Next, Step, Crashed

(* Only the guard and the loop move the gate.                              *)
LEMMA GateStep == Inv /\ [Next]_vars => GateKnown'
<1> SUFFICES ASSUME Inv, [Next]_vars PROVE GateKnown'
  OBVIOUS
<1> USE DEF Inv, TypeOK, GateKnown, loopVars, guardVars
<1>1. ASSUME NEW g \in Guests,
             TakeGuestTicket(g) \/ GuestCalls(g) \/ GuestGivesUp(g) \/ VisitEnds(g)
      PROVE  GateKnown'
  BY <1>1 DEF TakeGuestTicket, GuestCalls, GuestGivesUp, VisitEnds
<1>2. CASE Finished \/ Kill \/ LoopReturns \/ LoopDies
  BY <1>2 DEF Finished, Kill, LoopReturns, LoopDies
<1>3. CASE TakeGuardTicket
  BY <1>3 DEF TakeGuardTicket
<1>4. CASE GuardCalls
  BY <1>4 DEF GuardCalls
<1>5. CASE GuardRefused \/ GuardAnswered \/ LockdownAborted
  BY <1>5 DEF GuardRefused, GuardAnswered, LockdownAborted
<1>6. ASSUME NEW t \in Waiters, StartWait(t) \/ WakeUp(t) PROVE GateKnown'
  BY <1>6 DEF StartWait, WakeUp
<1>7. CASE UNCHANGED vars
  BY <1>7 DEF vars
<1> QED
  BY <1>1, <1>2, <1>3, <1>4, <1>5, <1>6, <1>7 DEF Next, Step, Crashed

(* The counter grows only while the gate is open and the loop runs; then   *)
(* no wait that matters has ended.                                         *)
LEMMA WaitsStep == Inv /\ [Next]_vars => WaitsSound'
<1> SUFFICES ASSUME Inv, [Next]_vars PROVE WaitsSound'
  OBVIOUS
<1> USE BoundsAssumption DEF Inv, TypeOK, WaitsSound, Over, Waiters, loopVars, guardVars
<1>1. ASSUME NEW g \in Guests, TakeGuestTicket(g) PROVE WaitsSound'
  BY <1>1 DEF TakeGuestTicket, GateKnown
<1>2. ASSUME NEW g \in Guests, GuestCalls(g) \/ GuestGivesUp(g) \/ VisitEnds(g)
      PROVE  WaitsSound'
  BY <1>2 DEF GuestCalls, GuestGivesUp, VisitEnds
<1>3. CASE Finished
  <2>1. CASE active = 1
    BY <1>3, <2>1 DEF Finished, WakeBlocked
  <2>2. CASE active # 1
    BY <1>3, <2>2 DEF Finished
  <2> QED
    BY <2>1, <2>2
<1>4. CASE Kill \/ LoopReturns
  BY <1>4 DEF Kill, LoopReturns
<1>5. CASE LoopDies
  BY <1>5 DEF LoopDies
<1>6. CASE TakeGuardTicket
  BY <1>6 DEF TakeGuardTicket, GateKnown
<1>7. CASE GuardCalls \/ GuardRefused \/ LockdownAborted
  BY <1>7 DEF GuardCalls, GuardRefused, LockdownAborted
<1>8. CASE GuardAnswered
  BY <1>8 DEF GuardAnswered
<1>9. ASSUME NEW t \in Waiters, StartWait(t) \/ WakeUp(t) PROVE WaitsSound'
  BY <1>9 DEF StartWait, WakeUp
<1>10. CASE UNCHANGED vars
  BY <1>10 DEF vars
<1> QED
  BY <1>1, <1>2, <1>3, <1>4, <1>5, <1>6, <1>7, <1>8, <1>9, <1>10 DEF Next, Step, Crashed

(* The invariant holds throughout.                                         *)
LEMMA Invariance == Spec => []Inv
<1>1. Inv /\ [Next]_vars => Inv'
  BY CountedStep, TypeStep, GateStep, WaitsStep DEF Inv
<1> QED
  BY InitInv, <1>1, PTL DEF Spec

-----------------------------------------------------------------------------
(* The types hold, and no visit is forgotten by the counter.               *)
THEOREM TypeCorrect == Spec => []TypeOK
<1>1. Inv => TypeOK
  BY DEF Inv
<1> QED
  BY Invariance, <1>1, PTL

(* A successful Lockdown gives exclusive access, for any number of guests  *)
(* and also after aborted Lockdowns.                                       *)
THEOREM Exclusion == Spec => []LockdownExcludes
<1>1. Inv => LockdownExcludes
  BY VisitingFinite DEF Inv, TypeOK, Counted, WaitsSound, LockdownExcludes
<1> QED
  BY Invariance, <1>1, PTL

(* No visit outlives the loop of the fortress.                             *)
THEOREM NoVisitAfterDeath == Spec => []DeadIsEmpty
<1>1. Inv => DeadIsEmpty
  BY VisitingFinite DEF Inv, TypeOK, Counted, WaitsSound, Over, DeadIsEmpty
<1> QED
  BY Invariance, <1>1, PTL

(* A fortress that was closed, also by a Lockdown that was aborted, admits *)
(* nobody before the next Unlock.                                          *)
THEOREM StaysClosed == Spec => AbortedStaysClosed
<1>1. Inv /\ [Next]_vars =>
        [view # "open" /\ guard = "idle" => Visiting' \subseteq Visiting]_vars
  <2> SUFFICES ASSUME Inv, Next, ~open PROVE Visiting' \subseteq Visiting
    BY DEF Inv, GateKnown
  <2>1. ASSUME NEW g \in Guests,
               TakeGuestTicket(g) \/ GuestCalls(g) \/ GuestGivesUp(g) \/ VisitEnds(g)
        PROVE  Visiting' \subseteq Visiting
    BY <2>1 DEF TakeGuestTicket, GuestCalls, GuestGivesUp, VisitEnds, Visiting, Inv, TypeOK
  <2>2. CASE guest' = guest
    BY <2>2 DEF Visiting
  <2>3. CASE \/ Kill \/ LoopReturns \/ LoopDies \/ Finished \/ TakeGuardTicket \/ GuardCalls
             \/ GuardRefused \/ GuardAnswered \/ LockdownAborted \/ Crashed
    BY <2>2, <2>3 DEF Kill, LoopReturns, LoopDies, Finished, TakeGuardTicket, GuardCalls,
                      GuardRefused, GuardAnswered, LockdownAborted, Crashed, vars
  <2>4. ASSUME NEW t \in Waiters, StartWait(t) \/ WakeUp(t) PROVE Visiting' \subseteq Visiting
    BY <2>2, <2>4 DEF StartWait, WakeUp
  <2> QED
    BY <2>1, <2>3, <2>4 DEF Next, Step
<1> QED
  BY Invariance, <1>1, PTL DEF Spec, AbortedStaysClosed

(* Whoever panics has been left behind by a Lockdown that was aborted.     *)
THEOREM OnlyAbortsPanic == Spec => []PanicNeedsAbort
<1>1. Init => PanicNeedsAbort
  BY DEF Init, PanicNeedsAbort
<1>2. Inv /\ PanicNeedsAbort /\ [Next]_vars => PanicNeedsAbort'
  <2> SUFFICES ASSUME Inv, PanicNeedsAbort, [Next]_vars, crashed' PROVE PanicNeedsAbort'
    BY DEF PanicNeedsAbort
  <2>1. CASE crashed
    <3>1. UNCHANGED vars
      BY <2>1 DEF Next, Crashed
    <3> QED
      BY <3>1 DEF vars, guardVars, PanicNeedsAbort
  <2>2. CASE ~crashed
    <3>1. PICK t \in Waiters : WakeUp(t) /\ active # 0
      <4>1. \/ \E t \in Waiters : WakeUp(t)
            \/ crashed' = crashed
        BY DEF Next, Step, Crashed, Kill, LoopReturns, LoopDies, TakeGuestTicket, GuestCalls,
               GuestGivesUp, VisitEnds, Finished, TakeGuardTicket, GuardCalls, GuardRefused,
               GuardAnswered, LockdownAborted, StartWait, vars
      <4> QED
        BY <2>2, <4>1 DEF WakeUp
    <3>2. /\ t # 0
          /\ ~(guard = "answering" /\ ~unlocking /\ t = tickets)
      BY <3>1 DEF WakeUp, Inv, WaitsSound, Over
    <3> QED
      BY <3>1, <3>2 DEF WakeUp, PanicNeedsAbort, guardVars
  <2> QED
    BY <2>1, <2>2
<1> QED
  BY Invariance, <1>1, <1>2, PTL DEF Spec

-----------------------------------------------------------------------------
(* Without aborts, only the Lockdown in progress and the loop wait.        *)
NoneLeftBehind ==
  \A t \in Waiters \ {0} :
    waiter[t] \in {"called", "blocked", "woken"} =>
      guard = "answering" /\ ~unlocking /\ t = tickets

(* The panic needs an aborted Lockdown: as long as the guard never closes  *)
(* its Abort, the WaitGroup is not used again before its waiters return.   *)
THEOREM PatientGuardNeverPanics ==
  ASSUME "guard" \notin Impatient
  PROVE  Spec => []NeverPanics
<1> DEFINE P == NoneLeftBehind /\ NeverPanics
<1>1. Init => P
  BY DEF Init, NoneLeftBehind, NeverPanics
<1>2. Inv /\ P /\ [Next]_vars => P'
  <2> SUFFICES ASSUME Inv, P, [Next]_vars PROVE P'
    OBVIOUS
  <2> USE DEF Inv, TypeOK, NoneLeftBehind, NeverPanics, loopVars, guardVars
  <2>1. ASSUME NEW g \in Guests,
               TakeGuestTicket(g) \/ GuestCalls(g) \/ GuestGivesUp(g) \/ VisitEnds(g)
        PROVE  P'
    BY <2>1 DEF TakeGuestTicket, GuestCalls, GuestGivesUp, VisitEnds
  <2>2. CASE Finished
    BY <2>2 DEF Finished, WakeBlocked
  <2>3. CASE Kill \/ LoopDies
    BY <2>3 DEF Kill, LoopDies
  <2>4. CASE LoopReturns
    BY <2>4 DEF LoopReturns
  <2>5. CASE TakeGuardTicket
    BY <2>5, BoundsAssumption DEF TakeGuardTicket, Waiters, GateKnown
  <2>6. CASE GuardCalls \/ GuardRefused
    BY <2>6 DEF GuardCalls, GuardRefused
  <2>7. CASE GuardAnswered
    BY <2>7 DEF GuardAnswered
  <2>8. CASE LockdownAborted
    BY <2>8 DEF LockdownAborted
  <2>9. ASSUME NEW t \in Waiters, StartWait(t) PROVE P'
    BY <2>9 DEF StartWait
  <2>10. ASSUME NEW t \in Waiters, WakeUp(t) PROVE P'
    <3>1. active = 0
      BY <2>10 DEF WakeUp, WaitsSound, Over
    <3> QED
      BY <2>10, <3>1 DEF WakeUp
  <2>11. CASE UNCHANGED vars
    BY <2>11 DEF vars
  <2> QED
    BY <2>1, <2>2, <2>3, <2>4, <2>5, <2>6, <2>7, <2>8, <2>9, <2>10, <2>11 DEF Next, Step, Crashed
<1>3. P => NeverPanics
  OBVIOUS
<1> QED
  BY Invariance, <1>1, <1>2, <1>3, PTL DEF Spec
-----------------------------------------------------------------------------
(* A goroutine blocks only while the counter is positive, and whoever      *)
(* takes the counter to zero wakes it.                                     *)
BlockedCounted == \A t \in Waiters : waiter[t] = "blocked" => active > 0

(* BlockedForVisits: whatever waits in active.Wait, a Lockdown's goroutine *)
(* (aborted or not) or the loop at its end, waits for a visit.             *)
THEOREM NoWakeupLost == Spec => []BlockedForVisits
<1>1. Init => BlockedCounted
  BY DEF Init, BlockedCounted
<1>2. Inv /\ BlockedCounted /\ [Next]_vars => BlockedCounted'
  <2> SUFFICES ASSUME Inv, BlockedCounted, [Next]_vars, NEW t \in Waiters, waiter'[t] = "blocked"
               PROVE  active' > 0
    BY DEF BlockedCounted
  <2> USE DEF Inv, TypeOK, BlockedCounted, loopVars, guardVars
  <2>1. ASSUME NEW g \in Guests,
               TakeGuestTicket(g) \/ GuestCalls(g) \/ GuestGivesUp(g) \/ VisitEnds(g)
        PROVE  active' > 0
    BY <2>1 DEF TakeGuestTicket, GuestCalls, GuestGivesUp, VisitEnds
  <2>2. CASE Finished
    <3>1. active # 1
      BY <2>2 DEF Finished, WakeBlocked
    <3> QED
      BY <2>2, <3>1, BoundsAssumption DEF Finished
  <2>3. CASE Kill \/ LoopDies \/ GuardCalls \/ GuardRefused \/ GuardAnswered \/ LockdownAborted
    BY <2>3 DEF Kill, LoopDies, GuardCalls, GuardRefused, GuardAnswered, LockdownAborted
  <2>4. CASE LoopReturns
    BY <2>4 DEF LoopReturns
  <2>5. CASE TakeGuardTicket
    BY <2>5 DEF TakeGuardTicket
  <2>6. ASSUME NEW u \in Waiters, StartWait(u) PROVE active' > 0
    BY <2>6, BoundsAssumption DEF StartWait
  <2>7. ASSUME NEW u \in Waiters, WakeUp(u) PROVE active' > 0
    BY <2>7 DEF WakeUp
  <2>8. CASE UNCHANGED vars
    BY <2>8 DEF vars
  <2> QED
    BY <2>1, <2>2, <2>3, <2>4, <2>5, <2>6, <2>7, <2>8 DEF Next, Step, Crashed
<1>3. Inv /\ BlockedCounted => BlockedForVisits
  BY VisitingFinite DEF Inv, TypeOK, Counted, BlockedCounted, BlockedForVisits
<1> QED
  BY Invariance, <1>1, <1>2, <1>3, PTL DEF Spec
=============================================================================
