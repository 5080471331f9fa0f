------------------------------ MODULE Fortress ------------------------------
(***************************************************************************)
(* juju's worker/fortress: a lock that one guard closes and opens and that *)
(* many guests share.                                                      *)
(*                                                                         *)
(* The loop goroutine receives tickets over unbuffered channels and starts *)
(* a goroutine for each: for a guest one that runs the visit, for a guard  *)
(* one that answers it, and for a Lockdown a further one that waits in     *)
(* active.Wait and outlives the Lockdown if that is aborted.  The loop     *)
(* itself waits there before it ends.  A WaitGroup wakes its waiters when  *)
(* its counter drops to zero, and they look at the counter once more when  *)
(* they run again.                                                         *)
(***************************************************************************)
EXTENDS Naturals, FiniteSets

CONSTANTS
  Guests,
  Impatient,    \* the callers whose Abort may be closed: guests, or "guard"
  MaxLockdowns, \* bound on the Lockdowns
  MaxActive     \* bound on the counter of active

ASSUME GuestsAssumption    == IsFiniteSet(Guests) /\ "guard" \notin Guests
ASSUME ImpatientAssumption == Impatient \subseteq Guests \cup {"guard"}
ASSUME BoundsAssumption    == MaxLockdowns \in Nat /\ MaxActive \in Nat

VARIABLES
  dying,     \* Kill has been called
  loop,      \* the loop: "select", "draining" (in its deferred Wait), "dead"
  open,      \* guestTickets is set
  guest,     \* each guest: "idle", "asking", "visiting"
  finishing, \* visits that have answered their guest and not called active.Done
  guard,     \* the guard: "idle", "asking", "answering"
  unlocking, \* the guard's call is an Unlock, and not a Lockdown
  tickets,   \* how many Lockdown tickets the loop has received
  active,    \* the counter of the WaitGroup
  waiter,    \* the goroutines that wait for it, one per Lockdown, and the loop: 0
  view,      \* history: what the guard knows: "locked", "closed", "open"
  crashed    \* a goroutine has panicked

loopVars  == <<loop, open>>
guardVars == <<guard, unlocking, view>>
vars == <<dying, loopVars, guest, finishing, guardVars, tickets, active, waiter, crashed>>

Waiters  == 0 .. MaxLockdowns
Visiting == {g \in Guests : guest[g] = "visiting"}

Init ==
  /\ dying = FALSE /\ loop = "select" /\ open = FALSE
  /\ guest = [g \in Guests |-> "idle"] /\ finishing = 0
  /\ guard = "idle" /\ unlocking = FALSE /\ view = "closed"
  /\ tickets = 0 /\ active = 0
  /\ waiter = [t \in Waiters |-> "none"]
  /\ crashed = FALSE

-----------------------------------------------------------------------------
(* sync.WaitGroup (external).                                              *)

(* Wait: returns at once when the counter is zero.                         *)
StartWait(t) ==
  /\ waiter[t] = "called"
  /\ waiter' = [waiter EXCEPT ![t] = IF active = 0 THEN "returned" ELSE "blocked"]
  /\ UNCHANGED <<dying, loopVars, guest, finishing, guardVars, tickets, active, crashed>>

(* A waiter that was woken panics when the WaitGroup has been used again.  *)
WakeUp(t) ==
  /\ waiter[t] = "woken"
  /\ IF active = 0
     THEN waiter' = [waiter EXCEPT ![t] = "returned"] /\ UNCHANGED crashed
     ELSE crashed' = TRUE /\ UNCHANGED waiter
  /\ UNCHANGED <<dying, loopVars, guest, finishing, guardVars, tickets, active>>

WakeBlocked ==
  waiter' = [t \in Waiters |-> IF waiter[t] = "blocked" THEN "woken" ELSE waiter[t]]

-----------------------------------------------------------------------------
(* The loop.                                                               *)

Kill ==
  /\ ~dying /\ dying' = TRUE
  /\ UNCHANGED <<loopVars, guest, finishing, guardVars, tickets, active, waiter, crashed>>

LoopReturns ==
  /\ loop = "select" /\ dying
  /\ loop' = "draining"
  /\ waiter' = [waiter EXCEPT ![0] = "called"]
  /\ UNCHANGED <<dying, open, guest, finishing, guardVars, tickets, active, crashed>>

(* Defect: the loop does not wait for the visits before it ends.           *)
LoopDiesAtOnce ==
  /\ loop = "draining"
  /\ loop' = "dead"
  /\ UNCHANGED <<dying, open, guest, finishing, guardVars, tickets, active, waiter, crashed>>

(* The deferred Wait has returned, then tomb.Done.                         *)
LoopDies ==
  /\ loop = "draining" /\ waiter[0] = "returned"
  /\ loop' = "dead"
  /\ UNCHANGED <<dying, open, guest, finishing, guardVars, tickets, active, waiter, crashed>>

TakeGuestTicket(g) ==
  /\ loop = "select" /\ open /\ guest[g] = "asking"
  /\ active < MaxActive /\ active' = active + 1
  /\ guest' = [guest EXCEPT ![g] = "visiting"]
  /\ UNCHANGED <<dying, loopVars, finishing, guardVars, tickets, waiter, crashed>>

(* Defect: guest tickets are still received after a Lockdown ticket.       *)
TakeGuardTicketStaysOpen ==
  /\ loop = "select" /\ guard = "asking"
  /\ open' = (open \/ unlocking)
  /\ IF unlocking THEN UNCHANGED <<tickets, waiter>>
     ELSE /\ tickets' = tickets + 1
          /\ waiter' = [waiter EXCEPT ![tickets + 1] = "called"]
  /\ guard' = "answering"
  /\ UNCHANGED <<dying, loop, guest, finishing, unlocking, view, active, crashed>>

TakeGuardTicket ==
  /\ loop = "select" /\ guard = "asking"
  /\ open' = unlocking
  /\ IF unlocking THEN UNCHANGED <<tickets, waiter>>
     ELSE /\ tickets' = tickets + 1
          /\ waiter' = [waiter EXCEPT ![tickets + 1] = "called"]
  /\ guard' = "answering"
  /\ UNCHANGED <<dying, loop, guest, finishing, unlocking, view, active, crashed>>

-----------------------------------------------------------------------------
(* Visit.                                                                  *)

GuestCalls(g) ==
  /\ guest[g] = "idle"
  /\ guest' = [guest EXCEPT ![g] = "asking"]
  /\ UNCHANGED <<dying, loopVars, finishing, guardVars, tickets, active, waiter, crashed>>

(* Defect: Visit does not look at tomb.Dying.                              *)
GuestAborts(g) ==
  /\ guest[g] = "asking" /\ g \in Impatient
  /\ guest' = [guest EXCEPT ![g] = "idle"]
  /\ UNCHANGED <<dying, loopVars, finishing, guardVars, tickets, active, waiter, crashed>>

(* "fortress worker shutting down", or ErrAborted.                         *)
GuestGivesUp(g) ==
  /\ guest[g] = "asking" /\ (dying \/ g \in Impatient)
  /\ guest' = [guest EXCEPT ![g] = "idle"]
  /\ UNCHANGED <<dying, loopVars, finishing, guardVars, tickets, active, waiter, crashed>>

(* Defect: Done is not deferred, and skipped when the visit fails.         *)
VisitEndsUndone(g) ==
  /\ guest[g] = "visiting"
  /\ guest' = [guest EXCEPT ![g] = "idle"]
  /\ finishing' \in {finishing, finishing + 1}
  /\ UNCHANGED <<dying, loopVars, guardVars, tickets, active, waiter, crashed>>

(* The visit is over, and its guest has the result.                        *)
VisitEnds(g) ==
  /\ guest[g] = "visiting"
  /\ guest' = [guest EXCEPT ![g] = "idle"]
  /\ finishing' = finishing + 1
  /\ UNCHANGED <<dying, loopVars, guardVars, tickets, active, waiter, crashed>>

(* active.Done.                                                            *)
Finished ==
  /\ finishing > 0 /\ finishing' = finishing - 1
  /\ active' = active - 1
  /\ IF active = 1 THEN WakeBlocked ELSE UNCHANGED waiter
  /\ UNCHANGED <<dying, loopVars, guest, guardVars, tickets, crashed>>

-----------------------------------------------------------------------------
(* Unlock and Lockdown.                                                    *)

(* From the call of Unlock on, the guard takes the fortress to be open.    *)
GuardCalls ==
  /\ guard = "idle" /\ guard' = "asking"
  /\ \/ unlocking' = TRUE  /\ view' = "open"
     \/ unlocking' = FALSE /\ UNCHANGED view /\ tickets < MaxLockdowns
  /\ UNCHANGED <<dying, loopVars, guest, finishing, tickets, active, waiter, crashed>>

(* Defect: Lockdown does not tell its caller that the fortress is dying.   *)
GuardRefusedUnlock ==
  /\ guard = "asking" /\ dying /\ unlocking
  /\ guard' = "idle"
  /\ UNCHANGED <<dying, loopVars, guest, finishing, unlocking, view, tickets, active,
                 waiter, crashed>>

GuardRefused ==
  /\ guard = "asking" /\ dying
  /\ guard' = "idle"
  /\ UNCHANGED <<dying, loopVars, guest, finishing, unlocking, view, tickets, active,
                 waiter, crashed>>

(* Defect: a Lockdown does not wait for the visits.                        *)
GuardAnsweredAtOnce ==
  /\ guard = "answering"
  /\ guard' = "idle" /\ view' = IF unlocking THEN "open" ELSE "locked"
  /\ UNCHANGED <<dying, loopVars, guest, finishing, unlocking, tickets, active,
                 waiter, crashed>>

(* Visits are accepted already: an Unlock is done.  A Lockdown is done     *)
(* when its goroutine has returned from Wait.                              *)
GuardAnswered ==
  /\ guard = "answering"
  /\ unlocking \/ waiter[tickets] = "returned"
  /\ guard' = "idle" /\ view' = IF unlocking THEN "open" ELSE "locked"
  /\ UNCHANGED <<dying, loopVars, guest, finishing, unlocking, tickets, active,
                 waiter, crashed>>

(* Defect: an aborted Lockdown opens the fortress again.                   *)
LockdownAbortedReopens ==
  /\ guard = "answering" /\ ~unlocking /\ "guard" \in Impatient
  /\ guard' = "idle" /\ view' = "closed" /\ open' = TRUE
  /\ UNCHANGED <<dying, loop, guest, finishing, unlocking, tickets, active, waiter, crashed>>

(* ErrAborted: the goroutine that waits is left behind.                    *)
LockdownAborted ==
  /\ guard = "answering" /\ ~unlocking /\ "guard" \in Impatient
  /\ guard' = "idle" /\ view' = "closed"
  /\ UNCHANGED <<dying, loopVars, guest, finishing, unlocking, tickets, active,
                 waiter, crashed>>

-----------------------------------------------------------------------------
Step ==
  \/ Kill \/ LoopReturns \/ LoopDies
  \/ \E g \in Guests :
       TakeGuestTicket(g) \/ GuestCalls(g) \/ GuestGivesUp(g) \/ VisitEnds(g)
  \/ Finished
  \/ TakeGuardTicket \/ GuardCalls \/ GuardRefused \/ GuardAnswered \/ LockdownAborted
  \/ \E t \in Waiters : StartWait(t) \/ WakeUp(t)

(* A panic ends the process.                                               *)
Crashed == crashed /\ UNCHANGED vars

Next == (~crashed /\ Step) \/ Crashed

(* Goroutines are scheduled, every visit returns, and select picks any of  *)
(* its ready cases in the end.                                             *)
Fairness ==
  /\ WF_vars(~crashed /\ (LoopReturns \/ LoopDies))
  /\ WF_vars(~crashed /\ Finished)
  /\ WF_vars(~crashed /\ GuardRefused) /\ WF_vars(~crashed /\ GuardAnswered)
  /\ WF_vars(~crashed /\ TakeGuardTicket)
  /\ \A g \in Guests :
       /\ WF_vars(~crashed /\ VisitEnds(g))
       /\ WF_vars(~crashed /\ GuestGivesUp(g) /\ dying)
  /\ \A t \in Waiters : WF_vars(~crashed /\ (StartWait(t) \/ WakeUp(t)))

Spec == Init /\ [][Next]_vars /\ Fairness

-----------------------------------------------------------------------------
TypeOK ==
  /\ dying \in BOOLEAN /\ open \in BOOLEAN /\ unlocking \in BOOLEAN
  /\ crashed \in BOOLEAN
  /\ loop \in {"select", "draining", "dead"}
  /\ guest \in [Guests -> {"idle", "asking", "visiting"}]
  /\ finishing \in 0 .. active /\ active \in 0 .. MaxActive
  /\ guard \in {"idle", "asking", "answering"}
  /\ view \in {"locked", "closed", "open"}
  /\ tickets \in 0 .. MaxLockdowns
  /\ waiter \in [Waiters -> {"none", "called", "blocked", "woken", "returned"}]

(* "You need to wait for a Lockdown to complete successfully before you    *)
(* can infer exclusive access" (interface.go): from then until the guard   *)
(* calls Unlock no visit runs, although visits end, are refused and queue  *)
(* up in any order, and earlier Lockdowns may have been aborted.           *)
LockdownExcludes == view = "locked" => Visiting = {}

(* "The fortress will remain closed to new visits" (interface.go): after a *)
(* Lockdown that was aborted no visit begins before the next Unlock.       *)
AbortedStaysClosed ==
  [][view # "open" /\ guard = "idle" => Visiting' \subseteq Visiting]_vars

(* No visit outlives the fortress: when Wait returns, all are over.        *)
DeadIsEmpty == loop = "dead" => Visiting = {} /\ active = 0

(* No wakeup is lost: a goroutine that is blocked in active.Wait, for a    *)
(* Lockdown or for the loop, has a visit to wait for that will call Done.  *)
BlockedForVisits ==
  \A t \in Waiters : waiter[t] = "blocked" => Visiting # {} \/ finishing > 0

(* "The Lockdown returns once all Guests' Visits have completed", and an   *)
(* Unlock at once (interface.go), unless the process dies of a panic.      *)
GuardIsAnswered == guard # "idle" ~> guard = "idle" \/ crashed

(* After Kill the fortress ends, and nobody is left blocked in it.         *)
KillEnds ==
  /\ dying ~> loop = "dead" \/ crashed
  /\ \A g \in Guests : dying /\ guest[g] # "idle" ~> guest[g] = "idle" \/ crashed

(* A panic needs an aborted Lockdown: when a goroutine finds the WaitGroup *)
(* in use again, one that was woken waits for a Lockdown that is no longer *)
(* in progress; the guard's own wait and the loop's never suffice.         *)
PanicNeedsAbort ==
  crashed => \E t \in Waiters \ {0} :
    waiter[t] = "woken" /\ ~(guard = "answering" /\ ~unlocking /\ t = tickets)

(* The loop "remain[s] ... functional in the face of aborted Lockdowns"    *)
(* (fortress.go): no goroutine panics.                                     *)
NeverPanics == ~crashed
=============================================================================
