------------------------------ MODULE WorkSet ------------------------------
(***************************************************************************)
(* What kube's workqueue promises its users (pkg/util/workqueue/doc.go):   *)
(* a set of items to process.  An item marked any number of times before   *)
(* it is begun is processed once, it is never processed twice at the same  *)
(* time, it may be marked again while it is processed, and nothing can be  *)
(* marked after the shutdown.                                              *)
(***************************************************************************)
CONSTANT Items

VARIABLES pending, active, closed

vars == <<pending, active, closed>>

Init == pending = {} /\ active = {} /\ closed = FALSE

Mark(i) ==
  /\ ~closed
  /\ pending' = pending \cup {i}
  /\ UNCHANGED <<active, closed>>

Begin(i) ==
  /\ i \in pending \ active
  /\ pending' = pending \ {i} /\ active' = active \cup {i}
  /\ UNCHANGED closed

Finish(i) ==
  /\ i \in active
  /\ active' = active \ {i}
  /\ UNCHANGED <<pending, closed>>

Close == closed' = TRUE /\ UNCHANGED <<pending, active>>

Next == Close \/ \E i \in Items : Mark(i) \/ Begin(i) \/ Finish(i)

Safety == Init /\ [][Next]_vars

(* An item that can be begun is begun in the end.                          *)
Liveness == \A i \in Items : WF_vars(Begin(i))

Spec == Safety /\ Liveness
=============================================================================
