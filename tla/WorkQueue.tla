----------------------------- MODULE WorkQueue -----------------------------
(***************************************************************************)
(* kube's pkg/util/workqueue: a queue of items to process, shared by       *)
(* producers and by workers that loop over Get and Done.                   *)
(*                                                                         *)
(* Every method holds the lock of q.cond from beginning to end, so it is   *)
(* one step; only Get lets go of it, in q.cond.Wait.  A worker that has    *)
(* been woken is at "get" again: it has to take the lock and to look again *)
(* at the queue, which others may have emptied in the meantime.            *)
(***************************************************************************)
EXTENDS Naturals, Sequences, FiniteSets

CONSTANTS
  Items,
  Workers,
  Quitters,  \* the workers that return when Get tells them to (queue_test.go);
             \* the others loop like the controllers' worker methods
  NoItem

ASSUME WorkersAssumption  == IsFiniteSet(Workers) /\ Workers # {}
ASSUME QuittersAssumption == Quitters \subseteq Workers
ASSUME NoItemAssumption   == NoItem \notin Items

VARIABLES
  queue, dirty, processing, shuttingDown,  \* the fields of Type
  pc,    \* of each worker: "get", "wait" (in q.cond.Wait), "work", "ended"
  item   \* the item it works on

vars == <<queue, dirty, processing, shuttingDown, pc, item>>

At(p) == {w \in Workers : pc[w] = p}

Init ==
  /\ queue = <<>> /\ dirty = {} /\ processing = {} /\ shuttingDown = FALSE
  /\ pc = [w \in Workers |-> "get"]
  /\ item = [w \in Workers |-> NoItem]

(* sync.Cond (external): wake one of the workers of f that wait, or all.   *)
Signal(f) ==
  LET waiting == {w \in Workers : f[w] = "wait"} IN
  IF waiting = {} THEN {f} ELSE {[f EXCEPT ![w] = "get"] : w \in waiting}

Broadcast(f) == [w \in Workers |-> IF f[w] = "wait" THEN "get" ELSE f[w]]

(* Defect: an item that is being processed is queued right away.           *)
AddWhileProcessing(i) ==
  /\ ~shuttingDown /\ i \notin dirty
  /\ dirty' = dirty \cup {i}
  /\ queue' = Append(queue, i) /\ pc' \in Signal(pc)
  /\ UNCHANGED <<processing, shuttingDown, item>>

(* Defect: no worker is woken for a new item.                              *)
AddWithoutSignal(i) ==
  /\ ~shuttingDown /\ i \notin dirty
  /\ dirty' = dirty \cup {i}
  /\ queue' = IF i \in processing THEN queue ELSE Append(queue, i)
  /\ UNCHANGED <<processing, shuttingDown, pc, item>>

(* Defect: items are accepted after ShutDown.                              *)
AddAfterShutDown(i) ==
  /\ i \notin dirty
  /\ dirty' = dirty \cup {i}
  /\ IF i \in processing
     THEN UNCHANGED <<queue, pc>>
     ELSE queue' = Append(queue, i) /\ pc' \in Signal(pc)
  /\ UNCHANGED <<processing, shuttingDown, item>>

(* Returns without effect after ShutDown, and for an item that is dirty.   *)
Add(i) ==
  /\ ~shuttingDown /\ i \notin dirty
  /\ dirty' = dirty \cup {i}
  /\ IF i \in processing
     THEN UNCHANGED <<queue, pc>>
     ELSE queue' = Append(queue, i) /\ pc' \in Signal(pc)
  /\ UNCHANGED <<processing, shuttingDown, item>>

(* Get, from the lock, or from waking up, to the next Wait or the return.  *)
GetWaits(w) ==
  /\ pc[w] = "get" /\ queue = <<>> /\ ~shuttingDown
  /\ pc' = [pc EXCEPT ![w] = "wait"]
  /\ UNCHANGED <<queue, dirty, processing, shuttingDown, item>>

GetItem(w) ==
  /\ pc[w] = "get" /\ queue # <<>>
  /\ item' = [item EXCEPT ![w] = Head(queue)]
  /\ queue' = Tail(queue)
  /\ processing' = processing \cup {Head(queue)}
  /\ dirty' = dirty \ {Head(queue)}
  /\ pc' = [pc EXCEPT ![w] = "work"]
  /\ UNCHANGED shuttingDown

(* Get returns quit.  The worker methods of the controllers return from    *)
(* the function literal in their loop only, and call Get again.            *)
GetQuits(w) ==
  /\ pc[w] = "get" /\ queue = <<>> /\ shuttingDown
  /\ pc' = [pc EXCEPT ![w] = IF w \in Quitters THEN "ended" ELSE "get"]
  /\ UNCHANGED <<queue, dirty, processing, shuttingDown, item>>

(* Defect: Done forgets the items marked dirty in the meantime.            *)
DoneForgets(w) ==
  /\ pc[w] = "work"
  /\ processing' = processing \ {item[w]}
  /\ item' = [item EXCEPT ![w] = NoItem]
  /\ pc' = [pc EXCEPT ![w] = "get"]
  /\ UNCHANGED <<queue, dirty, shuttingDown>>

(* The worker calls Done for its item, and goes back to Get.               *)
Done(w) ==
  /\ pc[w] = "work"
  /\ processing' = processing \ {item[w]}
  /\ IF item[w] \in dirty
     THEN /\ queue' = Append(queue, item[w])
          /\ pc' \in Signal([pc EXCEPT ![w] = "get"])
     ELSE /\ pc' = [pc EXCEPT ![w] = "get"]
          /\ UNCHANGED queue
  /\ item' = [item EXCEPT ![w] = NoItem]
  /\ UNCHANGED <<dirty, shuttingDown>>

(* Defect: ShutDown wakes one worker only.                                 *)
ShutDownSignal ==
  /\ shuttingDown' = TRUE
  /\ pc' \in Signal(pc)
  /\ UNCHANGED <<queue, dirty, processing, item>>

ShutDown ==
  /\ shuttingDown' = TRUE
  /\ pc' = Broadcast(pc)
  /\ UNCHANGED <<queue, dirty, processing, item>>

Next ==
  \/ \E i \in Items : Add(i)
  \/ \E w \in Workers : GetWaits(w) \/ GetItem(w) \/ GetQuits(w) \/ Done(w)
  \/ ShutDown

(* Workers are scheduled, and every item's handler returns.                *)
Fairness ==
  \A w \in Workers :
    WF_vars(GetWaits(w) \/ GetItem(w) \/ GetQuits(w)) /\ WF_vars(Done(w))

Spec == Init /\ [][Next]_vars /\ Fairness

-----------------------------------------------------------------------------
TypeOK ==
  /\ queue \in Seq(Items)
  /\ dirty \subseteq Items /\ processing \subseteq Items
  /\ shuttingDown \in BOOLEAN
  /\ pc \in [Workers -> {"get", "wait", "work", "ended"}]
  /\ item \in [Workers -> Items \cup {NoItem}]
  /\ \A w \in Workers : pc[w] = "work" <=> item[w] # NoItem

Queued == {queue[k] : k \in DOMAIN queue}

(* "Every element of queue should be in the dirty set and not in the       *)
(* processing set" (queue.go), it is there once, and a dirty item that is  *)
(* not queued is being processed, so that its Done will queue it.          *)
QueueConsistent ==
  /\ Queued = dirty \ processing
  /\ \A j, k \in DOMAIN queue : queue[j] = queue[k] => j = k

(* "A single item will not be processed multiple times concurrently"       *)
(* (doc.go), also when it is added again while it is processed.            *)
OneWorkerPerItem ==
  \A v, w \in At("work") : item[v] = item[w] => v = w

(* No worker sleeps in Wait while an item is queued that no awake worker   *)
(* is about to take: a Signal is never lost to a worker that finds the     *)
(* queue emptied by another one.                                           *)
NoSleepOverWork ==
  At("wait") # {} => Len(queue) <= Cardinality(At("get")) /\ ~shuttingDown

(* "As soon as the worker goroutines have drained the existing items in    *)
(* the queue, they will be instructed to exit" (queue.go): when the last   *)
(* worker has left, nothing is queued, dirty or in processing.             *)
DrainedAtExit ==
  At("ended") = Workers => queue = <<>> /\ dirty = {} /\ processing = {}

(* The workers that do as they are told end after ShutDown.                *)
QuittersEnd == shuttingDown ~> Quitters \subseteq At("ended")

(* "If shutdown = true, the caller should end their goroutine" (queue.go): *)
(* every worker ends after ShutDown.                                       *)
WorkersEnd == shuttingDown ~> At("ended") = Workers

(* The queue implements the set of items that doc.go describes; what is    *)
(* active is what the workers are working on.                              *)
Abstract == INSTANCE WorkSet WITH
  pending <- dirty, active <- {item[w] : w \in At("work")}, closed <- shuttingDown

(* Refinement of the safety part: every step of the queue is one of the    *)
(* set's, or none.                                                         *)
ImplementsWorkSet == Abstract!Safety

(* Refinement of the liveness part: a dirty item that nobody is working on *)
(* gets its turn, before and after the shutdown.                           *)
EveryItemProcessed == Abstract!Liveness
=============================================================================
