------------------------------ MODULE Informer ------------------------------
(***************************************************************************)
(* kube's informer: a Reflector lists and watches the objects of an API    *)
(* server and feeds a DeltaFIFO; the processLoop of a Controller pops the  *)
(* deltas of one object at a time and applies them to clientState.         *)
(*                                                                         *)
(* Two goroutines share the FIFO (under its lock) and clientState, which   *)
(* has a lock of its own: Delete and Replace look at clientState while     *)
(* deltas that were popped are still to be applied.                        *)
(***************************************************************************)
EXTENDS Integers, Sequences, FiniteSets

CONSTANTS
  Keys,
  Resyncs,     \* resyncPeriod is not zero
  MaxWrites,   \* bound: writes to the API server
  MaxBehind,   \* bound: lists that are older than what the reflector has seen
  MaxDeltas    \* bound: the reflector lists again only if no object has this many deltas

ASSUME KeysAssumption == Keys # {} /\ IsFiniteSet(Keys)
ASSUME ResyncsAssumption == Resyncs \in BOOLEAN
ASSUME BoundsAssumption == MaxWrites \in Nat /\ MaxBehind \in Nat /\ MaxDeltas \in Nat \ {0}

VARIABLES
  world,      \* world[i]: the objects at resource version i, each by the version of its last write
  phase,      \* where ListAndWatch is
  rv,         \* its resourceVersion
  items,      \* items[k]: the deltas of k, empty if k is not in the map
  queue,
  populated,
  initialPopulationCount,
  popped,     \* the deltas that Process works on
  store,      \* clientState
  owed,       \* history: the keys of the first list that were never processed
  behind      \* history: the lists that were older than what the reflector had seen

server    == world
reflector == <<phase, rv>>
fifo      == <<items, queue, populated, initialPopulationCount>>
consumer  == <<popped, store>>
history   == <<owed, behind>>
vars      == <<server, reflector, fifo, consumer, history>>

Absent == 0
Nobody == [k \in Keys |-> Absent]

UnknownState == 0   \* the object of a DeletedFinalStateUnknown

Delta == [type : {"Sync", "Added", "Updated", "Deleted"}, obj : Nat]
Idle  == [deltas |-> <<>>, key |-> CHOOSE k \in Keys : TRUE]

Init ==
  /\ world = <<Nobody>>
  /\ phase = "list" /\ rv = 1
  /\ items = [k \in Keys |-> <<>>] /\ queue = <<>>
  /\ populated = FALSE /\ initialPopulationCount = 0
  /\ popped = Idle /\ store = Nobody
  /\ owed = {} /\ behind = 0

-----------------------------------------------------------------------------
(* The API server.  Every write has a resource version of its own.         *)

Now == Len(world)

Put(k) ==
  /\ Now <= MaxWrites
  /\ world' = Append(world, [world[Now] EXCEPT ![k] = Now + 1])
  /\ UNCHANGED <<reflector, fifo, consumer, history>>

Withdraw(k) ==
  /\ Now <= MaxWrites /\ world[Now][k] # Absent
  /\ world' = Append(world, [world[Now] EXCEPT ![k] = Absent])
  /\ UNCHANGED <<reflector, fifo, consumer, history>>

(* The event that leads from version i to the next one.                    *)
EventKey(i) == CHOOSE k \in Keys : world[i + 1][k] # world[i][k]

-----------------------------------------------------------------------------
(* The DeltaFIFO.  clientState is its knownObjects; it has no compressor.  *)

(* Defect: any two deltas of the same type are taken for duplicates.       *)
dedupAnyDeltas(deltas) ==
  LET n == Len(deltas)
  IN  IF n > 1 /\ deltas[n].type = deltas[n - 1].type THEN SubSeq(deltas, 1, n - 1) ELSE deltas

(* Of two deletions in a row the one that knows the final state is kept.   *)
dedupDeltas(deltas) ==
  LET n == Len(deltas)
  IN  IF n > 1 /\ deltas[n].type = "Deleted" /\ deltas[n - 1].type = "Deleted"
      THEN Append(SubSeq(deltas, 1, n - 2),
                  IF deltas[n - 1].obj = UnknownState THEN deltas[n] ELSE deltas[n - 1])
      ELSE deltas

Queued(k, type, obj) == dedupDeltas(Append(items[k], [type |-> type, obj |-> obj]))

queueActionLocked(k, type, obj) ==
  /\ items' = [items EXCEPT ![k] = Queued(k, type, obj)]
  /\ queue' = IF items[k] = <<>> THEN Append(queue, k) ELSE queue

Known == {k \in Keys : store[k] # Absent}

Offer(k, type, obj) ==
  /\ populated' = TRUE
  /\ queueActionLocked(k, type, obj)
  /\ UNCHANGED initialPopulationCount

(* An object that is not in clientState is taken for deleted already.      *)
Delete(k, obj) ==
  \/ k \in Known /\ Offer(k, "Deleted", obj)
  \/ k \notin Known /\ populated' = TRUE /\ UNCHANGED <<items, queue, initialPopulationCount>>

(* The orders in which a slice or a map may hold the keys in S.            *)
Orders(S) ==
  {s \in [1..Cardinality(S) -> S] : /\ \A k \in S : \E i \in DOMAIN s : s[i] = k
                                    /\ \A i, j \in DOMAIN s : s[i] = s[j] => i = j}

(* Defect: the keys of the list are not inserted in keys.                  *)
MissingAll(Listed) == Known

(* Defect: deletions are not detected.                                     *)
MissingNone(Listed) == {}

(* The known objects that a list does not have.                            *)
Missing(Listed) == Known \ Listed

(* Before the first list nothing is queued: listed is then all of it.      *)
Unqueued(S) == {k \in S : items[k] = <<>>}

Replace(list) ==
  LET Listed == {k \in Keys : list[k] # Absent}
      Gone   == Missing(Listed)
  IN  /\ populated' = TRUE
      /\ items' = [k \in Keys |-> CASE k \in Gone   -> Queued(k, "Deleted", UnknownState)
                                    [] k \in Listed -> Queued(k, "Sync", list[k])
                                    [] OTHER        -> items[k]]
      /\ \E listed \in Orders(Unqueued(Listed)), gone \in Orders(Unqueued(Gone)) :
           /\ queue' = queue \o listed \o gone
           /\ initialPopulationCount' = IF populated THEN initialPopulationCount
                                                     ELSE Len(listed)
      /\ owed' = IF populated THEN owed ELSE Listed

(* Defect: the first list counts as soon as it is queued.                  *)
HasSyncedEarly == populated

HasSynced == populated /\ initialPopulationCount = 0

-----------------------------------------------------------------------------
(* The Reflector: ListAndWatch, called again a second after it returns.    *)
(* A List that fails, and a Watch that is refused, are tried again and     *)
(* change nothing.                                                         *)

Goes(place) == phase' = place

(* The list is that of any version, as it is served from a cache: also of  *)
(* one that is older than what was seen before, because ListAndWatch asks  *)
(* for "0" and forgets how far it had come, and another API server may     *)
(* answer.                                                                 *)
List ==
  /\ phase = "list" /\ \A k \in Keys : Len(items[k]) < MaxDeltas
  /\ rv' \in 1..Now
  /\ rv' < rv => behind < MaxBehind
  /\ behind' = IF rv' < rv THEN behind + 1 ELSE behind
  /\ Goes("sync") /\ UNCHANGED <<server, fifo, consumer, owed>>

syncWith ==
  /\ phase = "sync" /\ Replace(world[rv])
  /\ Goes("dial") /\ UNCHANGED <<server, rv, consumer, behind>>

Watch ==
  /\ phase = "dial" /\ Goes("watch")
  /\ UNCHANGED <<server, rv, fifo, consumer, history>>

WatchFails ==
  /\ phase = "dial" /\ Goes("list")
  /\ UNCHANGED <<server, rv, fifo, consumer, history>>

watchHandler ==
  LET k == EventKey(rv)
  IN  /\ phase = "watch" /\ rv < Now
      /\ CASE world[rv][k] = Absent     -> Offer(k, "Added", rv + 1)
           [] world[rv + 1][k] = Absent -> Delete(k, rv + 1)
           [] OTHER                     -> Offer(k, "Updated", rv + 1)
      /\ rv' = rv + 1
      /\ UNCHANGED <<server, phase, consumer, history>>

(* The watch ends with its timeout, and another one starts where it ended. *)
WatchCloses ==
  /\ phase = "watch" /\ Goes("dial")
  /\ UNCHANGED <<server, rv, fifo, consumer, history>>

(* The time for a resync, which comes only if there is a resyncPeriod.     *)
Resync ==
  /\ phase = "watch" /\ Resyncs /\ Goes("list")
  /\ UNCHANGED <<server, rv, fifo, consumer, history>>

(* An error event, or a very short watch.                                  *)
WatchBreaks ==
  /\ phase = "watch" /\ Goes("list")
  /\ UNCHANGED <<server, rv, fifo, consumer, history>>

Stop ==
  /\ phase \in {"list", "watch"} /\ Goes("stopped")
  /\ UNCHANGED <<server, rv, fifo, consumer, history>>

-----------------------------------------------------------------------------
(* The Controller's processLoop.                                           *)

(* Defect: the popped deltas stay in the map.                              *)
PopKeepsItem ==
  /\ popped.deltas = <<>> /\ queue # <<>>
  /\ queue' = Tail(queue)
  /\ initialPopulationCount' =
       IF initialPopulationCount > 0 THEN initialPopulationCount - 1 ELSE 0
  /\ popped' = [key |-> Head(queue), deltas |-> items[Head(queue)]]
  /\ UNCHANGED <<server, reflector, items, populated, store, history>>

Pop ==
  /\ popped.deltas = <<>> /\ queue # <<>>
  /\ queue' = Tail(queue)
  /\ initialPopulationCount' =
       IF initialPopulationCount > 0 THEN initialPopulationCount - 1 ELSE 0
  /\ items' = [items EXCEPT ![Head(queue)] = <<>>]
  /\ popped' = [key |-> Head(queue), deltas |-> items[Head(queue)]]
  /\ UNCHANGED <<server, reflector, populated, store, history>>

Effect(delta) == IF delta.type = "Deleted" THEN Absent ELSE delta.obj

(* Defect: from newest to oldest.                                          *)
ProcessBackwards ==
  /\ popped.deltas # <<>>
  /\ store' = [store EXCEPT ![popped.key] = Effect(popped.deltas[Len(popped.deltas)])]
  /\ popped' = [popped EXCEPT !.deltas = SubSeq(@, 1, Len(@) - 1)]
  /\ owed' = owed \ {popped.key}
  /\ UNCHANGED <<server, reflector, fifo, behind>>

(* One turn of Process's loop over the deltas, from oldest to newest.      *)
Process ==
  /\ popped.deltas # <<>>
  /\ store' = [store EXCEPT ![popped.key] = Effect(Head(popped.deltas))]
  /\ popped' = [popped EXCEPT !.deltas = Tail(@)]
  /\ owed' = owed \ {popped.key}
  /\ UNCHANGED <<server, reflector, fifo, behind>>

-----------------------------------------------------------------------------
Next ==
  \/ \E k \in Keys : Put(k) \/ Withdraw(k)
  \/ List \/ syncWith \/ Watch \/ WatchFails \/ watchHandler \/ WatchCloses
  \/ Resync \/ WatchBreaks \/ Stop
  \/ Pop \/ Process

(* The server answers from time to time, and the select of watchHandler    *)
(* does not overlook one of its channels for ever: neither the events nor, *)
(* if there is one, the timer of the resync.                               *)
Spec ==
  /\ Init /\ [][Next]_vars
  /\ SF_vars(List) /\ WF_vars(syncWith) /\ SF_vars(Watch)
  /\ SF_vars(watchHandler) /\ SF_vars(Resync)
  /\ WF_vars(Pop) /\ WF_vars(Process)

-----------------------------------------------------------------------------
(* Properties.                                                             *)

(* Every variable keeps its type; initialPopulationCount, a Go int that    *)
(* Pop decrements, never goes below zero.                                  *)
TypeOK ==
  /\ world \in Seq([Keys -> Nat]) /\ Now \in 1..(MaxWrites + 1)
  /\ phase \in {"list", "sync", "dial", "watch", "stopped"} /\ rv \in 1..Now
  /\ items \in [Keys -> Seq(Delta)] /\ queue \in Seq(Keys)
  /\ populated \in BOOLEAN /\ initialPopulationCount \in Nat
  /\ popped \in [key : Keys, deltas : Seq(Delta)] /\ store \in [Keys -> Nat]
  /\ owed \subseteq Keys /\ behind \in 0..MaxBehind

(* What clientState will hold of k once all that is queued is applied.     *)
Outcome(k) ==
  IF items[k] # <<>> THEN Effect(items[k][Len(items[k])])
  ELSE IF popped.deltas # <<>> /\ popped.key = k
       THEN Effect(popped.deltas[Len(popped.deltas)])
       ELSE store[k]

Synced == phase \in {"dial", "watch"}

(* What the comment on items and queue asks for ("items in the set are in  *)
(* the queue and vice versa", delta_fifo.go:97): each key that has deltas  *)
(* is in the queue exactly once, so that Pop never finds a key without any *)
(* and no deltas are left behind.                                          *)
QueueMatchesItems ==
  /\ \A k \in Keys : items[k] # <<>> <=> \E i \in DOMAIN queue : queue[i] = k
  /\ \A i, j \in DOMAIN queue : queue[i] = queue[j] => i = j

(* However lists, watch events and the processing of popped deltas are     *)
(* interleaved: the deltas on their way end, for each object that exists   *)
(* at the version the reflector has reached, with exactly that state.      *)
LiveObjectsArrive ==
  Synced => \A k \in Keys : world[rv][k] # Absent => Outcome(k) = world[rv][k]

(* HasSynced says that "the first batch of items inserted by Replace() has *)
(* been popped" (delta_fifo.go:151): once it holds, each of them has been  *)
(* processed, except the one that Process may be busy with.                *)
SyncedMeansListed == HasSynced => owed \subseteq {popped.key}

(* clientState returns to an older state of an object only after a list    *)
(* that was older than what the reflector had seen, which nothing in       *)
(* ListAndWatch excludes; otherwise never, however lists are delivered     *)
(* behind events, or events behind a list.                                 *)
Forward ==
  behind = 0 => \A k \in Keys : store'[k] # Absent => store'[k] >= store[k]
StoreMovesForward == [][Forward]_vars

(* Unless a list was older than what the reflector had seen (Replace then  *)
(* deletes what that list does not have yet), an object leaves clientState *)
(* only if the server deleted it after the state that clientState had: no  *)
(* list from a cache that is merely not current, and no deletion that was  *)
(* queued before the object was created again, removes one that exists.    *)
LeavesOnlyDeleted ==
  \A k \in Keys : behind = 0 /\ store[k] # Absent /\ store'[k] = Absent
     => \E i \in 1..rv : i > store[k] /\ world[i][k] = Absent
DeletesOnlyDeleted == [][LeavesOnlyDeleted]_vars

(* The only way to a wrong outcome: one that is wrong after a list or an   *)
(* event was so before, or begins when the deletion of an object arrives   *)
(* while deltas of it are on their way and clientState does not have it,   *)
(* so that Delete and Replace take it for deleted (delta_fifo.go:192).  In *)
(* particular a list that finds everything processed repairs every object. *)
Wrong(k) == Outcome(k) # world[rv][k]
GhostsBegin ==
  \A k \in Keys : Synced' /\ Wrong(k)' =>
     \/ Synced /\ Wrong(k)
     \/ k \notin Known /\ Outcome(k) # Absent /\ world'[rv'][k] = Absent
GhostsAreUnknown == [][GhostsBegin]_vars

(* With a resyncPeriod, once nobody writes any more and lists are no       *)
(* longer older than what was seen, clientState becomes what the server    *)
(* has and stays so, deleted objects included, because the reflector lists *)
(* again and again.  (Without one a ghost may stay for ever.)              *)
Converges == Resyncs => <>[](store = world[Now]) \/ <>(phase = "stopped")

Caught == phase = "watch" /\ rv = Now /\ queue = <<>> /\ popped.deltas = <<>>

(* "You want to process the deletion of objects" (delta_fifo.go:73): when  *)
(* the reflector has seen every event and every delta is processed, the    *)
(* deleted objects are gone from clientState.                              *)
DeletionsProcessed == Caught => store = world[Now]

=============================================================================
