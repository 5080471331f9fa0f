-------------------------- MODULE WorkQueueProofs --------------------------
(***************************************************************************)
(* Proofs, for every set of items and every finite set of workers, of the  *)
(* safety properties of WorkQueue and of its refinement of WorkSet.        *)
(*                                                                         *)
(* The inductive invariant ties the three views of what is in progress     *)
(* together: the field processing, the workers' items, and the part of the *)
(* dirty set that is not queued.                                           *)
(***************************************************************************)
EXTENDS WorkQueue, FiniteSetTheorems, TLAPS

(* processing holds the items of the workers, no two of them the same.     *)
Held ==
  /\ processing = {item[w] : w \in At("work")}
  /\ OneWorkerPerItem

(* A worker ends after ShutDown only, and the last one to end leaves an    *)
(* empty queue.                                                            *)
LastEmpties ==
  /\ \A w \in Workers : pc[w] = "ended" => shuttingDown
  /\ At("ended") = Workers => queue = <<>>

Inv == TypeOK /\ QueueConsistent /\ Held

-----------------------------------------------------------------------------
(* What Signal returns: the workers as they were if none waits, or with    *)
(* one of those that wait back at "get".                                   *)
LEMMA SignalWakesOne ==
  ASSUME NEW f \in [Workers -> {"get", "wait", "work", "ended"}],
         NEW g \in Signal(f)
  PROVE  /\ g \in [Workers -> {"get", "wait", "work", "ended"}]
         /\ \A w \in Workers : g[w] # f[w] => f[w] = "wait" /\ g[w] = "get"
         /\ \/ g = f /\ \A w \in Workers : f[w] # "wait"
            \/ \E w \in Workers : f[w] = "wait" /\ g = [f EXCEPT ![w] = "get"]
BY DEF Signal

(* Broadcast leaves no worker waiting and moves no other one.              *)
LEMMA BroadcastWakesAll ==
  ASSUME NEW f \in [Workers -> {"get", "wait", "work", "ended"}]
  PROVE  /\ Broadcast(f) \in [Workers -> {"get", "wait", "work", "ended"}]
         /\ \A w \in Workers : Broadcast(f)[w] # "wait"
         /\ \A w \in Workers : Broadcast(f)[w] # f[w] => f[w] = "wait" /\ Broadcast(f)[w] = "get"
BY DEF Broadcast

(* Appending an item that is not in a sequence without duplicates.         *)
LEMMA AppendNew ==
  ASSUME NEW q \in Seq(Items), NEW i \in Items,
         \A j, k \in DOMAIN q : q[j] = q[k] => j = k,
         \A k \in DOMAIN q : q[k] # i
  PROVE  /\ Append(q, i) \in Seq(Items)
         /\ {Append(q, i)[k] : k \in DOMAIN Append(q, i)} = {q[k] : k \in DOMAIN q} \cup {i}
         /\ \A j, k \in DOMAIN Append(q, i) : Append(q, i)[j] = Append(q, i)[k] => j = k
         /\ Len(Append(q, i)) = Len(q) + 1
<1> DEFINE r == Append(q, i)
<1>1. /\ r \in Seq(Items) /\ Len(r) = Len(q) + 1
      /\ DOMAIN r = 1 .. Len(q) + 1 /\ DOMAIN q = 1 .. Len(q) /\ Len(q) \in Nat
      /\ \A k \in 1 .. Len(q) : r[k] = q[k]
      /\ r[Len(q) + 1] = i
  OBVIOUS
<1> HIDE DEF r
<1>2. {r[k] : k \in DOMAIN r} = {q[k] : k \in DOMAIN q} \cup {i}
  <2>1. ASSUME NEW k \in DOMAIN r PROVE r[k] \in {q[j] : j \in DOMAIN q} \cup {i}
    <3>1. CASE k = Len(q) + 1 BY <1>1, <3>1
    <3>2. CASE k \in 1 .. Len(q) BY <1>1, <3>2
    <3> QED BY <3>1, <3>2, <1>1
  <2>2. i \in {r[k] : k \in DOMAIN r} BY <1>1
  <2>3. ASSUME NEW k \in DOMAIN q PROVE q[k] \in {r[j] : j \in DOMAIN r}
    BY <1>1
  <2> QED BY <2>1, <2>2, <2>3
<1>3. \A j, k \in DOMAIN r : r[j] = r[k] => j = k
  BY <1>1
<1> QED BY <1>1, <1>2, <1>3 DEF r

(* Taking the head off a sequence without duplicates.                      *)
LEMMA TailRest ==
  ASSUME NEW q \in Seq(Items), q # <<>>,
         \A j, k \in DOMAIN q : q[j] = q[k] => j = k
  PROVE  /\ Head(q) \in Items /\ Tail(q) \in Seq(Items)
         /\ Head(q) \in {q[k] : k \in DOMAIN q}
         /\ {Tail(q)[k] : k \in DOMAIN Tail(q)} = {q[k] : k \in DOMAIN q} \ {Head(q)}
         /\ \A j, k \in DOMAIN Tail(q) : Tail(q)[j] = Tail(q)[k] => j = k
         /\ Len(Tail(q)) = Len(q) - 1
<1> DEFINE r == Tail(q)
<1>1. /\ r \in Seq(Items) /\ Len(r) = Len(q) - 1 /\ Len(q) \in Nat \ {0}
      /\ DOMAIN r = 1 .. Len(q) - 1 /\ DOMAIN q = 1 .. Len(q)
      /\ \A k \in 1 .. Len(q) - 1 : r[k] = q[k + 1]
      /\ Head(q) = q[1] /\ Head(q) \in Items
  OBVIOUS
<1> HIDE DEF r
<1>2. {r[k] : k \in DOMAIN r} = {q[k] : k \in DOMAIN q} \ {q[1]}
  <2>1. ASSUME NEW k \in DOMAIN r PROVE r[k] \in {q[j] : j \in DOMAIN q} \ {q[1]}
    <3>1. k + 1 \in DOMAIN q /\ 1 \in DOMAIN q /\ k + 1 # 1 /\ r[k] = q[k + 1] BY <1>1
    <3> QED BY <3>1
  <2>2. ASSUME NEW k \in DOMAIN q, q[k] # q[1] PROVE q[k] \in {r[j] : j \in DOMAIN r}
    <3>1. k # 1 BY <2>2
    <3>2. k - 1 \in DOMAIN r /\ r[k - 1] = q[k] BY <1>1, <3>1
    <3> QED BY <3>2
  <2> QED BY <2>1, <2>2
<1>3. ASSUME NEW j \in DOMAIN r, NEW k \in DOMAIN r, r[j] = r[k] PROVE j = k
  <2>1. j \in Nat /\ k \in Nat /\ j + 1 \in DOMAIN q /\ k + 1 \in DOMAIN q BY <1>1
  <2>2. q[j + 1] = q[k + 1] BY <1>1, <1>3
  <2>3. j + 1 = k + 1 BY <2>1, <2>2
  <2> QED BY <2>1, <2>3
<1>4. Head(q) \in {q[k] : k \in DOMAIN q} BY <1>1
<1>5. {r[k] : k \in DOMAIN r} = {q[k] : k \in DOMAIN q} \ {Head(q)} BY <1>1, <1>2
<1> QED BY ONLY <1>1, <1>3, <1>4, <1>5 DEF r

-----------------------------------------------------------------------------
(* The queue starts empty, with every worker about to call Get.            *)
LEMMA InitInv == Init => Inv
<1> SUFFICES ASSUME Init PROVE Inv OBVIOUS
<1>1. shuttingDown \in BOOLEAN BY Zenon DEF Init
<1>2. At("work") = {} BY DEF Init, At
<1>3. TypeOK BY <1>1 DEF Init, TypeOK
<1>4. QueueConsistent BY DEF Init, QueueConsistent, Queued
<1>5. Held BY <1>2 DEF Init, Held, OneWorkerPerItem
<1> QED BY <1>3, <1>4, <1>5 DEF Inv

(* Every method of the queue, and the wait in Get, keeps the invariant.    *)
LEMMA NextInv == Inv /\ [Next]_vars => Inv'
<1> SUFFICES ASSUME Inv, [Next]_vars PROVE Inv' OBVIOUS
<1> USE NoItemAssumption DEF Inv
<1>1. ASSUME NEW i \in Items, Add(i) PROVE Inv'
  <2>1. /\ dirty' = dirty \cup {i} /\ i \notin dirty /\ processing' = processing
        /\ item' = item
    BY <1>1 DEF Add
  <2>2. shuttingDown' \in BOOLEAN BY <1>1, Zenon DEF Add, TypeOK
  <2>3. /\ pc' \in [Workers -> {"get", "wait", "work", "ended"}]
        /\ \A w \in Workers : pc'[w] # pc[w] => pc[w] = "wait" /\ pc'[w] = "get"
    BY <1>1, SignalWakesOne DEF Add, TypeOK
  <2>4. queue' \in Seq(Items) /\ QueueConsistent'
    <3>1. CASE i \in processing
      <4>1. queue' = queue BY <1>1, <3>1 DEF Add
      <4> QED BY <2>1, <3>1, <4>1 DEF QueueConsistent, Queued, TypeOK
    <3>2. CASE i \notin processing
      <4>1. queue' = Append(queue, i) BY <1>1, <3>2 DEF Add
      <4>2. \A k \in DOMAIN queue : queue[k] # i
        BY <2>1 DEF QueueConsistent, Queued
      <4>3. /\ queue \in Seq(Items) /\ i \in Items
            /\ \A j, k \in DOMAIN queue : queue[j] = queue[k] => j = k
        BY Zenon DEF TypeOK, QueueConsistent
      <4>4. /\ {Append(queue, i)[k] : k \in DOMAIN Append(queue, i)} = Queued \cup {i}
            /\ \A j, k \in DOMAIN Append(queue, i) :
                 Append(queue, i)[j] = Append(queue, i)[k] => j = k
        BY ONLY <4>2, <4>3, AppendNew, Zenon DEF Queued
      <4>5. /\ Queued' = Queued \cup {i}
            /\ \A j, k \in DOMAIN queue' : queue'[j] = queue'[k] => j = k
        BY <4>1, <4>4, Zenon DEF Queued
      <4>6. queue' \in Seq(Items) BY <4>1, <4>3
      <4> QED BY <2>1, <3>2, <4>5, <4>6 DEF QueueConsistent
    <3> QED BY <3>1, <3>2
  <2>5. TypeOK' BY <2>1, <2>2, <2>3, <2>4 DEF TypeOK
  <2>6. At("work")' = At("work") BY <2>3 DEF At, TypeOK
  <2>7. Held' BY <2>1, <2>6 DEF Held, OneWorkerPerItem
  <2> QED BY <2>4, <2>5, <2>7
<1>2. ASSUME NEW w \in Workers, GetItem(w) PROVE Inv'
  <2> DEFINE i == Head(queue)
  <2>1. /\ pc[w] = "get" /\ queue # <<>> /\ item' = [item EXCEPT ![w] = i]
        /\ queue' = Tail(queue) /\ processing' = processing \cup {i}
        /\ dirty' = dirty \ {i} /\ pc' = [pc EXCEPT ![w] = "work"]
    BY <1>2 DEF GetItem
  <2>2. shuttingDown' \in BOOLEAN BY <1>2, Zenon DEF GetItem, TypeOK
  <2>3. /\ i \in Items /\ queue' \in Seq(Items) /\ i \in Queued /\ Queued' = Queued \ {i}
        /\ \A j, k \in DOMAIN queue' : queue'[j] = queue'[k] => j = k
    <3>1. /\ queue \in Seq(Items) /\ queue # <<>>
          /\ \A j, k \in DOMAIN queue : queue[j] = queue[k] => j = k
      BY <2>1 DEF TypeOK, QueueConsistent
    <3>2. /\ Head(queue) \in Items /\ Tail(queue) \in Seq(Items) /\ Head(queue) \in Queued
          /\ {Tail(queue)[k] : k \in DOMAIN Tail(queue)} = Queued \ {Head(queue)}
          /\ \A j, k \in DOMAIN Tail(queue) : Tail(queue)[j] = Tail(queue)[k] => j = k
      BY ONLY <3>1, TailRest, Zenon DEF Queued
    <3> QED BY <2>1, <3>2, Zenon DEF Queued
  <2> HIDE DEF i
  <2>4. i \in dirty /\ i \notin processing BY <2>3 DEF QueueConsistent
  <2>5. i # NoItem BY <2>3
  <2>6. TypeOK' BY <2>1, <2>2, <2>3, <2>5 DEF TypeOK
  <2>7. QueueConsistent' BY <2>1, <2>3, <2>4 DEF QueueConsistent
  <2>8. At("work")' = At("work") \cup {w} BY <2>1 DEF At, TypeOK
  <2>9. /\ item'[w] = i /\ w \notin At("work")
        /\ \A v \in At("work") : item'[v] = item[v] /\ item[v] # i
    BY <2>1, <2>4 DEF At, TypeOK, Held
  <2>10. Held' BY <2>1, <2>8, <2>9 DEF Held, OneWorkerPerItem
  <2> QED BY <2>6, <2>7, <2>10
<1>3. ASSUME NEW w \in Workers, GetWaits(w) \/ GetQuits(w) PROVE Inv'
  <2>1. /\ UNCHANGED <<queue, dirty, processing, item>>
        /\ pc[w] = "get"
        /\ \E p \in {"get", "wait", "ended"} : pc' = [pc EXCEPT ![w] = p]
    BY <1>3 DEF GetWaits, GetQuits
  <2>2. shuttingDown' \in BOOLEAN BY <1>3, Zenon DEF GetWaits, GetQuits, TypeOK
  <2>3. TypeOK' BY <2>1, <2>2 DEF TypeOK
  <2>4. QueueConsistent' BY <2>1 DEF QueueConsistent, Queued
  <2>5. At("work")' = At("work") BY <2>1 DEF At, TypeOK
  <2>6. Held' BY <2>1, <2>5 DEF Held, OneWorkerPerItem
  <2> QED BY <2>3, <2>4, <2>6
<1>4. ASSUME NEW w \in Workers, Done(w) PROVE Inv'
  <2> DEFINE i == item[w]
             f == [pc EXCEPT ![w] = "get"]
  <2>1. /\ pc[w] = "work" /\ processing' = processing \ {i} /\ dirty' = dirty
        /\ item' = [item EXCEPT ![w] = NoItem]
    BY <1>4 DEF Done
  <2>2. shuttingDown' \in BOOLEAN BY <1>4, Zenon DEF Done, TypeOK
  <2>3. f \in [Workers -> {"get", "wait", "work", "ended"}] BY DEF TypeOK
  <2>4. /\ pc' \in [Workers -> {"get", "wait", "work", "ended"}]
        /\ \A v \in Workers : pc'[v] # f[v] => f[v] = "wait" /\ pc'[v] = "get"
    BY <1>4, <2>3, SignalWakesOne DEF Done
  <2>5. i \in Items /\ i \in processing /\ w \in At("work")
    BY <2>1 DEF TypeOK, Held, At
  <2>6. queue' \in Seq(Items) /\ QueueConsistent'
    <3>1. CASE i \in dirty
      <4>1. queue' = Append(queue, i) BY <1>4, <3>1 DEF Done
      <4>2. \A k \in DOMAIN queue : queue[k] # i
        BY <2>5 DEF QueueConsistent, Queued
      <4> HIDE DEF i
      <4>3. /\ queue \in Seq(Items) /\ i \in Items
            /\ \A j, k \in DOMAIN queue : queue[j] = queue[k] => j = k
        BY <2>5, Zenon DEF TypeOK, QueueConsistent
      <4>4. /\ {Append(queue, i)[k] : k \in DOMAIN Append(queue, i)} = Queued \cup {i}
            /\ \A j, k \in DOMAIN Append(queue, i) :
                 Append(queue, i)[j] = Append(queue, i)[k] => j = k
        BY ONLY <4>2, <4>3, AppendNew, Zenon DEF Queued
      <4>5. /\ Queued' = Queued \cup {i}
            /\ \A j, k \in DOMAIN queue' : queue'[j] = queue'[k] => j = k
        BY <4>1, <4>4, Zenon DEF Queued
      <4>6. queue' \in Seq(Items) BY <4>1, <4>3
      <4> QED BY <2>1, <2>5, <3>1, <4>5, <4>6 DEF QueueConsistent
    <3>2. CASE i \notin dirty
      <4>1. queue' = queue BY <1>4, <3>2 DEF Done
      <4> QED BY <2>1, <3>2, <4>1 DEF QueueConsistent, Queued, TypeOK
    <3> QED BY <3>1, <3>2
  <2>7. pc'[w] = "get" BY <2>4 DEF TypeOK
  <2>8. TypeOK' BY <2>1, <2>2, <2>4, <2>6, <2>7 DEF TypeOK
  <2>9. At("work")' = At("work") \ {w} BY <2>1, <2>4, <2>7 DEF At, TypeOK
  <2>10. \A v \in At("work") \ {w} : item'[v] = item[v] /\ item[v] # i
    BY <2>1, <2>5 DEF Held, OneWorkerPerItem, TypeOK, At
  <2>11. Held' BY <2>1, <2>5, <2>9, <2>10 DEF Held, OneWorkerPerItem
  <2> QED BY <2>6, <2>8, <2>11
<1>5. ASSUME ShutDown PROVE Inv'
  <2>1. UNCHANGED <<queue, dirty, processing, item>> BY <1>5 DEF ShutDown
  <2>2. shuttingDown' \in BOOLEAN BY <1>5, Zenon DEF ShutDown
  <2>3. /\ pc' \in [Workers -> {"get", "wait", "work", "ended"}]
        /\ \A w \in Workers : pc'[w] # pc[w] => pc[w] = "wait" /\ pc'[w] = "get"
    BY <1>5, BroadcastWakesAll DEF ShutDown, TypeOK
  <2>4. TypeOK' BY <2>1, <2>2, <2>3 DEF TypeOK
  <2>5. QueueConsistent' BY <2>1 DEF QueueConsistent, Queued
  <2>6. At("work")' = At("work") BY <2>3 DEF At, TypeOK
  <2>7. Held' BY <2>1, <2>6 DEF Held, OneWorkerPerItem
  <2> QED BY <2>4, <2>5, <2>7
<1>6. CASE UNCHANGED vars
  <2>1. shuttingDown' \in BOOLEAN BY <1>6, Zenon DEF vars, TypeOK
  <2>2. TypeOK' BY <1>6, <2>1 DEF vars, TypeOK
  <2>3. QueueConsistent' BY <1>6 DEF vars, QueueConsistent, Queued
  <2>4. Held' BY <1>6 DEF vars, Held, OneWorkerPerItem, At
  <2> QED BY <2>2, <2>3, <2>4
<1> QED BY <1>1, <1>2, <1>3, <1>4, <1>5, <1>6 DEF Next

(* The invariant holds throughout.                                         *)
LEMMA Invariance == Spec => []Inv
BY InitInv, NextInv, PTL DEF Spec

-----------------------------------------------------------------------------
(* Every field of the queue and every worker keeps its type; a worker has  *)
(* an item exactly while it works.                                         *)
THEOREM TypeCorrect == Spec => []TypeOK
BY Invariance, PTL DEF Inv

(* The comment on Type.queue: the queue holds exactly the dirty items that *)
(* are not being processed, each one once.                                 *)
THEOREM QueueAlwaysConsistent == Spec => []QueueConsistent
BY Invariance, PTL DEF Inv

(* No two workers ever process the same item.                              *)
THEOREM NeverTwoWorkersOnAnItem == Spec => []OneWorkerPerItem
BY Invariance, PTL DEF Inv, Held
-----------------------------------------------------------------------------
(* A worker leaves only when the queue is empty and closed; afterwards     *)
(* only a worker that is still there, in Done, can put an item back.       *)
LEMMA LastEmptiesInvariant == Spec => []LastEmpties
<1>1. Init => LastEmpties
  BY WorkersAssumption DEF Init, LastEmpties, At
<1>2. Inv /\ LastEmpties /\ [Next]_vars => LastEmpties'
  <2> SUFFICES ASSUME Inv, LastEmpties, [Next]_vars PROVE LastEmpties' OBVIOUS
  <2> USE DEF Inv
  <2>1. ASSUME NEW i \in Items, Add(i) PROVE LastEmpties'
    <3>1. ~shuttingDown /\ ~shuttingDown' BY <2>1, Zenon DEF Add
    <3>2. \A w \in Workers : pc[w] # "ended" BY <3>1 DEF LastEmpties
    <3>3. \A w \in Workers : pc'[w] # pc[w] => pc[w] = "wait" /\ pc'[w] = "get"
      BY <2>1, SignalWakesOne DEF Add, TypeOK
    <3>4. \A w \in Workers : pc'[w] # "ended" BY <3>2, <3>3
    <3> QED BY <3>4, WorkersAssumption DEF LastEmpties, At
  <2>2. ASSUME NEW w \in Workers, GetItem(w) PROVE LastEmpties'
    <3>1. pc' = [pc EXCEPT ![w] = "work"] /\ shuttingDown' = shuttingDown
      BY <2>2 DEF GetItem
    <3>2. pc'[w] = "work" /\ \A v \in Workers : pc'[v] = "ended" => pc[v] = "ended"
      BY <3>1 DEF TypeOK
    <3> QED BY <3>1, <3>2 DEF LastEmpties, At
  <2>3. ASSUME NEW w \in Workers, GetWaits(w) PROVE LastEmpties'
    <3>1. /\ pc' = [pc EXCEPT ![w] = "wait"] /\ shuttingDown' = shuttingDown
      BY <2>3 DEF GetWaits
    <3>2. pc'[w] = "wait" /\ \A v \in Workers : pc'[v] = "ended" => pc[v] = "ended"
      BY <3>1 DEF TypeOK
    <3> QED BY <3>1, <3>2 DEF LastEmpties, At
  <2>4. ASSUME NEW w \in Workers, GetQuits(w) PROVE LastEmpties'
    <3>1. queue' = <<>> /\ shuttingDown' BY <2>4, Zenon DEF GetQuits
    <3> QED BY <3>1 DEF LastEmpties
  <2>5. ASSUME NEW w \in Workers, Done(w) PROVE LastEmpties'
    <3> DEFINE f == [pc EXCEPT ![w] = "get"]
    <3>1. f \in [Workers -> {"get", "wait", "work", "ended"}] BY DEF TypeOK
    <3>2. \A v \in Workers : pc'[v] # f[v] => f[v] = "wait" /\ pc'[v] = "get"
      BY <2>5, <3>1, SignalWakesOne DEF Done
    <3>3. pc'[w] = "get" /\ \A v \in Workers : pc'[v] = "ended" => pc[v] = "ended"
      BY <3>2 DEF TypeOK
    <3>4. shuttingDown' = shuttingDown BY <2>5 DEF Done
    <3> QED BY <3>3, <3>4 DEF LastEmpties, At
  <2>6. ASSUME ShutDown PROVE LastEmpties'
    <3>1. shuttingDown' /\ queue' = queue BY <2>6, Zenon DEF ShutDown
    <3>2. \A w \in Workers : pc'[w] = "ended" => pc[w] = "ended"
      BY <2>6, BroadcastWakesAll DEF ShutDown, TypeOK
    <3> QED BY <3>1, <3>2 DEF LastEmpties, At
  <2>7. CASE UNCHANGED vars
    BY <2>7 DEF vars, LastEmpties, At
  <2> QED BY <2>1, <2>2, <2>3, <2>4, <2>5, <2>6, <2>7 DEF Next
<1> QED BY <1>1, <1>2, Invariance, PTL DEF Spec

(* When all workers have ended nothing is left queued, dirty or in         *)
(* processing: Get tells them to quit only after the queue is drained.     *)
THEOREM NothingLeftBehind == Spec => []DrainedAtExit
<1>1. Inv /\ LastEmpties => DrainedAtExit
  <2> SUFFICES ASSUME Inv, LastEmpties, At("ended") = Workers
               PROVE  queue = <<>> /\ dirty = {} /\ processing = {}
    BY DEF DrainedAtExit
  <2>1. queue = <<>> BY DEF LastEmpties
  <2>2. At("work") = {} BY DEF At
  <2>3. processing = {} BY <2>2 DEF Inv, Held
  <2>4. Queued = {} BY <2>1 DEF Queued
  <2>5. dirty = {} BY <2>3, <2>4 DEF Inv, QueueConsistent
  <2> QED BY <2>1, <2>3, <2>5
<1> QED BY <1>1, Invariance, LastEmptiesInvariant, PTL

-----------------------------------------------------------------------------
(* A set of workers that gains one member grows by one.                    *)
LEMMA OneMore ==
  ASSUME NEW S \in SUBSET Workers, NEW w \in Workers, w \notin S
  PROVE  /\ Cardinality(S) \in Nat
         /\ Cardinality(S \cup {w}) = Cardinality(S) + 1
<1>1. IsFiniteSet(S) BY WorkersAssumption, FS_Subset
<1> QED BY <1>1, FS_AddElement, FS_CardinalityType

(* No queued item is without an awake worker to take it while another      *)
(* sleeps: each item queued comes with its own wake-up, and the only step  *)
(* by which an awake worker goes to sleep sees an empty queue.             *)
THEOREM NoLostWakeup == Spec => []NoSleepOverWork
<1>1. Init => NoSleepOverWork
  BY DEF Init, NoSleepOverWork, At
<1>2. Inv /\ NoSleepOverWork /\ [Next]_vars => NoSleepOverWork'
  <2> SUFFICES ASSUME Inv, NoSleepOverWork, [Next]_vars, At("wait")' # {}
               PROVE  Len(queue') <= Cardinality(At("get")') /\ ~shuttingDown'
    BY DEF NoSleepOverWork
  <2> USE DEF Inv
  <2>0. Len(queue) \in Nat /\ Cardinality(At("get")) \in Nat /\ At("get") \in SUBSET Workers
    BY WorkersAssumption, FS_Subset, FS_CardinalityType DEF At, TypeOK
  <2>1. ASSUME NEW i \in Items, Add(i)
        PROVE  Len(queue') <= Cardinality(At("get")') /\ ~shuttingDown'
    <3>1. ~shuttingDown' BY <2>1, Zenon DEF Add
    <3>2. CASE i \in processing
      <4>1. UNCHANGED <<queue, pc>> BY <2>1, <3>2 DEF Add
      <4> QED BY <3>1, <4>1 DEF NoSleepOverWork, At
    <3>3. CASE i \notin processing
      <4>1. queue' = Append(queue, i) /\ pc' \in Signal(pc) BY <2>1, <3>3 DEF Add
      <4>2. PICK w \in Workers : pc[w] = "wait" /\ pc' = [pc EXCEPT ![w] = "get"]
        BY <4>1, SignalWakesOne DEF TypeOK, At
      <4>3. At("get")' = At("get") \cup {w} /\ w \notin At("get") /\ w \in At("wait")
        BY <4>2 DEF At, TypeOK
      <4>4. Cardinality(At("get")') = Cardinality(At("get")) + 1
        BY <4>3, <2>0, OneMore
      <4>5. Len(queue') = Len(queue) + 1 BY <4>1 DEF TypeOK
      <4>6. Len(queue) <= Cardinality(At("get")) BY <4>3 DEF NoSleepOverWork
      <4> QED BY <2>0, <3>1, <4>4, <4>5, <4>6
    <3> QED BY <3>2, <3>3
  <2>2. ASSUME NEW w \in Workers, GetItem(w)
        PROVE  Len(queue') <= Cardinality(At("get")') /\ ~shuttingDown'
    <3>1. pc[w] = "get" /\ pc' = [pc EXCEPT ![w] = "work"] BY <2>2 DEF GetItem
    <3>2. Len(queue') = Len(queue) - 1 BY <2>2 DEF GetItem, TypeOK
    <3>3. /\ At("get") = At("get")' \cup {w} /\ w \notin At("get")'
          /\ At("get")' \in SUBSET Workers /\ At("wait")' = At("wait")
      BY <3>1 DEF At, TypeOK
    <3>4. /\ Cardinality(At("get")) = Cardinality(At("get")') + 1
          /\ Cardinality(At("get")') \in Nat
      BY <3>3, OneMore
    <3>5. Len(queue) <= Cardinality(At("get")) /\ ~shuttingDown
      BY <3>3 DEF NoSleepOverWork
    <3>6. ~shuttingDown' BY <2>2, <3>5, Zenon DEF GetItem
    <3>7. Len(queue') <= Cardinality(At("get")')
      BY ONLY <2>0, <3>2, <3>4, <3>5
    <3> QED BY <3>6, <3>7
  <2>3. ASSUME NEW w \in Workers, GetWaits(w)
        PROVE  Len(queue') <= Cardinality(At("get")') /\ ~shuttingDown'
    <3>1. queue' = <<>> /\ ~shuttingDown' BY <2>3, Zenon DEF GetWaits
    <3>2. At("get")' \in SUBSET Workers BY DEF At
    <3>3. Cardinality(At("get")') \in Nat
      BY <3>2, WorkersAssumption, FS_Subset, FS_CardinalityType
    <3> QED BY <3>1, <3>3
  <2>4. ASSUME NEW w \in Workers, GetQuits(w) PROVE FALSE
    <3>1. shuttingDown BY <2>4 DEF GetQuits
    <3>2. At("wait")' \subseteq At("wait") BY <2>4 DEF GetQuits, At, TypeOK
    <3> QED BY <3>1, <3>2 DEF NoSleepOverWork
  <2>5. ASSUME NEW w \in Workers, Done(w)
        PROVE  Len(queue') <= Cardinality(At("get")') /\ ~shuttingDown'
    <3> DEFINE f == [pc EXCEPT ![w] = "get"]
               G == At("get") \cup {w}
    <3>1. pc[w] = "work" /\ shuttingDown' = shuttingDown BY <2>5 DEF Done
    <3>2. /\ f \in [Workers -> {"get", "wait", "work", "ended"}]
          /\ G = {v \in Workers : f[v] = "get"}
          /\ At("wait") = {v \in Workers : f[v] = "wait"}
      BY <3>1 DEF At, TypeOK
    <3>3. w \notin At("get") BY <3>1 DEF At
    <3>4. Cardinality(G) = Cardinality(At("get")) + 1 BY <2>0, <3>3, OneMore
    <3>5. CASE item[w] \in dirty
      <4>1. queue' = Append(queue, item[w]) /\ pc' \in Signal(f)
        BY <2>5, <3>5 DEF Done
      <4> HIDE DEF f
      <4>2. PICK v \in Workers : f[v] = "wait" /\ pc' = [f EXCEPT ![v] = "get"]
        BY <3>2, <4>1, SignalWakesOne DEF At
      <4>3. At("get")' = G \cup {v} /\ v \notin G /\ v \in At("wait")
        BY <3>2, <4>2 DEF At
      <4>4. Cardinality(At("get")') = Cardinality(At("get")) + 2
        <5>1. G \in SUBSET Workers BY DEF At
        <5> HIDE DEF G
        <5>2. Cardinality(At("get")') = Cardinality(G) + 1 BY <4>3, <5>1, OneMore
        <5> QED BY <2>0, <3>4, <5>2
      <4>5. Len(queue') = Len(queue) + 1 BY <4>1 DEF TypeOK
      <4>6. Len(queue) <= Cardinality(At("get")) /\ ~shuttingDown
        BY <4>3 DEF NoSleepOverWork
      <4>7. Len(queue') <= Cardinality(At("get")') BY ONLY <2>0, <4>4, <4>5, <4>6
      <4> QED BY <3>1, <4>6, <4>7
    <3>6. CASE item[w] \notin dirty
      <4>1. queue' = queue /\ pc' = f BY <2>5, <3>6 DEF Done
      <4>2. At("get")' = G /\ At("wait")' = At("wait") BY <3>2, <4>1 DEF At
      <4>3. Len(queue) <= Cardinality(At("get")) /\ ~shuttingDown
        BY <4>2 DEF NoSleepOverWork
      <4>4. Cardinality(At("get")') = Cardinality(At("get")) + 1
        BY <3>4, <4>2, Zenon
      <4>5. Len(queue') <= Cardinality(At("get")') BY ONLY <2>0, <4>1, <4>3, <4>4
      <4> QED BY <3>1, <4>3, <4>5
    <3> QED BY <3>5, <3>6
  <2>6. ASSUME ShutDown PROVE FALSE
    BY <2>6, BroadcastWakesAll DEF ShutDown, At, TypeOK
  <2>7. ASSUME UNCHANGED vars
        PROVE  Len(queue') <= Cardinality(At("get")') /\ ~shuttingDown'
    BY <2>7 DEF vars, NoSleepOverWork, At
  <2> QED BY <2>1, <2>2, <2>3, <2>4, <2>5, <2>6, <2>7 DEF Next
<1> QED BY <1>1, <1>2, Invariance, PTL DEF Spec

-----------------------------------------------------------------------------
(* When everybody sleeps or has left, nothing is left to be done: neither  *)
(* an item that was marked dirty while it was processed nor one whose      *)
(* Signal woke a worker that found the queue emptied.                      *)
AsleepMeansIdle ==
  Workers = At("wait") \cup At("ended") => dirty = {} /\ processing = {}

(* Whatever the order of Add, Get, Done and ShutDown, no work is left over *)
(* that nobody is awake for.                                               *)
THEOREM SleepersAreIdle == Spec => []AsleepMeansIdle
<1>1. ASSUME Inv, LastEmpties, NoSleepOverWork PROVE AsleepMeansIdle
  <2> SUFFICES ASSUME Workers = At("wait") \cup At("ended") PROVE dirty = {} /\ processing = {}
    BY DEF AsleepMeansIdle
  <2>1. At("work") = {} /\ At("get") = {}
    BY DEF At
  <2>2. processing = {}
    BY <1>1, <2>1 DEF Inv, Held
  <2>3. queue = <<>>
    <3>1. CASE At("wait") = {}
      BY <1>1, <3>1 DEF LastEmpties
    <3>2. CASE At("wait") # {}
      <4>1. Len(queue) <= 0
        BY <1>1, <2>1, <3>2, FS_EmptySet DEF NoSleepOverWork
      <4> QED BY <1>1, <4>1 DEF Inv, TypeOK
    <3> QED BY <3>1, <3>2
  <2>4. Queued = {}
    BY <2>3 DEF Queued
  <2> QED BY <1>1, <2>2, <2>4 DEF Inv, QueueConsistent
<1> QED BY <1>1, Invariance, LastEmptiesInvariant, NoLostWakeup, PTL
-----------------------------------------------------------------------------
(* Every step of the queue is a step of WorkSet, with the dirty set as     *)
(* what is pending, or leaves it unchanged.                                *)
THEOREM RefinesWorkSet == Spec => ImplementsWorkSet
<1> DEFINE active == {item[w] : w \in At("work")}
<1>1. Init => Abstract!Init
  BY DEF Init, At, Abstract!Init
<1>2. Inv /\ Inv' /\ [Next]_vars => [Abstract!Next]_(Abstract!vars)
  <2> SUFFICES ASSUME Inv, Inv', [Next]_vars
               PROVE  [Abstract!Next]_(Abstract!vars)
    OBVIOUS
  <2>0. active = processing /\ active' = processing' BY DEF Inv, Held
  <2> HIDE DEF active
  <2>1. ASSUME NEW i \in Items, Add(i) PROVE Abstract!Mark(i)
    BY <2>0, <2>1 DEF Add, Abstract!Mark, active
  <2>2. ASSUME NEW w \in Workers, GetItem(w)
        PROVE  \E i \in Items : Abstract!Begin(i)
    <3>1. queue # <<>> /\ queue \in Seq(Items) /\ QueueConsistent
      BY <2>2 DEF GetItem, Inv, TypeOK
    <3>2. Head(queue) \in Items /\ Head(queue) \in Queued
      BY <3>1, TailRest DEF QueueConsistent, Queued
    <3>3. Head(queue) \in dirty \ processing BY <3>1, <3>2 DEF QueueConsistent
    <3>4. PICK i \in Items : i = Head(queue) BY <3>2
    <3>5. Abstract!Begin(i)
      BY <2>0, <2>2, <3>3, <3>4 DEF GetItem, Abstract!Begin, active
    <3> QED BY <3>5
  <2>3. ASSUME NEW w \in Workers, GetWaits(w) \/ GetQuits(w)
        PROVE  UNCHANGED Abstract!vars
    BY <2>0, <2>3 DEF GetWaits, GetQuits, Abstract!vars, active
  <2>4. ASSUME NEW w \in Workers, Done(w) PROVE \E i \in Items : Abstract!Finish(i)
    <3>1. item[w] \in Items /\ item[w] \in processing
      BY <2>4 DEF Done, Inv, TypeOK, Held, At
    <3>2. PICK i \in Items : i = item[w] BY <3>1
    <3>3. Abstract!Finish(i)
      BY <2>0, <2>4, <3>1, <3>2 DEF Done, Abstract!Finish, active
    <3> QED BY <3>3
  <2>5. ASSUME ShutDown PROVE Abstract!Close
    BY <2>0, <2>5 DEF ShutDown, Abstract!Close, active
  <2>6. CASE UNCHANGED vars
    BY <2>0, <2>6 DEF vars, Abstract!vars, active
  <2> QED BY <2>1, <2>2, <2>3, <2>4, <2>5, <2>6 DEF Next, Abstract!Next
<1> QED BY <1>1, <1>2, Invariance, PTL DEF Spec, ImplementsWorkSet, Abstract!Safety
=============================================================================
