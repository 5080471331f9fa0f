--------------------------- MODULE InformerProofs ---------------------------
(***************************************************************************)
(* What the informer guarantees for any set of keys and any number of      *)
(* writes, lists and watches.                                              *)
(*                                                                         *)
(* The argument: whatever is queued for an object is the state that the    *)
(* server had at the version the reflector has reached (Timely).  As long  *)
(* as no list was older than what was seen before, the states of an object *)
(* that are on their way, the one in clientState first, then the popped    *)
(* ones, then the queued ones, are therefore states the server really had, *)
(* in the order in which it had them (Ordered); and in any case the last   *)
(* one is the current one.                                                 *)
(***************************************************************************)
EXTENDS Informer, FiniteSetTheorems, SequenceTheorems, TLAPS

Live(d) == d.type # "Deleted"

(* d may be applied after the state w of k.                                *)
Follows(W, r, k, w, d) ==
  IF Live(d) THEN d.obj >= w ELSE \E i \in 1..r : i > w /\ W[i][k] = Absent

InOrder(W, r, k, s) ==
  \A i, j \in DOMAIN s : i < j /\ Live(s[i]) => Follows(W, r, k, s[i].obj, s[j])

(* w is a state of k that the server had at or before version r.           *)
Written(W, r, k, w) == w \in 1..r /\ W[w][k] = w

Genuine(W, r, k, s) == \A i \in DOMAIN s : Live(s[i]) => Written(W, r, k, s[i].obj)

(* d is what k is at version r.                                            *)
Timely(W, r, k, d) == d \in Delta /\ Effect(d) = W[r][k] /\ (Live(d) => d.obj # Absent)

(* A sequence of states of the server.                                     *)
Versions(W) ==
  /\ W \in Seq([Keys -> Nat]) /\ Len(W) > 0
  /\ \A i \in 1..Len(W), k \in Keys :
       W[i][k] # Absent => W[i][k] \in 1..i /\ W[W[i][k]][k] = W[i][k]
  /\ \A i, j \in 1..Len(W), k \in Keys :
       i <= j /\ W[i][k] # Absent /\ W[j][k] # Absent => W[i][k] <= W[j][k]
  /\ \A i \in 1..(Len(W) - 1) : \E k \in Keys :
       /\ W[i + 1][k] # W[i][k] /\ W[i + 1][k] \in {Absent, i + 1}
       /\ \A j \in Keys \ {k} : W[i + 1][j] = W[i][j]

Ordered ==
  /\ \A k \in Keys :
       /\ Genuine(world, rv, k, items[k]) /\ InOrder(world, rv, k, items[k])
       /\ store[k] # Absent => /\ Written(world, rv, k, store[k])
                               /\ \A i \in DOMAIN items[k] :
                                    Follows(world, rv, k, store[k], items[k][i])
  /\ Genuine(world, rv, popped.key, popped.deltas)
  /\ InOrder(world, rv, popped.key, popped.deltas)
  /\ store[popped.key] # Absent =>
       \A i \in DOMAIN popped.deltas :
         Follows(world, rv, popped.key, store[popped.key], popped.deltas[i])
  /\ \A i \in DOMAIN popped.deltas, j \in DOMAIN items[popped.key] :
       Live(popped.deltas[i]) =>
         Follows(world, rv, popped.key, popped.deltas[i].obj, items[popped.key][j])

(* The keys of the first list that are not processed yet are being         *)
(* processed or are among those that initialPopulationCount counts.        *)
Owing ==
  /\ \A k \in owed : \/ k = popped.key /\ popped.deltas # <<>>
                     \/ \E i \in 1..initialPopulationCount : i \in DOMAIN queue /\ queue[i] = k
  /\ ~populated => /\ owed = {} /\ queue = <<>> /\ items = [k \in Keys |-> <<>>]
                   /\ initialPopulationCount = 0 /\ popped.deltas = <<>>

(* Nothing is out of order before the first list that is too old.          *)
Orderly == behind = 0 => Ordered

Inv ==
  /\ TypeOK /\ Versions(world) /\ QueueMatchesItems /\ Orderly /\ Owing /\ LiveObjectsArrive

-----------------------------------------------------------------------------
(* Sequences.                                                              *)

(* What dedupDeltas makes of a list to which d was appended.               *)
LEMMA DedupResult ==
  ASSUME NEW s \in Seq(Delta), NEW d \in Delta
  PROVE  LET r == dedupDeltas(Append(s, d)) IN
         /\ r \in Seq(Delta) /\ r # <<>> /\ Len(r) > 0
         /\ \A i \in 1..(Len(r) - 1) : i \in DOMAIN s /\ r[i] = s[i]
         /\ r[Len(r)] = d \/ (r[Len(r)].type = "Deleted" /\ d.type = "Deleted")
         /\ Effect(r[Len(r)]) = Effect(d)
<1> DEFINE a == Append(s, d)
           n == Len(a)
           r == dedupDeltas(a)
<1>1. /\ a \in Seq(Delta) /\ n = Len(s) + 1 /\ n \in Nat /\ a[n] = d
      /\ \A i \in 1..(n - 1) : i \in DOMAIN s /\ a[i] = s[i]
  OBVIOUS
<1>2. CASE n > 1 /\ a[n].type = "Deleted" /\ a[n - 1].type = "Deleted"
  <2> DEFINE e == IF a[n - 1].obj = UnknownState THEN a[n] ELSE a[n - 1]
             p == SubSeq(a, 1, n - 2)
  <2>1. r = Append(p, e) BY <1>2 DEF dedupDeltas
  <2>2. e \in Delta /\ e.type = "Deleted" BY <1>1, <1>2
  <2>3. /\ p \in Seq(Delta) /\ Len(p) = n - 2
        /\ \A i \in 1..(n - 2) : p[i] = a[i]
    <3> HIDE DEF a
    <3> DEFINE m == n - 2
    <3>1. m \in Nat /\ \A i \in 1..m : a[i] \in Delta BY <1>1, <1>2
    <3>2. m - 1 + 1 = m /\ \A i \in 1..m : 1 + i - 1 = i BY <3>1
    <3> HIDE DEF n, m
    <3>3. /\ SubSeq(a, 1, m) \in Seq(Delta)
          /\ Len(SubSeq(a, 1, m)) = IF 1 <= m THEN m - 1 + 1 ELSE 0
          /\ \A i \in 1..(m - 1 + 1) : SubSeq(a, 1, m)[i] = a[1 + i - 1]
      BY <3>1, SubSeqProperties
    <3>4. Len(SubSeq(a, 1, m)) = m BY <3>1, <3>3
    <3> QED BY <3>1, <3>2, <3>3, <3>4 DEF m
  <2> HIDE DEF a, n, r, e, p
  <2>4. /\ r \in Seq(Delta) /\ Len(r) = n - 1 /\ Len(r) > 0 /\ r[n - 1] = e
        /\ \A i \in 1..(n - 2) : r[i] = p[i]
    BY <1>1, <1>2, <2>1, <2>2, <2>3
  <2>5. \A i \in 1..(n - 2) : i \in DOMAIN s /\ r[i] = s[i]
    BY <1>1, <1>2, <2>3, <2>4
  <2>6. r # <<>> BY <2>4
  <2>7. d.type = "Deleted" BY <1>1, <1>2
  <2>8. /\ r \in Seq(Delta) /\ r # <<>> /\ Len(r) > 0
        /\ \A i \in 1..(Len(r) - 1) : i \in DOMAIN s /\ r[i] = s[i]
        /\ r[Len(r)].type = "Deleted"
    <3>1. n \in Int BY <1>1
    <3>2. Len(r) = n - 1 /\ Len(r) - 1 = n - 2 BY <2>4, <3>1
    <3>3. \A i \in 1..(Len(r) - 1) : i \in DOMAIN s /\ r[i] = s[i] BY ONLY <2>5, <3>2
    <3>4. r[Len(r)] = e BY ONLY <2>4, <3>2
    <3>5. r[Len(r)].type = "Deleted" BY ONLY <2>2, <3>4
    <3> QED BY ONLY <2>4, <2>6, <3>3, <3>5
  <2>9. Effect(r[Len(r)]) = Effect(d) BY <2>7, <2>8 DEF Effect
  <2> QED BY <2>7, <2>8, <2>9 DEF a, r
<1>3. CASE ~(n > 1 /\ a[n].type = "Deleted" /\ a[n - 1].type = "Deleted")
  <2>1. r = a BY <1>3 DEF dedupDeltas
  <2> HIDE DEF a, n, r
  <2>2. a # <<>> /\ Len(a) = n BY <1>1 DEF n
  <2> QED BY <1>1, <2>1, <2>2 DEF a, r
<1> QED BY <1>2, <1>3

(* Appending keys that are not in the queue.                               *)
LEMMA ConcatNew ==
  ASSUME NEW q \in Seq(Keys), NEW s \in Seq(Keys),
         \A i, j \in DOMAIN q : q[i] = q[j] => i = j,
         \A i, j \in DOMAIN s : s[i] = s[j] => i = j,
         \A i \in DOMAIN q, j \in DOMAIN s : q[i] # s[j]
  PROVE  /\ q \o s \in Seq(Keys)
         /\ \A i, j \in DOMAIN (q \o s) : (q \o s)[i] = (q \o s)[j] => i = j
         /\ \A k : (\E i \in DOMAIN (q \o s) : (q \o s)[i] = k)
                   <=> (\E i \in DOMAIN q : q[i] = k) \/ (\E i \in DOMAIN s : s[i] = k)
         /\ \A i \in DOMAIN q : i \in DOMAIN (q \o s) /\ (q \o s)[i] = q[i]
<1> DEFINE c == q \o s
<1>1. /\ c \in Seq(Keys) /\ Len(q) \in Nat /\ Len(s) \in Nat /\ Len(c) = Len(q) + Len(s)
      /\ DOMAIN c = 1..(Len(q) + Len(s)) /\ DOMAIN q = 1..Len(q) /\ DOMAIN s = 1..Len(s)
      /\ \A i \in 1..Len(q) : c[i] = q[i]
      /\ \A i \in 1..Len(s) : c[Len(q) + i] = s[i]
  OBVIOUS
<1> HIDE DEF c
<1>2. ASSUME NEW i \in DOMAIN c
      PROVE  (i \in DOMAIN q /\ c[i] = q[i]) \/ (i > Len(q) /\ i - Len(q) \in DOMAIN s /\ c[i] = s[i - Len(q)])
  <2>1. CASE i <= Len(q) BY <1>1, <2>1
  <2>2. CASE i > Len(q)
    <3>1. i - Len(q) \in 1..Len(s) BY <1>1, <2>2
    <3>2. c[Len(q) + (i - Len(q))] = s[i - Len(q)] BY <1>1, <3>1
    <3>3. Len(q) + (i - Len(q)) = i BY <1>1
    <3> QED BY <1>1, <2>2, <3>1, <3>2, <3>3
  <2> QED BY <1>1, <2>1, <2>2
<1>3. ASSUME NEW i \in DOMAIN c, NEW j \in DOMAIN c, c[i] = c[j] PROVE i = j
  <2>1. CASE i \in DOMAIN q /\ c[i] = q[i]
    <3>1. j \in DOMAIN q /\ c[j] = q[j] BY <1>2, <1>3, <2>1
    <3> QED BY <1>3, <2>1, <3>1
  <2>2. CASE i > Len(q) /\ i - Len(q) \in DOMAIN s /\ c[i] = s[i - Len(q)]
    <3>1. j > Len(q) /\ j - Len(q) \in DOMAIN s /\ c[j] = s[j - Len(q)]
      BY <1>2, <1>3, <2>2
    <3>2. i - Len(q) = j - Len(q) BY <1>3, <2>2, <3>1
    <3> QED BY <1>1, <3>2
  <2> QED BY <1>2, <2>1, <2>2
<1>4. ASSUME NEW k
      PROVE  (\E i \in DOMAIN c : c[i] = k)
             <=> (\E i \in DOMAIN q : q[i] = k) \/ (\E i \in DOMAIN s : s[i] = k)
  <2>1. ASSUME NEW i \in DOMAIN c, c[i] = k
        PROVE  (\E j \in DOMAIN q : q[j] = k) \/ (\E j \in DOMAIN s : s[j] = k)
    BY <1>2, <2>1
  <2>2. ASSUME NEW i \in DOMAIN q, q[i] = k PROVE \E j \in DOMAIN c : c[j] = k
    <3>1. i \in DOMAIN c /\ c[i] = k BY <1>1, <2>2
    <3> QED BY <3>1
  <2>3. ASSUME NEW i \in DOMAIN s, s[i] = k PROVE \E j \in DOMAIN c : c[j] = k
    <3>1. Len(q) + i \in DOMAIN c /\ c[Len(q) + i] = k BY <1>1, <2>3
    <3> QED BY <3>1
  <2> QED BY <2>1, <2>2, <2>3
<1>5. \A i \in DOMAIN q : i \in DOMAIN c /\ c[i] = q[i] BY <1>1
<1> QED BY <1>1, <1>3, <1>4, <1>5 DEF c

(* An order of a set of keys is a sequence of exactly these keys.          *)
LEMMA OrdersAreSequences ==
  ASSUME NEW S \in SUBSET Keys, NEW s \in Orders(S)
  PROVE  /\ s \in Seq(Keys)
         /\ \A k : k \in S <=> \E i \in DOMAIN s : s[i] = k
         /\ \A i, j \in DOMAIN s : s[i] = s[j] => i = j
<1>1. IsFiniteSet(S) BY KeysAssumption, FS_Subset
<1>2. Cardinality(S) \in Nat BY <1>1, FS_CardinalityType
<1> DEFINE n == Cardinality(S)
<1>3. s \in [1..n -> S] BY DEF Orders
<1>4. /\ \A k \in S : \E i \in DOMAIN s : s[i] = k
      /\ \A i, j \in DOMAIN s : s[i] = s[j] => i = j
  BY Zenon DEF Orders
<1> HIDE DEF n
<1>5. s \in [1..n -> Keys] /\ n \in Nat BY <1>2, <1>3 DEF n
<1>6. s \in Seq(Keys) BY <1>5
<1>7. \A i \in DOMAIN s : s[i] \in S BY <1>3
<1> QED BY <1>4, <1>6, <1>7

-----------------------------------------------------------------------------
(* Order.                                                                  *)

(* Nothing that was written is unwritten: order survives new writes, and   *)
(* the reflector's progress.                                               *)
LEMMA OrderLasts ==
  ASSUME NEW W, NEW V, NEW r \in Nat, NEW t \in Nat, r <= t,
         \A i \in 1..r : V[i] = W[i],
         NEW k
  PROVE  /\ \A w : Written(W, r, k, w) => Written(V, t, k, w)
         /\ \A w, d : Follows(W, r, k, w, d) => Follows(V, t, k, w, d)
         /\ \A s : Genuine(W, r, k, s) => Genuine(V, t, k, s)
         /\ \A s : InOrder(W, r, k, s) => InOrder(V, t, k, s)
<1>1. \A w : Written(W, r, k, w) => Written(V, t, k, w) BY DEF Written
<1>2. ASSUME NEW w, NEW d, Follows(W, r, k, w, d) PROVE Follows(V, t, k, w, d)
  <2>1. CASE Live(d) BY <1>2, <2>1 DEF Follows
  <2>2. CASE ~Live(d)
    <3>1. PICK i \in 1..r : i > w /\ W[i][k] = Absent BY <1>2, <2>2 DEF Follows
    <3>2. i \in 1..t /\ V[i][k] = Absent BY <3>1
    <3> QED BY <2>2, <3>1, <3>2 DEF Follows
  <2> QED BY <2>1, <2>2
<1>3. \A s : Genuine(W, r, k, s) => Genuine(V, t, k, s) BY <1>1 DEF Genuine
<1>4. \A s : InOrder(W, r, k, s) => InOrder(V, t, k, s) BY <1>2 DEF InOrder
<1> QED BY <1>1, <1>2, <1>3, <1>4

(* What k is at version r may be applied after any earlier state of k.     *)
LEMMA TimelyFollows ==
  ASSUME NEW W, Versions(W), NEW r \in 1..Len(W), NEW k \in Keys, NEW d,
         Timely(W, r, k, d)
  PROVE  /\ Live(d) => Written(W, r, k, d.obj)
         /\ \A w : Written(W, r, k, w) => Follows(W, r, k, w, d)
<1>1. /\ d.obj \in Nat /\ Effect(d) = W[r][k] /\ (Live(d) => d.obj # Absent)
      /\ W \in Seq([Keys -> Nat]) /\ Len(W) \in Nat
  BY DEF Timely, Versions, Delta
<1>2. ASSUME NEW w, Written(W, r, k, w)
      PROVE  w \in 1..r /\ W[w][k] = w /\ w # Absent /\ w \in 1..Len(W)
  BY <1>1, <1>2 DEF Written, Absent
<1>3. CASE Live(d)
  <2>1. d.obj = W[r][k] /\ W[r][k] # Absent BY <1>1, <1>3 DEF Live, Effect
  <2>2. Written(W, r, k, d.obj) BY <2>1 DEF Versions, Written
  <2>3. ASSUME NEW w, Written(W, r, k, w) PROVE d.obj >= w
    <3>1. W[w][k] <= W[r][k] BY <1>2, <2>1, <2>3 DEF Versions
    <3> QED BY <1>2, <2>1, <2>3, <3>1
  <2> QED BY <1>3, <2>2, <2>3 DEF Follows
<1>4. CASE ~Live(d)
  <2>1. W[r][k] = Absent BY <1>1, <1>4 DEF Live, Effect
  <2>2. ASSUME NEW w, Written(W, r, k, w) PROVE r > w
    BY <1>2, <2>1, <2>2
  <2>3. r \in 1..r OBVIOUS
  <2> QED BY <1>4, <2>1, <2>2, <2>3 DEF Follows
<1> QED BY <1>3, <1>4

(* Queueing the current state of k keeps the order of its deltas.          *)
LEMMA QueueingKeepsOrder ==
  ASSUME NEW W, Versions(W), NEW r \in 1..Len(W), NEW k \in Keys, NEW d,
         Timely(W, r, k, d),
         NEW s \in Seq(Delta), Genuine(W, r, k, s), InOrder(W, r, k, s)
  PROVE  LET q == dedupDeltas(Append(s, d)) IN
         /\ Genuine(W, r, k, q) /\ InOrder(W, r, k, q)
         /\ \A w : /\ Written(W, r, k, w)
                   /\ \A i \in DOMAIN s : Follows(W, r, k, w, s[i])
                   => \A i \in DOMAIN q : Follows(W, r, k, w, q[i])
<1> DEFINE q == dedupDeltas(Append(s, d))
<1>1. d \in Delta BY DEF Timely
<1>2. /\ q \in Seq(Delta) /\ Len(q) > 0
      /\ \A i \in 1..(Len(q) - 1) : i \in DOMAIN s /\ q[i] = s[i]
      /\ q[Len(q)] = d \/ (q[Len(q)].type = "Deleted" /\ d.type = "Deleted")
  BY <1>1, DedupResult
<1> HIDE DEF q
<1> DEFINE n == Len(q)
<1>3. n \in Nat \ {0} /\ DOMAIN q = 1..n /\ \A i \in DOMAIN q : i = n \/ i \in 1..(n - 1)
  BY <1>2
<1>4. /\ Live(q[n]) => Written(W, r, k, q[n].obj)
      /\ \A w : Written(W, r, k, w) => Follows(W, r, k, w, q[n])
  <2>1. CASE q[n] = d BY <2>1, TimelyFollows
  <2>2. CASE q[n].type = "Deleted" /\ d.type = "Deleted"
    <3>1. \A w : Written(W, r, k, w) => Follows(W, r, k, w, d) BY TimelyFollows
    <3> QED BY <2>2, <3>1 DEF Follows, Live
  <2> QED BY <1>2, <2>1, <2>2
<1> HIDE DEF n
<1>5. Genuine(W, r, k, q) BY <1>2, <1>3, <1>4 DEF Genuine, n
<1>6. ASSUME NEW i \in DOMAIN q, NEW j \in DOMAIN q, i < j, Live(q[i])
      PROVE  Follows(W, r, k, q[i].obj, q[j])
  <2>1. i \in DOMAIN s /\ q[i] = s[i] BY <1>2, <1>3, <1>6 DEF n
  <2>2. CASE j = n BY <1>4, <1>5, <1>6, <2>2 DEF Genuine
  <2>3. CASE j \in 1..(n - 1)
    <3>1. j \in DOMAIN s /\ q[j] = s[j] BY <1>2, <2>3 DEF n
    <3> QED BY <1>6, <2>1, <3>1 DEF InOrder
  <2> QED BY <1>3, <2>2, <2>3
<1>7. ASSUME NEW w, Written(W, r, k, w), \A i \in DOMAIN s : Follows(W, r, k, w, s[i]),
             NEW i \in DOMAIN q
      PROVE  Follows(W, r, k, w, q[i])
  <2>1. CASE i = n BY <1>4, <1>7, <2>1
  <2>2. CASE i \in 1..(n - 1) BY <1>2, <1>7, <2>2 DEF n
  <2> QED BY <1>3, <2>1, <2>2
<1>8. InOrder(W, r, k, q) BY <1>6 DEF InOrder
<1> QED BY <1>5, <1>7, <1>8 DEF q

(* Steps that leave the deltas and clientState alone keep their order.     *)
LEMMA OrderKept ==
  ASSUME Ordered, TypeOK, rv' \in Nat, rv <= rv', \A i \in 1..rv : world'[i] = world[i],
         items' = items, popped' = popped, store' = store
  PROVE  Ordered'
<1>1. rv \in Nat BY DEF TypeOK
<1>2. \A k : /\ \A w : Written(world, rv, k, w) => Written(world', rv', k, w)
             /\ \A w, d : Follows(world, rv, k, w, d) => Follows(world', rv', k, w, d)
             /\ \A s : Genuine(world, rv, k, s) => Genuine(world', rv', k, s)
             /\ \A s : InOrder(world, rv, k, s) => InOrder(world', rv', k, s)
  BY <1>1, OrderLasts
<1> QED BY <1>2 DEF Ordered

(* Queueing what some objects are at the version that is reached.          *)
LEMMA QueueingOrder ==
  ASSUME Ordered, TypeOK, Versions(world), rv' \in rv..Now, world' = world,
         popped' = popped, store' = store,
         \A k \in Keys : \/ items'[k] = items[k]
                         \/ \E d : /\ Timely(world, rv', k, d)
                                   /\ items'[k] = dedupDeltas(Append(items[k], d))
  PROVE  Ordered'
<1>1. /\ rv \in Nat /\ rv' \in 1..Len(world) /\ rv' \in Nat /\ rv <= rv'
      /\ popped.key \in Keys /\ items \in [Keys -> Seq(Delta)]
  BY DEF TypeOK, Now
<1>2. \A k : /\ \A w : Written(world, rv, k, w) => Written(world, rv', k, w)
             /\ \A w, d : Follows(world, rv, k, w, d) => Follows(world, rv', k, w, d)
             /\ \A s : Genuine(world, rv, k, s) => Genuine(world, rv', k, s)
             /\ \A s : InOrder(world, rv, k, s) => InOrder(world, rv', k, s)
  BY <1>1, OrderLasts
<1>3. ASSUME NEW k \in Keys
      PROVE  /\ Genuine(world, rv', k, items'[k]) /\ InOrder(world, rv', k, items'[k])
             /\ \A w : /\ Written(world, rv', k, w)
                       /\ \A i \in DOMAIN items[k] : Follows(world, rv', k, w, items[k][i])
                       => \A i \in DOMAIN items'[k] : Follows(world, rv', k, w, items'[k][i])
  <2>1. /\ Genuine(world, rv', k, items[k]) /\ InOrder(world, rv', k, items[k])
        /\ items[k] \in Seq(Delta)
    BY <1>1, <1>2 DEF Ordered
  <2>2. CASE items'[k] = items[k] BY <2>1, <2>2
  <2>3. CASE \E d : Timely(world, rv', k, d) /\ items'[k] = dedupDeltas(Append(items[k], d))
    <3>1. PICK d : Timely(world, rv', k, d) /\ items'[k] = dedupDeltas(Append(items[k], d))
      BY <2>3
    <3> QED BY <1>1, <2>1, <3>1, QueueingKeepsOrder
  <2> QED BY <2>2, <2>3
<1>4. ASSUME NEW k \in Keys, store[k] # Absent
      PROVE  /\ Written(world, rv', k, store[k])
             /\ \A i \in DOMAIN items'[k] : Follows(world, rv', k, store[k], items'[k][i])
  <2>1. /\ Written(world, rv', k, store[k])
        /\ \A i \in DOMAIN items[k] : Follows(world, rv', k, store[k], items[k][i])
    BY <1>2, <1>4 DEF Ordered
  <2> QED BY <1>3, <2>1
<1>5. /\ Genuine(world, rv', popped.key, popped.deltas)
      /\ InOrder(world, rv', popped.key, popped.deltas)
      /\ store[popped.key] # Absent =>
           \A i \in DOMAIN popped.deltas :
             Follows(world, rv', popped.key, store[popped.key], popped.deltas[i])
  BY <1>2 DEF Ordered
<1>6. ASSUME NEW i \in DOMAIN popped.deltas, Live(popped.deltas[i])
      PROVE  \A j \in DOMAIN items'[popped.key] :
               Follows(world, rv', popped.key, popped.deltas[i].obj, items'[popped.key][j])
  <2>1. Written(world, rv', popped.key, popped.deltas[i].obj)
    BY <1>5, <1>6 DEF Genuine
  <2>2. \A j \in DOMAIN items[popped.key] :
          Follows(world, rv', popped.key, popped.deltas[i].obj, items[popped.key][j])
    BY <1>2, <1>6 DEF Ordered
  <2> QED BY <1>1, <1>3, <2>1, <2>2
<1> QED BY <1>3, <1>4, <1>5, <1>6 DEF Ordered

-----------------------------------------------------------------------------
(* The inductive invariant.                                                *)

(* Nothing is listed, queued or stored at first.                           *)
LEMMA InitInv == Init => Inv
<1> SUFFICES ASSUME Init PROVE Inv OBVIOUS
<1> USE DEF Init
<1>1. /\ (CHOOSE k \in Keys : TRUE) \in Keys /\ Nobody \in [Keys -> Nat]
  BY KeysAssumption DEF Nobody, Absent
<1>2. populated \in BOOLEAN BY Zenon
<1>3. world \in Seq([Keys -> Nat]) /\ Len(world) = 1 /\ world[1] = Nobody BY <1>1
<1>4. TypeOK BY <1>1, <1>2, <1>3, BoundsAssumption DEF TypeOK, Idle, Now
<1>5. Versions(world) BY <1>1, <1>3 DEF Versions, Nobody
<1>6. QueueMatchesItems BY DEF QueueMatchesItems
<1>7. Orderly BY DEF Orderly, Ordered, Genuine, InOrder, Idle, Nobody
<1>8. Owing BY DEF Owing, Idle
<1>9. LiveObjectsArrive BY DEF LiveObjectsArrive, Synced
<1> QED BY <1>4, <1>5, <1>6, <1>7, <1>8, <1>9 DEF Inv

(* A write adds a version.                                                 *)
LEMMA WriteInv ==
  ASSUME Inv, NEW k \in Keys, Put(k) \/ Withdraw(k)
  PROVE  Inv'
<1> DEFINE n == Len(world)
<1>1. /\ UNCHANGED <<phase, rv, items, queue, populated, initialPopulationCount, popped, store,
                     owed, behind>>
      /\ n <= MaxWrites
  BY DEF Put, Withdraw, reflector, fifo, consumer, history, Now
<1>2. PICK v \in Nat : /\ world' = Append(world, [world[n] EXCEPT ![k] = v])
                       /\ v \in {Absent, n + 1} /\ v # world[n][k]
  <2>1. /\ n \in Nat \ {0} /\ world[n][k] \in Nat
        /\ world[n][k] # Absent => world[n][k] \in 1..n
    <3>1. world \in Seq([Keys -> Nat]) /\ n > 0 BY DEF Inv, Versions
    <3>2. n \in Nat \ {0} /\ n \in 1..Len(world) /\ world[n] \in [Keys -> Nat] BY <3>1
    <3>3. world[n][k] # Absent => world[n][k] \in 1..n BY <3>2 DEF Inv, Versions
    <3> QED BY <3>2, <3>3
  <2>2. CASE Put(k)
    <3>1. n + 1 \in Nat /\ n + 1 # world[n][k] BY <2>1 DEF Absent
    <3> QED BY <2>2, <3>1 DEF Put, Now
  <2>3. CASE Withdraw(k)
    <3>1. Absent \in Nat BY DEF Absent
    <3> QED BY <2>3, <3>1 DEF Withdraw, Now
  <2> QED BY <2>2, <2>3
<1> DEFINE last == [world[n] EXCEPT ![k] = v]
<1>3. /\ world \in Seq([Keys -> Nat]) /\ n \in Nat \ {0} /\ world[n] \in [Keys -> Nat]
      /\ last \in [Keys -> Nat] /\ last[k] = v /\ \A j \in Keys \ {k} : last[j] = world[n][j]
  BY DEF Inv, Versions
<1>4. /\ world' \in Seq([Keys -> Nat]) /\ Len(world') = n + 1 /\ world'[n + 1] = last
      /\ \A i \in 1..n : world'[i] = world[i]
  BY <1>2, <1>3
<1> HIDE DEF last, n
<1>5. Versions(world')
  <2>1. ASSUME NEW i \in 1..n, NEW j \in Keys, world[i][j] # Absent
        PROVE  /\ world[i][j] \in 1..i /\ world[i][j] \in 1..n
               /\ world[world[i][j]][j] = world[i][j]
    BY <1>3, <2>1 DEF Inv, Versions, n
  <2>2. ASSUME NEW i \in 1..(n + 1), NEW j \in Keys, world'[i][j] # Absent
        PROVE  world'[i][j] \in 1..i /\ world'[world'[i][j]][j] = world'[i][j]
    <3>1. CASE i \in 1..n BY <1>4, <2>1, <2>2, <3>1
    <3>2. CASE i = n + 1 /\ j = k BY <1>2, <1>3, <1>4, <2>2, <3>2
    <3>3. CASE i = n + 1 /\ j # k
      <4>1. world'[i][j] = world[n][j] /\ n \in 1..n BY <1>3, <1>4, <3>3
      <4>2. /\ world[n][j] # Absent /\ world[n][j] \in 1..n
            /\ world[world[n][j]][j] = world[n][j]
        BY <2>1, <2>2, <4>1
      <4> DEFINE o == world[n][j]
      <4> HIDE DEF o
      <4>3. o \in 1..n /\ world[o][j] = o BY ONLY <4>2 DEF o
      <4>4. world'[o] = world[o] BY ONLY <1>4, <4>3
      <4>5. n \in Nat /\ i = n + 1 BY ONLY <1>3, <3>3
      <4>6. o \in 1..i BY ONLY <4>3, <4>5
      <4>7. world'[i][j] = o BY ONLY <4>1 DEF o
      <4> QED BY ONLY <4>3, <4>4, <4>6, <4>7
    <3> QED BY <1>3, <3>1, <3>2, <3>3
  <2>3. ASSUME NEW i \in 1..(n + 1), NEW j \in 1..(n + 1), NEW x \in Keys, i <= j,
               world'[i][x] # Absent, world'[j][x] # Absent
        PROVE  world'[i][x] <= world'[j][x]
    <3>1. \A a, b \in 1..n : a <= b /\ world[a][x] # Absent /\ world[b][x] # Absent
                             => world[a][x] <= world[b][x]
      BY DEF Inv, Versions, n
    <3>2. CASE j \in 1..n
      <4>1. i \in 1..n BY <1>3, <2>3, <3>2
      <4> QED BY <1>4, <2>3, <3>1, <3>2, <4>1
    <3>3. CASE j = n + 1 /\ x = k
      <4>1. world'[j][x] = n + 1 BY <1>2, <1>3, <1>4, <2>3, <3>3
      <4>2. world'[i][x] \in 1..i BY <2>2, <2>3
      <4> QED BY <1>3, <4>1, <4>2
    <3>4. CASE j = n + 1 /\ x # k
      <4>1. world'[j][x] = world[n][x] /\ n \in 1..n BY <1>3, <1>4, <3>4
      <4>2. CASE i \in 1..n
        <5>1. i <= n BY <4>2
        <5> QED BY <1>4, <2>3, <3>1, <4>1, <4>2, <5>1
      <4>3. CASE i = n + 1 BY <1>3, <2>2, <2>3, <3>4, <4>3
      <4> QED BY <1>3, <4>2, <4>3
    <3> QED BY <1>3, <3>2, <3>3, <3>4
  <2>4. ASSUME NEW i \in 1..n
        PROVE  \E x \in Keys : /\ world'[i + 1][x] # world'[i][x]
                               /\ world'[i + 1][x] \in {Absent, i + 1}
                               /\ \A j \in Keys \ {x} : world'[i + 1][j] = world'[i][j]
    <3>1. CASE i = n BY <1>2, <1>3, <1>4, <3>1
    <3>2. CASE i \in 1..(n - 1)
      <4>1. PICK x \in Keys : /\ world[i + 1][x] # world[i][x]
                              /\ world[i + 1][x] \in {Absent, i + 1}
                              /\ \A j \in Keys \ {x} : world[i + 1][j] = world[i][j]
        BY <3>2 DEF Inv, Versions, n
      <4>2. i + 1 \in 1..n /\ i \in 1..n BY <1>3, <3>2
      <4>3. world'[i + 1] = world[i + 1] /\ world'[i] = world[i] BY <1>4, <4>2
      <4> QED BY <4>1, <4>3
    <3> QED BY <1>3, <3>1, <3>2
  <2>5. Len(world') - 1 = n /\ Len(world') > 0 BY <1>3, <1>4
  <2> QED BY <1>3, <1>4, <2>2, <2>3, <2>4, <2>5 DEF Versions
<1>6. rv \in 1..n BY DEF Inv, TypeOK, Now, n
<1>7. TypeOK'
  <2>1. Len(world') \in 1..(MaxWrites + 1) /\ rv' \in 1..Len(world')
    BY <1>1, <1>3, <1>4, <1>6, BoundsAssumption DEF n
  <2>2. populated' \in BOOLEAN BY <1>1, Zenon DEF Inv, TypeOK
  <2> QED BY <1>1, <1>4, <2>1, <2>2 DEF Inv, TypeOK, Now
<1>8. Orderly'
  <2>1. rv' \in Nat /\ rv <= rv' /\ \A i \in 1..rv : world'[i] = world[i]
    BY <1>1, <1>3, <1>4, <1>6
  <2> QED BY <1>1, <2>1, OrderKept DEF Inv, Orderly
<1>9. QueueMatchesItems' /\ Owing' BY <1>1 DEF Inv, QueueMatchesItems, Owing
<1>10. LiveObjectsArrive'
  BY <1>1, <1>4, <1>6 DEF Inv, LiveObjectsArrive, Synced, Outcome
<1> QED BY <1>5, <1>7, <1>8, <1>9, <1>10 DEF Inv

(* The steps of ListAndWatch that touch neither the FIFO nor clientState.  *)
LEMMA ReflectorInv ==
  ASSUME Inv, List \/ Watch \/ WatchFails \/ WatchCloses \/ Resync \/ WatchBreaks \/ Stop
  PROVE  Inv'
<1>1. /\ UNCHANGED <<world, items, queue, populated, initialPopulationCount, popped, store, owed>>
      /\ phase' \in {"list", "sync", "dial", "watch", "stopped"}
      /\ phase' \in {"dial", "watch"} => Synced /\ rv' = rv
      /\ \/ rv' = rv /\ behind' = behind
         \/ /\ rv' \in 1..Now
            /\ rv' < rv => behind < MaxBehind
            /\ behind' = IF rv' < rv THEN behind + 1 ELSE behind
  BY DEF List, Watch, WatchFails, WatchCloses, Resync, WatchBreaks, Stop, Goes, server, fifo,
         consumer, history, Synced
<1>2. rv \in 1..Now /\ Now \in Nat /\ behind \in 0..MaxBehind BY DEF Inv, TypeOK, Now
<1>3. /\ rv' \in Nat /\ rv' \in 1..Now /\ behind' \in 0..MaxBehind
      /\ behind' = 0 => behind = 0 /\ rv <= rv'
  BY <1>1, <1>2, BoundsAssumption
<1>4. TypeOK'
  <2>1. populated' \in BOOLEAN BY <1>1, Zenon DEF Inv, TypeOK
  <2> QED BY <1>1, <1>3, <2>1 DEF Inv, TypeOK, Now
<1>5. Orderly' BY <1>1, <1>3, OrderKept DEF Inv, Orderly
<1>6. Versions(world') /\ QueueMatchesItems' /\ Owing'
  BY <1>1 DEF Inv, QueueMatchesItems, Owing
<1>7. LiveObjectsArrive' BY <1>1 DEF Inv, LiveObjectsArrive, Synced, Outcome
<1> QED BY <1>4, <1>5, <1>6, <1>7 DEF Inv

(* The event that watchHandler receives next.                              *)
LEMMA EventIsNext ==
  ASSUME Inv, rv < Now
  PROVE  /\ EventKey(rv) \in Keys /\ rv + 1 \in rv..Now
         /\ world[rv + 1][EventKey(rv)] # world[rv][EventKey(rv)]
         /\ world[rv + 1][EventKey(rv)] \in {Absent, rv + 1}
         /\ \A j \in Keys \ {EventKey(rv)} : world[rv + 1][j] = world[rv][j]
<1>1. rv \in 1..Now /\ Now \in Nat BY DEF Inv, TypeOK, Now
<1>2. rv \in 1..(Len(world) - 1) /\ rv + 1 \in rv..Now BY <1>1 DEF Now
<1>3. PICK k \in Keys : /\ world[rv + 1][k] # world[rv][k]
                        /\ world[rv + 1][k] \in {Absent, rv + 1}
                        /\ \A j \in Keys \ {k} : world[rv + 1][j] = world[rv][j]
  BY <1>2 DEF Inv, Versions
<1>4. EventKey(rv) \in Keys /\ world[rv + 1][EventKey(rv)] # world[rv][EventKey(rv)]
  BY <1>3 DEF EventKey
<1>5. EventKey(rv) = k BY <1>3, <1>4
<1> QED BY <1>2, <1>3, <1>5

(* A delta is queued for the object of an event.                           *)
LEMMA OfferInv ==
  ASSUME Inv, rv < Now, rv' = rv + 1, NEW k \in Keys, k = EventKey(rv),
         NEW type, NEW obj, Offer(k, type, obj),
         Timely(world, rv + 1, k, [type |-> type, obj |-> obj]),
         UNCHANGED <<world, phase, popped, store, owed, behind>>
  PROVE  Inv'
<1> DEFINE d == [type |-> type, obj |-> obj]
<1>1. /\ items' = [items EXCEPT ![k] = dedupDeltas(Append(items[k], d))]
      /\ queue' = IF items[k] = <<>> THEN Append(queue, k) ELSE queue
      /\ populated' = TRUE /\ initialPopulationCount' = initialPopulationCount
  BY DEF Offer, queueActionLocked, Queued
<1>2. /\ rv' \in rv..Now /\ \A j \in Keys \ {k} : world[rv + 1][j] = world[rv][j]
  BY EventIsNext
<1>3. /\ TypeOK /\ items \in [Keys -> Seq(Delta)] /\ queue \in Seq(Keys) /\ d \in Delta
      /\ Versions(world)
  BY DEF Inv, TypeOK, Timely
<1> HIDE DEF d
<1>4. LET r == dedupDeltas(Append(items[k], d))
      IN  r \in Seq(Delta) /\ r # <<>> /\ Effect(r[Len(r)]) = Effect(d)
  BY <1>3, DedupResult
<1>5. /\ items' \in [Keys -> Seq(Delta)]
      /\ items'[k] = dedupDeltas(Append(items[k], d)) /\ items'[k] # <<>>
      /\ Effect(items'[k][Len(items'[k])]) = Effect(d)
      /\ \A j \in Keys \ {k} : items'[j] = items[j]
  BY <1>1, <1>3, <1>4
<1>6. Timely(world, rv', k, d) BY DEF d
<1>7. Orderly'
  <2>1. \A j \in Keys : \/ items'[j] = items[j]
                        \/ \E e : /\ Timely(world, rv', j, e)
                                  /\ items'[j] = dedupDeltas(Append(items[j], e))
    BY <1>5, <1>6
  <2> QED BY <1>2, <1>3, <2>1, QueueingOrder DEF Inv, Orderly
<1>8. /\ queue' \in Seq(Keys) /\ QueueMatchesItems'
      /\ \A i \in DOMAIN queue : i \in DOMAIN queue' /\ queue'[i] = queue[i]
  <2>1. QueueMatchesItems BY DEF Inv
  <2>2. CASE items[k] # <<>>
    <3>1. queue' = queue BY <1>1, <2>2
    <3> QED BY <1>3, <1>5, <2>1, <2>2, <3>1 DEF QueueMatchesItems
  <2>3. CASE items[k] = <<>>
    <3> DEFINE s == <<k>>
               c == queue \o s
    <3>1. queue' = c BY <1>1, <1>3, <2>3
    <3>2. s \in Seq(Keys) /\ DOMAIN s = {1} /\ s[1] = k OBVIOUS
    <3> HIDE DEF s
    <3>3. /\ \A i, j \in DOMAIN queue : queue[i] = queue[j] => i = j
          /\ \A i, j \in DOMAIN s : s[i] = s[j] => i = j
          /\ \A i \in DOMAIN queue, j \in DOMAIN s : queue[i] # s[j]
      BY <2>1, <2>3, <3>2 DEF QueueMatchesItems
    <3>4. /\ c \in Seq(Keys)
          /\ \A i, j \in DOMAIN c : c[i] = c[j] => i = j
          /\ \A x : (\E i \in DOMAIN c : c[i] = x)
                    <=> (\E i \in DOMAIN queue : queue[i] = x) \/ (\E i \in DOMAIN s : s[i] = x)
          /\ \A i \in DOMAIN queue : i \in DOMAIN c /\ c[i] = queue[i]
      BY <1>3, <3>2, <3>3, ConcatNew
    <3> HIDE DEF c
    <3>5. \A x \in Keys : items'[x] # <<>> <=> \E i \in DOMAIN c : c[i] = x
      <4>1. ASSUME NEW x \in Keys, x = k PROVE items'[x] # <<>> <=> \E i \in DOMAIN c : c[i] = x
        BY <1>5, <3>2, <3>4, <4>1
      <4>2. ASSUME NEW x \in Keys, x # k PROVE items'[x] # <<>> <=> \E i \in DOMAIN c : c[i] = x
        <5>1. items'[x] = items[x] BY <1>5, <4>2
        <5>2. items[x] # <<>> <=> \E i \in DOMAIN queue : queue[i] = x
          BY <2>1 DEF QueueMatchesItems
        <5>3. ~\E i \in DOMAIN s : s[i] = x BY <3>2, <4>2
        <5> QED BY <3>4, <5>1, <5>2, <5>3
      <4> QED BY <4>1, <4>2
    <3> QED BY <3>1, <3>4, <3>5 DEF QueueMatchesItems
  <2> QED BY <2>2, <2>3
<1>9. TypeOK'
  <2>1. rv' \in 1..Now BY <1>2 DEF Inv, TypeOK, Now
  <2>2. populated' \in BOOLEAN BY <1>1
  <2> QED BY <1>1, <1>5, <1>8, <2>1, <2>2 DEF Inv, TypeOK, Now
<1>10. Owing' BY <1>1, <1>8 DEF Inv, Owing
<1>11. LiveObjectsArrive'
  <2>1. Effect(d) = world[rv'][k] BY <1>6 DEF Timely
  <2> QED BY <1>2, <1>5, <2>1 DEF Inv, LiveObjectsArrive, Outcome, Synced
<1> QED BY <1>3, <1>7, <1>8, <1>9, <1>10, <1>11 DEF Inv

(* watchHandler: an event is queued, or a deletion ignored.                *)
LEMMA EventInv ==
  ASSUME Inv, watchHandler
  PROVE  Inv'
<1> DEFINE k == EventKey(rv)
<1>1. /\ rv < Now /\ rv' = rv + 1
      /\ UNCHANGED <<world, phase, popped, store, owed, behind>>
      /\ CASE world[rv][k] = Absent     -> Offer(k, "Added", rv + 1)
           [] world[rv + 1][k] = Absent -> Delete(k, rv + 1)
           [] OTHER                     -> Offer(k, "Updated", rv + 1)
  BY DEF watchHandler, server, consumer, history
<1>2. /\ k \in Keys /\ rv + 1 \in rv..Now /\ world[rv + 1][k] # world[rv][k]
      /\ world[rv + 1][k] \in {Absent, rv + 1}
      /\ \A j \in Keys \ {k} : world[rv + 1][j] = world[rv][j]
  BY <1>1, EventIsNext
<1>3. rv + 1 \in Nat /\ rv + 1 # Absent /\ rv \in Nat BY DEF Inv, TypeOK, Now, Absent
<1> HIDE DEF k
<1>4. ASSUME NEW type \in {"Added", "Updated"}, Offer(k, type, rv + 1),
             world[rv + 1][k] = rv + 1
      PROVE  Inv'
  <2>1. Timely(world, rv + 1, k, [type |-> type, obj |-> rv + 1])
    BY <1>3, <1>4 DEF Timely, Delta, Effect, Live
  <2> QED BY <1>1, <1>2, <1>4, <2>1, OfferInv DEF k
<1>5. CASE world[rv][k] = Absent
  <2>1. world[rv + 1][k] = rv + 1 BY <1>2, <1>5
  <2>2. Offer(k, "Added", rv + 1) BY <1>1, <1>3, <1>5, <2>1
  <2> QED BY <1>4, <2>1, <2>2
<1>6. CASE world[rv][k] # Absent /\ world[rv + 1][k] # Absent
  <2>1. world[rv + 1][k] = rv + 1 BY <1>2, <1>6
  <2>2. Offer(k, "Updated", rv + 1) BY <1>1, <1>6
  <2> QED BY <1>4, <2>1, <2>2
<1>7. CASE world[rv][k] # Absent /\ world[rv + 1][k] = Absent
  <2>1. Delete(k, rv + 1) BY <1>1, <1>7
  <2>2. CASE Offer(k, "Deleted", rv + 1)
    <3>1. Timely(world, rv + 1, k, [type |-> "Deleted", obj |-> rv + 1])
      BY <1>3, <1>7 DEF Timely, Delta, Effect, Live
    <3> QED BY <1>1, <1>2, <2>2, <3>1, OfferInv DEF k
  <2>3. CASE populated' = TRUE /\ UNCHANGED <<items, queue, initialPopulationCount>>
    <3>1. rv' \in Nat /\ rv <= rv' /\ rv' \in 1..Now
      BY <1>1, <1>2, <1>3 DEF Inv, TypeOK, Now
    <3>2. Orderly' BY <1>1, <2>3, <3>1, OrderKept DEF Inv, Orderly
    <3>3. populated' \in BOOLEAN BY <2>3
    <3>4. TypeOK' BY <1>1, <2>3, <3>1, <3>3 DEF Inv, TypeOK, Now
    <3>5. QueueMatchesItems' /\ Owing' /\ Versions(world')
      BY <1>1, <2>3 DEF Inv, QueueMatchesItems, Owing
    <3>6. LiveObjectsArrive'
      BY <1>1, <1>2, <1>7, <2>3 DEF Inv, LiveObjectsArrive, Synced, Outcome
    <3> QED BY <3>2, <3>4, <3>5, <3>6 DEF Inv
  <2> QED BY <2>1, <2>2, <2>3 DEF Delete
<1> QED BY <1>5, <1>6, <1>7

(* syncWith: Replace queues every listed and every missing object.         *)
LEMMA SyncInv ==
  ASSUME Inv, syncWith
  PROVE  Inv'
<1> DEFINE L == {k \in Keys : world[rv][k] # Absent}
           G == Missing(L)
           q1 == Unqueued(L)
           q2 == Unqueued(G)
<1>1. /\ phase' = "dial" /\ rv' = rv /\ UNCHANGED <<world, popped, store, behind>> /\ populated' = TRUE
      /\ items' = [k \in Keys |-> CASE k \in G -> Queued(k, "Deleted", UnknownState)
                                    [] k \in L -> Queued(k, "Sync", world[rv][k])
                                    [] OTHER   -> items[k]]
      /\ owed' = IF populated THEN owed ELSE L
  BY DEF syncWith, Replace, Goes, server, consumer
<1>2. PICK listed \in Orders(q1), gone \in Orders(q2) :
        /\ queue' = queue \o listed \o gone
        /\ initialPopulationCount' = IF populated THEN initialPopulationCount ELSE Len(listed)
  BY DEF syncWith, Replace
<1>3. /\ G \subseteq Keys /\ L \subseteq Keys /\ G \cap L = {}
      /\ \A k \in L : world[rv][k] # Absent
      /\ \A k \in G : world[rv][k] = Absent
      /\ q1 = {k \in L : items[k] = <<>>} /\ q2 = {k \in G : items[k] = <<>>}
  BY DEF Missing, Known, Unqueued
<1>4. /\ TypeOK /\ Versions(world) /\ QueueMatchesItems
      /\ items \in [Keys -> Seq(Delta)] /\ queue \in Seq(Keys)
      /\ rv \in 1..Now /\ Now \in Nat /\ rv \in rv..Now /\ world[rv] \in [Keys -> Nat]
  BY DEF Inv, TypeOK, Now
<1> HIDE DEF L, G, q1, q2
<1>5. ASSUME NEW k \in L \cup G
      PROVE  \E d : /\ Timely(world, rv, k, d)
                    /\ items'[k] = dedupDeltas(Append(items[k], d))
  <2>1. CASE k \in G
    <3> DEFINE d == [type |-> "Deleted", obj |-> UnknownState]
    <3>1. Timely(world, rv, k, d)
      BY <1>3, <2>1 DEF Timely, Delta, Effect, Live, UnknownState
    <3>2. items'[k] = dedupDeltas(Append(items[k], d)) BY <1>1, <1>3, <2>1 DEF Queued
    <3> QED BY <3>1, <3>2
  <2>2. CASE k \in L
    <3> DEFINE d == [type |-> "Sync", obj |-> world[rv][k]]
    <3>1. Timely(world, rv, k, d)
      BY <1>3, <1>4, <2>2 DEF Timely, Delta, Effect, Live
    <3>2. items'[k] = dedupDeltas(Append(items[k], d)) BY <1>1, <1>3, <2>2 DEF Queued
    <3> QED BY <3>1, <3>2
  <2> QED BY <2>1, <2>2
<1>6. \A k \in Keys \ (L \cup G) : items'[k] = items[k] BY <1>1
<1>7. ASSUME NEW k \in L \cup G
      PROVE  /\ items'[k] \in Seq(Delta) /\ items'[k] # <<>>
             /\ Effect(items'[k][Len(items'[k])]) = world[rv][k]
  <2>1. PICK d : Timely(world, rv, k, d) /\ items'[k] = dedupDeltas(Append(items[k], d))
    BY <1>5
  <2>2. items[k] \in Seq(Delta) /\ d \in Delta /\ Effect(d) = world[rv][k]
    BY <1>3, <1>4, <2>1 DEF Timely
  <2>3. LET r == dedupDeltas(Append(items[k], d))
        IN  r \in Seq(Delta) /\ r # <<>> /\ Effect(r[Len(r)]) = Effect(d)
    BY <2>2, DedupResult
  <2> QED BY <2>1, <2>2, <2>3
<1>8. Orderly'
  <2>1. \A k \in Keys : \/ items'[k] = items[k]
                        \/ \E d : /\ Timely(world, rv', k, d)
                                  /\ items'[k] = dedupDeltas(Append(items[k], d))
    BY <1>1, <1>5, <1>6
  <2> QED BY <1>1, <1>4, <2>1, QueueingOrder DEF Inv, Orderly
<1> DEFINE c == queue \o listed
           e == c \o gone
<1>9. /\ listed \in Seq(Keys) /\ gone \in Seq(Keys)
      /\ \A k : k \in q1 <=> \E i \in DOMAIN listed : listed[i] = k
      /\ \A i, j \in DOMAIN listed : listed[i] = listed[j] => i = j
      /\ \A k : k \in q2 <=> \E i \in DOMAIN gone : gone[i] = k
      /\ \A i, j \in DOMAIN gone : gone[i] = gone[j] => i = j
  <2>1. q1 \in SUBSET Keys /\ q2 \in SUBSET Keys BY <1>3
  <2> QED BY <2>1, OrdersAreSequences
<1>10. /\ \A k \in Keys : items[k] # <<>> <=> \E i \in DOMAIN queue : queue[i] = k
       /\ \A i, j \in DOMAIN queue : queue[i] = queue[j] => i = j
  BY <1>4 DEF QueueMatchesItems
<1>11. /\ c \in Seq(Keys)
       /\ \A i, j \in DOMAIN c : c[i] = c[j] => i = j
       /\ \A k : (\E i \in DOMAIN c : c[i] = k)
                 <=> (\E i \in DOMAIN queue : queue[i] = k) \/ (\E i \in DOMAIN listed : listed[i] = k)
       /\ \A i \in DOMAIN queue : i \in DOMAIN c /\ c[i] = queue[i]
  <2>1. ASSUME NEW i \in DOMAIN queue, NEW j \in DOMAIN listed PROVE queue[i] # listed[j]
    <3>1. listed[j] \in q1 /\ queue[i] \in Keys BY <1>4, <1>9
    <3>2. items[listed[j]] = <<>> /\ items[queue[i]] # <<>> BY <1>3, <1>10, <3>1
    <3> QED BY <3>2
  <2> QED BY <1>4, <1>9, <1>10, <2>1, ConcatNew
<1> HIDE DEF c
<1>12. /\ e \in Seq(Keys)
       /\ \A i, j \in DOMAIN e : e[i] = e[j] => i = j
       /\ \A k : (\E i \in DOMAIN e : e[i] = k)
                 <=> (\E i \in DOMAIN c : c[i] = k) \/ (\E i \in DOMAIN gone : gone[i] = k)
       /\ \A i \in DOMAIN c : i \in DOMAIN e /\ e[i] = c[i]
  <2>1. ASSUME NEW i \in DOMAIN c, NEW j \in DOMAIN gone PROVE c[i] # gone[j]
    <3>1. gone[j] \in q2 /\ c[i] \in Keys BY <1>9, <1>11
    <3>2. items[gone[j]] = <<>> /\ gone[j] \notin q1 /\ gone[j] \in Keys BY <1>3, <3>1
    <3>3. items[c[i]] # <<>> \/ c[i] \in q1 BY <1>9, <1>10, <1>11, <3>1
    <3> QED BY <3>2, <3>3
  <2> QED BY <1>9, <1>11, <2>1, ConcatNew
<1> HIDE DEF e
<1>13. queue' = e BY <1>2 DEF c, e
<1>14. QueueMatchesItems'
  <2>1. ASSUME NEW k \in Keys PROVE items'[k] # <<>> <=> \E i \in DOMAIN e : e[i] = k
    <3>1. (\E i \in DOMAIN e : e[i] = k) <=> items[k] # <<>> \/ k \in q1 \/ k \in q2
      BY <1>9, <1>10, <1>11, <1>12
    <3>2. CASE k \in L \cup G BY <1>3, <1>7, <3>1, <3>2
    <3>3. CASE k \notin L \cup G BY <1>3, <1>6, <3>1, <3>3
    <3> QED BY <3>2, <3>3
  <2> QED BY <1>12, <1>13, <2>1 DEF QueueMatchesItems
<1>15. TypeOK'
  <2>1. items' \in [Keys -> Seq(Delta)]
    <3>1. \A k \in Keys : items'[k] \in Seq(Delta) BY <1>4, <1>6, <1>7
    <3>2. items' = [k \in Keys |-> items'[k]] BY <1>1
    <3> QED BY <3>1, <3>2
  <2>2. populated' \in BOOLEAN BY <1>1
  <2>3. initialPopulationCount' \in Nat BY <1>2, <1>9 DEF Inv, TypeOK
  <2>4. owed' \subseteq Keys BY <1>1, <1>3 DEF Inv, TypeOK
  <2>5. queue' \in Seq(Keys) BY <1>12, <1>13
  <2> QED BY <1>1, <2>1, <2>2, <2>3, <2>4, <2>5 DEF Inv, TypeOK, Now
<1>16. Owing'
  <2>1. CASE populated
    <3>1. owed' = owed /\ initialPopulationCount' = initialPopulationCount
      BY <1>1, <1>2, <2>1
    <3>2. \A i \in DOMAIN queue : i \in DOMAIN queue' /\ queue'[i] = queue[i]
      BY <1>11, <1>12, <1>13
    <3> QED BY <1>1, <3>1, <3>2 DEF Inv, Owing
  <2>2. CASE ~populated
    <3>1. queue = <<>> /\ items = [k \in Keys |-> <<>>] BY <2>2 DEF Inv, Owing
    <3>2. c = listed BY <1>9, <3>1 DEF c
    <3>3. owed' = L /\ initialPopulationCount' = Len(listed) BY <1>1, <1>2, <2>2
    <3>4. ASSUME NEW k \in L
          PROVE  \E i \in 1..Len(listed) : i \in DOMAIN queue' /\ queue'[i] = k
      <4>1. k \in q1 BY <1>3, <3>1
      <4>2. PICK i \in DOMAIN listed : listed[i] = k BY <1>9, <4>1
      <4>3. i \in 1..Len(listed) /\ i \in DOMAIN queue' /\ queue'[i] = k
        BY <1>9, <1>12, <1>13, <3>2, <4>2
      <4> QED BY <4>3
    <3> QED BY <1>1, <3>3, <3>4 DEF Owing
  <2> QED BY <2>1, <2>2
<1>17. LiveObjectsArrive'
  BY <1>1, <1>3, <1>7 DEF LiveObjectsArrive, Outcome, L
<1> QED BY <1>1, <1>4, <1>8, <1>14, <1>15, <1>16, <1>17 DEF Inv

(* The deltas that Pop takes out of the map are the popped ones.           *)
LEMMA PopKeepsOutcome ==
  ASSUME Inv, Pop, NEW j \in Keys
  PROVE  Outcome(j)' = Outcome(j)
<1> DEFINE k == Head(queue)
<1>1. /\ popped.deltas = <<>> /\ queue # <<>> /\ UNCHANGED store
      /\ items' = [items EXCEPT ![k] = <<>>]
      /\ popped' = [key |-> k, deltas |-> items[k]]
  BY DEF Pop
<1>2. k \in Keys /\ queue[1] = k /\ 1 \in DOMAIN queue /\ items \in [Keys -> Seq(Delta)]
  BY <1>1 DEF Inv, TypeOK
<1> HIDE DEF k
<1>3. items[k] # <<>> BY <1>2 DEF Inv, QueueMatchesItems
<1>4. /\ items'[k] = <<>> /\ \A i \in Keys \ {k} : items'[i] = items[i]
      /\ popped'.key = k /\ popped'.deltas = items[k]
  BY <1>1, <1>2
<1>5. CASE j = k BY <1>1, <1>3, <1>4, <1>5 DEF Outcome
<1>6. CASE j # k BY <1>1, <1>4, <1>6 DEF Outcome
<1> QED BY <1>5, <1>6

(* Pop: the deltas of the first key go from the map to Process.            *)
LEMMA PopInv ==
  ASSUME Inv, Pop
  PROVE  Inv'
<1> DEFINE k == Head(queue)
           n == Len(queue)
<1>1. /\ popped.deltas = <<>> /\ queue # <<>> /\ queue' = Tail(queue)
      /\ initialPopulationCount' =
           IF initialPopulationCount > 0 THEN initialPopulationCount - 1 ELSE 0
      /\ items' = [items EXCEPT ![k] = <<>>]
      /\ popped' = [key |-> k, deltas |-> items[k]]
      /\ UNCHANGED <<world, phase, rv, populated, store, owed, behind>>
  BY DEF Pop, server, reflector, history
<1>2. /\ TypeOK /\ Versions(world) /\ QueueMatchesItems /\ Owing
      /\ items \in [Keys -> Seq(Delta)] /\ queue \in Seq(Keys) /\ initialPopulationCount \in Nat
  BY DEF Inv, TypeOK
<1>3. /\ n \in Nat \ {0} /\ k \in Keys /\ queue[1] = k /\ DOMAIN queue = 1..n
      /\ queue' \in Seq(Keys) /\ DOMAIN queue' = 1..(n - 1)
      /\ \A i \in 1..(n - 1) : queue'[i] = queue[i + 1]
  BY <1>1, <1>2
<1> HIDE DEF k, n
<1>4. items[k] # <<>> /\ items[k] \in Seq(Delta)
  <2>1. 1 \in DOMAIN queue BY <1>3
  <2> QED BY <1>2, <1>3, <2>1 DEF QueueMatchesItems
<1>5. /\ items' \in [Keys -> Seq(Delta)] /\ items'[k] = <<>>
      /\ \A j \in Keys \ {k} : items'[j] = items[j]
      /\ popped'.key = k /\ popped'.deltas = items[k]
  BY <1>1, <1>2, <1>3
<1>6. TypeOK'
  <2>1. populated' \in BOOLEAN BY <1>1, <1>2, Zenon DEF TypeOK
  <2>2. initialPopulationCount' \in Nat BY <1>1, <1>2
  <2>3. popped' \in [key : Keys, deltas : Seq(Delta)] BY <1>1, <1>3, <1>4
  <2> QED BY <1>1, <1>2, <1>3, <1>5, <2>1, <2>2, <2>3 DEF TypeOK, Now
<1>7. QueueMatchesItems'
  <2>1. \A i, j \in DOMAIN queue : queue[i] = queue[j] => i = j BY <1>2 DEF QueueMatchesItems
  <2>2. ASSUME NEW i \in DOMAIN queue', NEW j \in DOMAIN queue', queue'[i] = queue'[j]
        PROVE  i = j
    <3>1. i + 1 \in DOMAIN queue /\ j + 1 \in DOMAIN queue /\ queue[i + 1] = queue[j + 1]
      BY <1>3, <2>2
    <3>2. i + 1 = j + 1 BY <2>1, <3>1
    <3> QED BY <1>3, <3>2
  <2>3. ASSUME NEW j \in Keys PROVE items'[j] # <<>> <=> \E i \in DOMAIN queue' : queue'[i] = j
    <3>1. items[j] # <<>> <=> \E i \in DOMAIN queue : queue[i] = j BY <1>2 DEF QueueMatchesItems
    <3>2. CASE j = k
      <4>1. ASSUME NEW i \in DOMAIN queue', queue'[i] = k PROVE FALSE
        <5>1. i + 1 \in DOMAIN queue /\ queue[i + 1] = queue[1] /\ 1 \in DOMAIN queue
          BY <1>3, <4>1
        <5>2. i + 1 = 1 BY <2>1, <5>1
        <5> QED BY <1>3, <5>2
      <4> QED BY <1>5, <3>2, <4>1
    <3>3. CASE j # k
      <4>1. ASSUME NEW i \in DOMAIN queue, queue[i] = j PROVE \E x \in DOMAIN queue' : queue'[x] = j
        <5>1. i # 1 BY <1>3, <3>3, <4>1
        <5>2. i - 1 \in DOMAIN queue' /\ queue'[i - 1] = j BY <1>3, <4>1, <5>1
        <5> QED BY <5>2
      <4>2. ASSUME NEW i \in DOMAIN queue', queue'[i] = j PROVE \E x \in DOMAIN queue : queue[x] = j
        <5>1. i + 1 \in DOMAIN queue /\ queue[i + 1] = j BY <1>3, <4>2
        <5> QED BY <5>1
      <4> QED BY <1>5, <3>1, <3>3, <4>1, <4>2
    <3> QED BY <3>2, <3>3
  <2> QED BY <2>2, <2>3 DEF QueueMatchesItems
<1>8. Orderly'
  <2> SUFFICES ASSUME behind = 0 PROVE Ordered' BY <1>1 DEF Orderly
  <2>4. Ordered BY DEF Inv, Orderly
  <2>1. ASSUME NEW j \in Keys
        PROVE  /\ Genuine(world, rv, j, items'[j]) /\ InOrder(world, rv, j, items'[j])
               /\ store[j] # Absent => /\ Written(world, rv, j, store[j])
                                       /\ \A i \in DOMAIN items'[j] :
                                            Follows(world, rv, j, store[j], items'[j][i])
    <3>1. CASE j = k BY <1>3, <1>5, <2>4, <3>1 DEF Ordered, Genuine, InOrder
    <3>2. CASE j # k BY <1>5, <2>4, <3>2 DEF Ordered
    <3> QED BY <3>1, <3>2
  <2>2. /\ Genuine(world, rv, k, items[k]) /\ InOrder(world, rv, k, items[k])
        /\ store[k] # Absent => \A i \in DOMAIN items[k] : Follows(world, rv, k, store[k], items[k][i])
    BY <1>3, <2>4 DEF Ordered
  <2>3. DOMAIN items'[k] = {} BY <1>5
  <2> QED BY <1>1, <1>5, <2>1, <2>2, <2>3 DEF Ordered
<1>9. Owing'
  <2>1. ASSUME NEW j \in owed, j # k
        PROVE  \E i \in 1..initialPopulationCount' : i \in DOMAIN queue' /\ queue'[i] = j
    <3>1. PICK i \in 1..initialPopulationCount : i \in DOMAIN queue /\ queue[i] = j
      BY <1>1, <1>2, <2>1 DEF Owing
    <3>2. i # 1 BY <1>3, <2>1, <3>1
    <3>3. /\ i - 1 \in 1..initialPopulationCount' /\ i - 1 \in DOMAIN queue'
          /\ queue'[i - 1] = j
      BY <1>1, <1>2, <1>3, <3>1, <3>2
    <3> QED BY <3>3
  <2>2. populated BY <1>1, <1>2 DEF Owing
  <2> QED BY <1>1, <1>4, <1>5, <2>1, <2>2 DEF Owing
<1>10. LiveObjectsArrive'
  BY <1>1, PopKeepsOutcome DEF Inv, LiveObjectsArrive, Synced
<1> QED BY <1>1, <1>2, <1>6, <1>7, <1>8, <1>9, <1>10 DEF Inv

(* What one turn of Process does.                                          *)
LEMMA ProcessStep ==
  ASSUME Inv, Process
  PROVE  LET k == popped.key
             d == popped.deltas[1]
             s == popped.deltas
         IN  /\ k \in Keys /\ d \in Delta /\ s \in Seq(Delta) /\ s # <<>>
             /\ popped'.key = k /\ popped'.deltas = Tail(s)
             /\ popped' \in [key : Keys, deltas : Seq(Delta)]
             /\ store' \in [Keys -> Nat] /\ store'[k] = Effect(d)
             /\ \A j \in Keys \ {k} : store'[j] = store[j]
             /\ owed' = owed \ {k}
             /\ UNCHANGED <<world, phase, rv, items, queue, populated, initialPopulationCount, behind>>
<1>1. /\ popped \in [key : Keys, deltas : Seq(Delta)] /\ store \in [Keys -> Nat]
  BY DEF Inv, TypeOK
<1>2. /\ popped.deltas # <<>>
      /\ store' = [store EXCEPT ![popped.key] = Effect(Head(popped.deltas))]
      /\ popped' = [popped EXCEPT !.deltas = Tail(popped.deltas)]
      /\ owed' = owed \ {popped.key}
      /\ UNCHANGED <<world, phase, rv, items, queue, populated, initialPopulationCount, behind>>
  BY DEF Process, server, reflector, fifo
<1>3. /\ popped.deltas \in Seq(Delta) /\ popped.key \in Keys
      /\ Head(popped.deltas) = popped.deltas[1] /\ popped.deltas[1] \in Delta
      /\ Tail(popped.deltas) \in Seq(Delta)
  BY <1>1, <1>2
<1>4. Effect(popped.deltas[1]) \in Nat BY <1>3 DEF Effect, Delta, Absent
<1> QED BY <1>1, <1>2, <1>3, <1>4

(* The delta that reaches clientState is the last one or not the outcome.  *)
LEMMA ProcessKeepsOutcome ==
  ASSUME Inv, Process, NEW j \in Keys
  PROVE  Outcome(j)' = Outcome(j)
<1> DEFINE k == popped.key
           s == popped.deltas
           d == s[1]
           n == Len(s)
<1>1. /\ k \in Keys /\ s \in Seq(Delta) /\ s # <<>> /\ UNCHANGED items
      /\ popped'.key = k /\ popped'.deltas = Tail(s)
      /\ store'[k] = Effect(d) /\ \A i \in Keys \ {k} : store'[i] = store[i]
  BY ProcessStep
<1>2. /\ n \in Nat \ {0} /\ Len(Tail(s)) = n - 1
      /\ \A i \in 1..(n - 1) : Tail(s)[i] = s[i + 1]
  BY <1>1
<1> HIDE DEF k, s, n
<1>3. CASE items[j] # <<>> BY <1>1, <1>3 DEF Outcome
<1>4. CASE items[j] = <<>> /\ j # k BY <1>1, <1>4 DEF Outcome, k
<1>5. CASE items[j] = <<>> /\ j = k
  <2>1. Outcome(j) = Effect(s[n]) BY <1>1, <1>5 DEF Outcome, k, s, n
  <2>2. CASE n = 1
    <3>1. Tail(s) = <<>> BY <1>1, <1>2, <2>2
    <3>2. Outcome(j)' = Effect(d) BY <1>1, <1>5, <3>1 DEF Outcome
    <3> QED BY <2>1, <2>2, <3>2
  <2>3. CASE n > 1
    <3>1. n - 1 \in 1..(n - 1) /\ (n - 1) + 1 = n BY <1>2, <2>3
    <3>2. Tail(s) # <<>> /\ Tail(s)[n - 1] = s[n]
      <4> DEFINE t == Tail(s)
      <4>1. Len(t) # 0 BY <1>2, <2>3
      <4>2. t[n - 1] = s[(n - 1) + 1] BY <1>2, <3>1
      <4> HIDE DEF t
      <4>3. t # <<>> BY ONLY <4>1
      <4>4. t[n - 1] = s[n] BY ONLY <3>1, <4>2
      <4> QED BY <4>3, <4>4 DEF t
    <3>3. Outcome(j)' = Effect(Tail(s)[n - 1]) BY <1>1, <1>2, <1>5, <3>2 DEF Outcome
    <3> QED BY <2>1, <3>2, <3>3
  <2> QED BY <1>2, <2>2, <2>3
<1> QED BY <1>3, <1>4, <1>5

(* Process: the oldest popped delta reaches clientState.                   *)
LEMMA ProcessInv ==
  ASSUME Inv, Process
  PROVE  Inv'
<1> DEFINE k == popped.key
           s == popped.deltas
           d == s[1]
           n == Len(s)
<1>1. /\ k \in Keys /\ d \in Delta /\ s \in Seq(Delta) /\ s # <<>>
      /\ popped'.key = k /\ popped'.deltas = Tail(s)
      /\ popped' \in [key : Keys, deltas : Seq(Delta)]
      /\ store' \in [Keys -> Nat] /\ store'[k] = Effect(d)
      /\ \A j \in Keys \ {k} : store'[j] = store[j]
      /\ owed' = owed \ {k}
      /\ UNCHANGED <<world, phase, rv, items, queue, populated, initialPopulationCount, behind>>
  BY ProcessStep
<1>2. /\ n \in Nat \ {0} /\ DOMAIN s = 1..n /\ DOMAIN Tail(s) = 1..(n - 1)
      /\ Len(Tail(s)) = n - 1 /\ \A i \in 1..(n - 1) : Tail(s)[i] = s[i + 1] /\ i + 1 \in 1..n
      /\ 1 \in 1..n
  BY <1>1
<1>3. ASSUME behind = 0
      PROVE  /\ Ordered /\ Genuine(world, rv, k, s) /\ InOrder(world, rv, k, s)
             /\ \A i \in DOMAIN s, j \in DOMAIN items[k] :
                  Live(s[i]) => Follows(world, rv, k, s[i].obj, items[k][j])
  BY <1>3 DEF Inv, Orderly, Ordered
<1> HIDE DEF k, s, n
<1>4. TypeOK'
  <2>1. populated' \in BOOLEAN BY <1>1, Zenon DEF Inv, TypeOK
  <2> QED BY <1>1, <2>1 DEF Inv, TypeOK, Now
<1>5. Orderly'
  <2> SUFFICES ASSUME behind = 0 PROVE Ordered' BY <1>1 DEF Orderly
  <2> DEFINE t == Tail(s)
  <2>1. Genuine(world, rv, k, t) BY <1>2, <1>3 DEF Genuine
  <2>2. InOrder(world, rv, k, t)
    <3> SUFFICES ASSUME NEW i \in DOMAIN t, NEW j \in DOMAIN t, i < j, Live(t[i])
                 PROVE  Follows(world, rv, k, t[i].obj, t[j])
      BY DEF InOrder
    <3>1. /\ i + 1 \in DOMAIN s /\ j + 1 \in DOMAIN s /\ i + 1 < j + 1
          /\ t[i] = s[i + 1] /\ t[j] = s[j + 1]
      BY <1>2
    <3> QED BY <1>3, <3>1 DEF InOrder
  <2>3. ASSUME NEW i \in DOMAIN t, NEW j \in DOMAIN items[k], Live(t[i])
        PROVE  Follows(world, rv, k, t[i].obj, items[k][j])
    BY <1>2, <1>3, <2>3
  <2>4. ASSUME Effect(d) # Absent
        PROVE  /\ Written(world, rv, k, Effect(d))
               /\ \A i \in DOMAIN items[k] : Follows(world, rv, k, Effect(d), items[k][i])
               /\ \A i \in DOMAIN t : Follows(world, rv, k, Effect(d), t[i])
    <3>1. Live(d) /\ Effect(d) = d.obj BY <2>4 DEF Effect, Live
    <3>2. Written(world, rv, k, d.obj) BY <1>2, <1>3, <3>1 DEF Genuine
    <3>3. \A i \in DOMAIN items[k] : Follows(world, rv, k, d.obj, items[k][i])
      BY <1>2, <1>3, <3>1
    <3>4. ASSUME NEW i \in DOMAIN t PROVE Follows(world, rv, k, d.obj, t[i])
      <4>1. i + 1 \in DOMAIN s /\ 1 \in DOMAIN s /\ 1 < i + 1 /\ t[i] = s[i + 1] BY <1>2
      <4> QED BY <1>3, <3>1, <4>1 DEF InOrder
    <3> QED BY <3>1, <3>2, <3>3, <3>4
  <2> HIDE DEF t, d
  <2>5. ASSUME NEW j \in Keys
        PROVE  /\ Genuine(world, rv, j, items[j]) /\ InOrder(world, rv, j, items[j])
               /\ store'[j] # Absent => /\ Written(world, rv, j, store'[j])
                                        /\ \A i \in DOMAIN items[j] :
                                             Follows(world, rv, j, store'[j], items[j][i])
    <3>1. CASE j = k BY <1>1, <1>3, <2>4, <3>1 DEF Ordered
    <3>2. CASE j # k BY <1>1, <1>3, <3>2 DEF Ordered
    <3> QED BY <3>1, <3>2
  <2> QED BY <1>1, <2>1, <2>2, <2>3, <2>4, <2>5 DEF Ordered, t
<1>6. QueueMatchesItems' /\ Versions(world') BY <1>1 DEF Inv, QueueMatchesItems
<1>7. Owing'
  <2>1. populated BY <1>1 DEF Inv, Owing, s
  <2> QED BY <1>1, <2>1 DEF Inv, Owing, k
<1>8. LiveObjectsArrive'
  BY <1>1, ProcessKeepsOutcome DEF Inv, LiveObjectsArrive, Synced
<1> QED BY <1>4, <1>5, <1>6, <1>7, <1>8 DEF Inv

(* A deletion that is queued is the outcome.                               *)
LEMMA OfferedDeletion ==
  ASSUME NEW k \in Keys, NEW obj \in Nat, items \in [Keys -> Seq(Delta)],
         items'[k] = Queued(k, "Deleted", obj)
  PROVE  Outcome(k)' = Absent
<1> DEFINE d == [type |-> "Deleted", obj |-> obj]
           r == dedupDeltas(Append(items[k], d))
<1>1. d \in Delta /\ Effect(d) = Absent /\ items'[k] = r BY DEF Delta, Effect, Queued
<1> HIDE DEF d
<1>2. r # <<>> /\ Effect(r[Len(r)]) = Effect(d) BY <1>1, DedupResult
<1> QED BY <1>1, <1>2 DEF Outcome

(* Every step keeps the invariant.                                         *)
LEMMA NextInv == Inv /\ [Next]_vars => Inv'
<1> SUFFICES ASSUME Inv, [Next]_vars PROVE Inv' OBVIOUS
<1>1. CASE Next
  BY <1>1, WriteInv, ReflectorInv, SyncInv, EventInv, PopInv, ProcessInv DEF Next
<1>2. CASE UNCHANGED vars
  <2>1. UNCHANGED <<world, phase, rv, items, queue, populated, initialPopulationCount, popped, store,
                    owed, behind>>
    BY <1>2 DEF vars, server, reflector, fifo, consumer, history
  <2>2. populated' \in BOOLEAN BY <2>1, Zenon DEF Inv, TypeOK
  <2>3. TypeOK' BY <2>1, <2>2 DEF Inv, TypeOK, Now
  <2>4. Versions(world') /\ QueueMatchesItems' /\ Orderly' /\ Owing' /\ LiveObjectsArrive'
    BY <2>1 DEF Inv, QueueMatchesItems, Orderly, Ordered, Owing, LiveObjectsArrive, Synced, Outcome
  <2> QED BY <2>3, <2>4 DEF Inv
<1> QED BY <1>1, <1>2

(* Only Process writes clientState.                                        *)
LEMMA StoreChanges ==
  ASSUME Inv, [Next]_vars, ~Process
  PROVE  store' = store
BY DEF Next, vars, Put, Withdraw, List, syncWith, Watch, WatchFails, watchHandler, WatchCloses,
       Resync, WatchBreaks, Stop, Pop, consumer

-----------------------------------------------------------------------------
(* Theorems.                                                               *)

(* The inductive invariant holds in every reachable state.                 *)
THEOREM Invariance == Spec => []Inv
BY InitInv, NextInv, PTL DEF Spec

(* Every variable keeps its type, and Pop's counter never goes below zero. *)
THEOREM TypeCorrect == Spec => []TypeOK
<1>1. Inv => TypeOK BY DEF Inv
<1> QED BY <1>1, Invariance, PTL

(* A key is in the queue once if it has deltas, and otherwise not at all,  *)
(* as delta_fifo.go's comment on items and queue demands.                  *)
THEOREM QueueInStep == Spec => []QueueMatchesItems
<1>1. Inv => QueueMatchesItems BY DEF Inv
<1> QED BY <1>1, Invariance, PTL

(* What is on its way ends with the state that an existing object has at   *)
(* the version which the reflector has reached.                            *)
THEOREM NothingLiveIsLost == Spec => []LiveObjectsArrive
<1>1. Inv => LiveObjectsArrive BY DEF Inv
<1> QED BY <1>1, Invariance, PTL

(* Once HasSynced holds, the whole first list is processed, but for the    *)
(* object that Process is busy with.                                       *)
THEOREM SyncIsComplete == Spec => []SyncedMeansListed
<1>1. Inv => SyncedMeansListed
  <2> SUFFICES ASSUME Inv, HasSynced, NEW k \in owed PROVE k = popped.key
    BY DEF SyncedMeansListed
  <2>1. ~\E i \in 1..initialPopulationCount : i \in DOMAIN queue /\ queue[i] = k
    BY DEF HasSynced
  <2> QED BY <2>1 DEF Inv, Owing
<1> QED BY <1>1, Invariance, PTL

(* clientState never returns to an older state of an object, as long as no *)
(* list was older than what the reflector had seen.                        *)
THEOREM NeverBackwards == Spec => StoreMovesForward
<1>1. ASSUME Inv, [Next]_vars PROVE Forward
  <2> SUFFICES ASSUME behind = 0
               PROVE  \A k \in Keys : store'[k] # Absent => store'[k] >= store[k]
    BY DEF Forward
  <2>1. store \in [Keys -> Nat] BY <1>1 DEF Inv, TypeOK
  <2>2. CASE Process
    <3> DEFINE k == popped.key
               d == popped.deltas[1]
    <3>1. /\ k \in Keys /\ d \in Delta /\ popped.deltas \in Seq(Delta) /\ popped.deltas # <<>>
          /\ store'[k] = Effect(d) /\ \A j \in Keys \ {k} : store'[j] = store[j]
      BY <1>1, <2>2, ProcessStep
    <3>2. 1 \in DOMAIN popped.deltas /\ d.obj \in Nat BY <3>1 DEF Delta
    <3>3. store[k] # Absent => Follows(world, rv, k, store[k], d)
      BY <1>1, <3>2 DEF Inv, Orderly, Ordered
    <3> HIDE DEF k, d
    <3>4. ASSUME store'[k] # Absent PROVE store'[k] >= store[k]
      <4>1. Live(d) /\ store'[k] = d.obj BY <3>1, <3>4 DEF Effect, Live
      <4>2. CASE store[k] = Absent BY <3>2, <4>1, <4>2 DEF Absent
      <4>3. CASE store[k] # Absent BY <3>3, <4>1, <4>3 DEF Follows
      <4> QED BY <4>2, <4>3
    <3> QED BY <2>1, <3>1, <3>4
  <2>3. CASE ~Process BY <1>1, <2>1, <2>3, StoreChanges
  <2> QED BY <2>2, <2>3
<1> QED BY <1>1, Invariance, PTL DEF Spec, StoreMovesForward

(* As long as no list was older than what the reflector had seen, an       *)
(* object leaves clientState only if the server deleted it after the state *)
(* that clientState had.                                                   *)
THEOREM OnlyDeletionsDelete == Spec => DeletesOnlyDeleted
<1>1. ASSUME Inv, [Next]_vars PROVE LeavesOnlyDeleted
  <2> SUFFICES ASSUME behind = 0 PROVE LeavesOnlyDeleted BY DEF LeavesOnlyDeleted
  <2>1. CASE Process
    <3> DEFINE k == popped.key
               d == popped.deltas[1]
    <3>1. /\ k \in Keys /\ d \in Delta /\ popped.deltas \in Seq(Delta) /\ popped.deltas # <<>>
          /\ store'[k] = Effect(d) /\ \A j \in Keys \ {k} : store'[j] = store[j]
      BY <1>1, <2>1, ProcessStep
    <3>2. 1 \in DOMAIN popped.deltas BY <3>1
    <3>3. /\ store[k] # Absent => Follows(world, rv, k, store[k], d)
          /\ Live(d) => Written(world, rv, k, d.obj)
      BY <1>1, <3>2 DEF Inv, Orderly, Ordered, Genuine
    <3> HIDE DEF k, d
    <3>4. ASSUME store[k] # Absent, store'[k] = Absent
          PROVE  \E i \in 1..rv : i > store[k] /\ world[i][k] = Absent
      <4>1. ~Live(d) BY <3>1, <3>3, <3>4 DEF Effect, Live, Written, Absent
      <4> QED BY <3>3, <3>4, <4>1 DEF Follows
    <3> QED BY <3>1, <3>4 DEF LeavesOnlyDeleted
  <2>2. CASE ~Process BY <1>1, <2>2, StoreChanges DEF LeavesOnlyDeleted
  <2> QED BY <2>1, <2>2
<1> QED BY <1>1, Invariance, PTL DEF Spec, DeletesOnlyDeleted


(* GhostsAreUnknown: Delete and Replace leave an object in place that the  *)
(* server has deleted only if they find it on its way and not yet in       *)
(* clientState; every other wrong outcome was there before.                *)
THEOREM GhostsOnlyFromUnknown == Spec => GhostsAreUnknown
<1>1. ASSUME Inv, [Next]_vars PROVE GhostsBegin
  <2> SUFFICES ASSUME NEW k \in Keys, Synced', Wrong(k)'
               PROVE  \/ Synced /\ Wrong(k)
                      \/ k \notin Known /\ Outcome(k) # Absent /\ world'[rv'][k] = Absent
    BY DEF GhostsBegin
  <2>1. world'[rv'][k] = Absent /\ Outcome(k)' # Absent
    BY <1>1, NextInv DEF Inv, LiveObjectsArrive, Wrong
  <2>2. ASSUME Synced' = Synced, rv' = rv, world'[rv] = world[rv], Outcome(k)' = Outcome(k)
        PROVE  Synced /\ Wrong(k)
    BY <2>2 DEF Wrong
  <2>3. ASSUME Delete(k, rv + 1), UNCHANGED <<store, popped>>
        PROVE  k \notin Known /\ Outcome(k) # Absent
    <3>1. ASSUME Offer(k, "Deleted", rv + 1) PROVE Outcome(k)' = Absent
      BY <1>1, <3>1, OfferedDeletion DEF Offer, queueActionLocked, Inv, TypeOK
    <3>2. k \notin Known /\ items' = items BY <2>1, <2>3, <3>1 DEF Delete
    <3> QED BY <2>1, <2>3, <3>2 DEF Outcome
  <2>4. ASSUME NEW j \in Keys, Put(j) \/ Withdraw(j) PROVE Synced /\ Wrong(k)
    <3>1. world \in Seq([Keys -> Nat]) /\ rv \in 1..Len(world) BY <1>1 DEF Inv, TypeOK, Now
    <3>2. UNCHANGED <<phase, rv, items, popped, store>> /\ \E v : world' = Append(world, v)
      BY <2>4 DEF Put, Withdraw, reflector, fifo, consumer
    <3>3. world'[rv] = world[rv] BY <3>1, <3>2
    <3> QED BY <2>2, <3>2, <3>3 DEF Synced, Outcome
  <2>5. CASE List \/ Watch \/ WatchFails \/ WatchCloses \/ Resync \/ WatchBreaks \/ Stop
    <3>1. UNCHANGED <<world, items, popped, store>> /\ Synced /\ rv' = rv
      BY <2>5 DEF List, Watch, WatchFails, WatchCloses, Resync, WatchBreaks, Stop, Goes, server, fifo, consumer,
                  Synced
    <3> QED BY <2>2, <3>1 DEF Outcome
  <2>6. CASE syncWith
    <3> DEFINE L == {j \in Keys : world[rv][j] # Absent}
    <3>1. /\ rv' = rv /\ UNCHANGED <<world, popped, store>>
          /\ items' = [j \in Keys |-> CASE j \in Missing(L) -> Queued(j, "Deleted", UnknownState)
                                         [] j \in L -> Queued(j, "Sync", world[rv][j])
                                         [] OTHER -> items[j]]
      BY <2>6 DEF syncWith, Replace, server, consumer
    <3>2. k \notin L BY <2>1, <3>1
    <3> HIDE DEF L
    <3>3. k \notin Known
      <4>1. SUFFICES ASSUME k \in Missing(L) PROVE FALSE BY <3>2 DEF Missing
      <4>2. items'[k] = Queued(k, "Deleted", UnknownState) BY <3>1, <3>2, <4>1
      <4> QED BY <1>1, <2>1, <4>2, OfferedDeletion DEF Inv, TypeOK, UnknownState
    <3>4. items'[k] = items[k] BY <3>1, <3>2, <3>3 DEF Missing
    <3> QED BY <2>1, <3>1, <3>3, <3>4 DEF Outcome
  <2>7. CASE watchHandler
    <3> DEFINE j == EventKey(rv)
    <3>1. /\ rv < Now /\ rv' = rv + 1 /\ UNCHANGED <<world, phase, popped, store>>
          /\ CASE world[rv][j] = Absent     -> Offer(j, "Added", rv + 1)
               [] world[rv + 1][j] = Absent -> Delete(j, rv + 1)
               [] OTHER                     -> Offer(j, "Updated", rv + 1)
      BY <2>7 DEF watchHandler, server, consumer
    <3>2. /\ j \in Keys /\ world[rv + 1][j] # world[rv][j]
          /\ \A i \in Keys \ {j} : world[rv + 1][i] = world[rv][i]
      BY <1>1, <3>1, EventIsNext
    <3> HIDE DEF j
    <3>3. CASE k = j
      <4>1. world[rv][j] # Absent /\ world[rv + 1][j] = Absent BY <2>1, <3>1, <3>2, <3>3
      <4>2. Delete(k, rv + 1) BY <3>1, <3>3, <4>1
      <4> QED BY <2>1, <2>3, <3>1, <4>2
    <3>4. CASE k # j
      <4>1. items'[k] = items[k]
        <5>1. items' = items \/ \E q : items' = [items EXCEPT ![j] = q]
          BY <3>1 DEF Offer, Delete, queueActionLocked
        <5> QED BY <1>1, <3>4, <5>1 DEF Inv, TypeOK
      <4>2. Outcome(k)' = Outcome(k) BY <3>1, <4>1 DEF Outcome
      <4>3. world'[rv'][k] = world[rv][k] BY <3>1, <3>2, <3>4
      <4>4. Synced' = Synced BY <3>1 DEF Synced
      <4> QED BY <4>2, <4>3, <4>4 DEF Wrong
    <3> QED BY <3>3, <3>4
  <2>8. CASE Pop
    <3>1. UNCHANGED <<world, phase, rv>> BY <2>8 DEF Pop, server, reflector
    <3> QED BY <1>1, <2>2, <2>8, <3>1, PopKeepsOutcome DEF Synced
  <2>9. CASE Process
    <3>1. UNCHANGED <<world, phase, rv>> BY <2>9 DEF Process, server, reflector
    <3> QED BY <1>1, <2>2, <2>9, <3>1, ProcessKeepsOutcome DEF Synced
  <2>10. CASE UNCHANGED vars
    <3>1. UNCHANGED <<world, phase, rv, items, popped, store>>
      BY <2>10 DEF vars, server, reflector, fifo, consumer
    <3> QED BY <2>2, <3>1 DEF Synced, Outcome
  <2> QED BY <1>1, <2>4, <2>5, <2>6, <2>7, <2>8, <2>9, <2>10 DEF Next
<1>2. Inv /\ [Next]_vars => [GhostsBegin]_vars BY <1>1
<1> QED BY <1>2, Invariance, PTL DEF Spec, GhostsAreUnknown

(* A list that finds every delta processed repairs every object.           *)
ListRepairs ==
  syncWith /\ queue = <<>> /\ popped.deltas = <<>> =>
    \A k \in Keys : Outcome(k)' = world'[rv'][k]

(* What Delete has lost, the next list that comes upon an idle processLoop *)
(* makes up for: the ground on which Converges rests.                      *)
THEOREM QuietListsRepair == Spec => [][ListRepairs]_vars
<1>1. ASSUME GhostsBegin, Inv PROVE ListRepairs
  <2> SUFFICES ASSUME syncWith, queue = <<>>, popped.deltas = <<>>, NEW k \in Keys, Wrong(k)'
               PROVE  FALSE
    BY DEF ListRepairs, Wrong
  <2>1. Synced' /\ ~Synced BY DEF syncWith, Goes, Synced
  <2>2. k \notin Known /\ Outcome(k) # Absent BY <1>1, <2>1 DEF GhostsBegin
  <2>3. items[k] = <<>> BY <1>1 DEF Inv, QueueMatchesItems
  <2> QED BY <2>2, <2>3 DEF Outcome, Known
<1>2. Inv /\ [GhostsBegin]_vars => [ListRepairs]_vars BY <1>1
<1> QED BY <1>2, GhostsOnlyFromUnknown, Invariance, PTL DEF GhostsAreUnknown
=============================================================================
