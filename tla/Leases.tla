------------------------------- MODULE Leases -------------------------------
(***************************************************************************)
(* What a namespace of leases promises, whoever writes it and whatever the *)
(* clocks show: a lease passes from one holder to another only through     *)
(* vacancy, falls vacant only after its time is over, and an extension     *)
(* never ends the time of a lease that still runs.                         *)
(*                                                                         *)
(* Time is abstracted to the set of leases whose time is over.  A lease    *)
(* that is written late may be over from the beginning.                    *)
(***************************************************************************)
CONSTANTS Names, Holders, None

VARIABLES
  holder,  \* who holds each lease, or None
  lapsed   \* the leases that are recorded as held although their time is over

leases == <<holder, lapsed>>

Vacant(x) == holder[x] = None

NoLeases == holder = [x \in Names |-> None] /\ lapsed = {}

Claim(x, h) ==
  /\ Vacant(x)
  /\ holder' = [holder EXCEPT ![x] = h]
  /\ lapsed' \in {lapsed, lapsed \cup {x}}

Extend(x) ==
  /\ ~Vacant(x)
  /\ lapsed' \in {lapsed, lapsed \ {x}}
  /\ UNCHANGED holder

Lapse(S) ==
  /\ \A x \in S : ~Vacant(x)
  /\ lapsed' = lapsed \cup S
  /\ UNCHANGED holder

Expire(x) ==
  /\ x \in lapsed
  /\ holder' = [holder EXCEPT ![x] = None]
  /\ lapsed' = lapsed \ {x}

LeaseStep ==
  \/ \E x \in Names : Extend(x) \/ Expire(x) \/ \E h \in Holders : Claim(x, h)
  \/ \E S \in SUBSET Names : Lapse(S)

LeaseSpec == NoLeases /\ [][LeaseStep]_leases
=============================================================================
