--------------------------- MODULE MCLeaseClient ---------------------------
(* LeaseClient with two controllers, the second ahead of the first.        *)
EXTENDS LeaseClient, TLC

CONSTANTS c1, c2, h1, h2

MCOffset  == c1 :> 0 @@ c2 :> 2
MCHolders == Permutations({h1, h2})

(* The run with failures leaves room for two leases to lapse, and bounds   *)
(* what the clients are asked for instead: the one that fails claims for   *)
(* the first holder, the other one does all else for the second.           *)
Asked(c, h, kinds) ==
  call[c].kind \in kinds \cup {"refresh"} /\ call[c].holder \in {h, None}
MCAsked ==
  Asked(c1, h1, {"claim"}) /\ Asked(c2, h2, {"claim", "extend", "expire"})
=============================================================================
