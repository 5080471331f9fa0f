--------------------------- MODULE MCLeaseManager ---------------------------
(* LeaseManager with two managers, one lease and two holders.              *)
EXTENDS LeaseManager, TLC

CONSTANTS m1, m2, x1, h1, h2, c1, c2

Req(kind, m, h) == [kind |-> kind, mgr |-> m, name |-> x1, holder |-> h]

(* The first caller claims, for h1 or for h2; the second one waits, checks *)
(* or claims at the other manager.                                         *)
MCRequests ==
  (c1 :> {Req("claim", m1, h1), Req("claim", m2, h2)}) @@
  (c2 :> {Req("wait", m1, None), Req("check", m1, h2), Req("claim", m2, h2)})
=============================================================================
