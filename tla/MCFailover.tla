----------------------------- MODULE MCFailover -----------------------------
(* Failover with two replicas, whose calls may take as long as a renewal   *)
(* lasts; one is tried twice in that time.                                 *)
EXTENDS Failover

CONSTANTS r1, r2, u1

MCReplicas == {r1, r2}
MCUsers == {u1}

=============================================================================
