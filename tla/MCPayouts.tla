------------------------------ MODULE MCPayouts ------------------------------
(* Up to two donors, a node and a wallet each, and one thing goes wrong.   *)
EXTENDS Payouts

CONSTANTS n1, n2, d1, d2

MCOwner == [n \in Nodes |-> IF n = n1 THEN d1 ELSE d2]
MCWallets == {1, 2}
MCMayName == [d \in Donors |-> IF d = d1 THEN {1} ELSE {2}]
=============================================================================
