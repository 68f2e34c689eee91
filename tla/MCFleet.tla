------------------------------- MODULE MCFleet -------------------------------
(* One machine that enrols twice, two Joins at once over one token: the    *)
(* nodes of different machines share the store and the pass, no more.      *)
EXTENDS Fleet

CONSTANTS m1, c1, c2, t1
=============================================================================
