---------------------------- MODULE MCEnforcement ----------------------------
(* Two heads and two signals: silence, which two of sink a client and an   *)
(* amnesty takes back, and one with a weight just above what a single      *)
(* signal may carry.                                                       *)
EXTENDS Enforcement

CONSTANTS h1, h2

MCReports ==
  {[kind |-> "NO_RECEIPTS", count |-> 32, weight |-> 0, from |-> "head"],
   [kind |-> "PORT_SCAN", count |-> 64, weight |-> 29, from |-> "node"]}
=============================================================================
