------------------------------- MODULE MCTrust -------------------------------
(* Trust with a day of two hours.                                          *)
EXTENDS Trust

=============================================================================
