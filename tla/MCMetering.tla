----------------------------- MODULE MCMetering -----------------------------
(* Metering with a short queue and a few events.                           *)
EXTENDS Metering

=============================================================================
