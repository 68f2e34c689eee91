----------------------------- MODULE MCReceipts -----------------------------
(* An instance of Receipts for TLC: three receipts, of which the door looks*)
(* at two and has room for one.                                            *)
EXTENDS Receipts

CONSTANTS r1, r2, r3

MCSigned == {r1, r2, r3}

(* Receipts differ in nothing but their names, and no queue here is long   *)
(* enough to have an order.                                                *)
MCSymmetry == Permutations(MCSigned)
=============================================================================
