----------------------------- MODULE MCAllocator -----------------------------
(* A small instance of Allocator: one user, three nodes, one device.       *)
EXTENDS Allocator, TLC

CONSTANTS u1, n1, n2, n3, d1, t1, t2

(* Nodes are interchangeable, tokens are too.                              *)
Symmetry == Permutations({n1, n2, n3}) \cup Permutations({t1, t2})

=============================================================================
