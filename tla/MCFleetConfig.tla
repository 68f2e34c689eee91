---------------------------- MODULE MCFleetConfig ----------------------------
(* An instance of FleetConfig for TLC: a node, a client, and dests of which*)
(* the last is one no client would be expected to visit.                   *)
EXTENDS FleetConfig

CONSTANTS n1, c1, d1, d2, d3, f1, f2

MCDests == {d1, d2, d3}
MCPlausible == {d1, d2}

(* The hash is any function of the pool: one that draws d2 where it can.   *)
MCDraw == [x \in Nodes \X ((SUBSET Dests) \ {{}}) |->
             IF d2 \in x[2] THEN d2 ELSE IF d1 \in x[2] THEN d1 ELSE d3]

(* What a scan finds has the dest of the flags in it, or has not.          *)
MCFlags == {[dest |-> d, auto |-> TRUE, form |-> f1] : d \in {d1, d2}}
MCScans == {{d2, d3}}

(* The operator leaves it to the head, or names a dest; other ports.       *)
MCSaves == {[dest |-> NoDest, auto |-> TRUE, form |-> f2], [dest |-> d1, auto |-> FALSE, form |-> f1]}
=============================================================================
