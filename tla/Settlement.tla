------------------------------ MODULE Settlement ------------------------------
(***************************************************************************)
(* What the federation promises its donors about an epoch, whoever fails:  *)
(* an epoch is booked once and never rewritten, roots go on chain in the   *)
(* order of booking, and a leaf is paid at most once, exactly as booked,   *)
(* and not before its root is on chain.                                    *)
(***************************************************************************)
EXTENDS Naturals, Sequences

VARIABLES
  booked,   \* the epochs so far, each a set of leaves [wallet, amount]
  rooted,   \* how many of them have their root on chain
  paid      \* payments made on chain: [epoch, wallet, amount]

vars == <<booked, rooted, paid>>

Init == booked = <<>> /\ rooted = 0 /\ paid = {}

Book ==
  /\ Len(booked') = Len(booked) + 1
  /\ \A n \in 1..Len(booked) : booked'[n] = booked[n]
  /\ UNCHANGED <<rooted, paid>>

PublishRoot ==
  /\ rooted < Len(booked)
  /\ rooted' = rooted + 1
  /\ UNCHANGED <<booked, paid>>

Pay(n, leaf) ==
  /\ \A p \in paid : ~(p.epoch = n /\ p.wallet = leaf.wallet)
  /\ paid' = paid \cup {[epoch |-> n, wallet |-> leaf.wallet, amount |-> leaf.amount]}
  /\ UNCHANGED <<booked, rooted>>

Next ==
  \/ Book
  \/ PublishRoot
  \/ \E n \in 1..rooted : \E leaf \in booked[n] : Pay(n, leaf)

Spec == Init /\ [][Next]_vars
=============================================================================
