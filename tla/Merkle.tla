-------------------------------- MODULE Merkle --------------------------------
(***************************************************************************)
(* The tree an epoch's leaves are folded into.  Its root goes on chain, a  *)
(* donor is paid against the path from a leaf to the root, and the program *)
(* on chain recomputes the root from that path.                            *)
(*                                                                         *)
(* A hash is the term it is the hash of: two hashes are equal exactly when *)
(* what was hashed is.  Leaves and inner nodes carry different tags.       *)
(*                                                                         *)
(* The loops of the code are recursive functions of the rounds they made,  *)
(* of which there are at most as many as there are leaves.                 *)
(***************************************************************************)
EXTENDS Integers, Sequences, SequencesExt

leafTag == 0
nodeTag == 1

LeafHash(epoch, index, address, amount) == <<leafTag, index, address, amount, epoch>>

(* The pair is sorted before it is hashed: its order does not matter.      *)
PairHash(a, b) == <<nodeTag, {a, b}>>

(* Mutant: the odd one is doubled.                                         *)
MutLevelAbove(level) ==
  [i \in 1..((Len(level) + 1) \div 2) |->
     PairHash(level[2 * i - 1], level[IF 2 * i <= Len(level) THEN 2 * i ELSE 2 * i - 1])]

(* One level up: pairs are joined, an odd one at the end goes up as it is. *)
LevelAbove(level) ==
  [i \in 1..((Len(level) + 1) \div 2) |->
     IF 2 * i <= Len(level) THEN PairHash(level[2 * i - 1], level[2 * i])
     ELSE level[Len(level)]]

Levels(leaves) ==
  LET level[k \in 0..Len(leaves)] == IF k = 0 THEN leaves ELSE LevelAbove(level[k - 1])
  IN  level

(* The tree grows while its topmost level has more than one node.          *)
Height(leaves) ==
  CHOOSE h \in 0..Len(leaves) :
    /\ Len(Levels(leaves)[h]) <= 1
    /\ \A k \in 0..(h - 1) : Len(Levels(leaves)[k]) > 1

Root(leaves) == Levels(leaves)[Height(leaves)][1]

(* index ^ 1, from 0.                                                      *)
Sibling(index) == IF index % 2 = 0 THEN index + 1 ELSE index - 1

(* A node goes one level up and takes its sibling down; where it goes up   *)
(* alone there is none.                                                    *)
Climb(at, level) ==
  [index |-> at.index \div 2,
   proof |-> IF Sibling(at.index) < Len(level)
             THEN Append(at.proof, level[Sibling(at.index) + 1]) ELSE at.proof]

Walk(leaves, index) ==
  LET walk[k \in 0..Len(leaves)] ==
        IF k = 0 THEN [index |-> index, proof |-> <<>>]
        ELSE Climb(walk[k - 1], Levels(leaves)[k - 1])
  IN  walk

Proof(leaves, index) == Walk(leaves, index)[Height(leaves)].proof

VerifyProof(root, leaf, proof) == FoldLeft(PairHash, leaf, proof) = root

(* In every tree of up to MaxLeaves leaves, whatever its odd ends, a leaf  *)
(* proves itself with its own path and with no other.                      *)
MaxLeaves == 7

TreesProve ==
  \A n \in 1..MaxLeaves :
    LET leaves == [i \in 1..n |-> LeafHash(1, i - 1, i, i)] IN
    \A i, j \in 1..n : VerifyProof(Root(leaves), leaves[i], Proof(leaves, j - 1)) <=> i = j
=============================================================================
