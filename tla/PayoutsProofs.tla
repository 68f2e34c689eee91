---------------------------- MODULE PayoutsProofs ----------------------------
(* An epoch is booked once and its leaves never change afterwards; what is *)
(* on chain is what was booked; and nobody is paid twice for a byte or a   *)
(* period while no close stops half way.                                   *)
EXTENDS Payouts, FiniteSetTheorems, WellFoundedInduction, TLAPS

-----------------------------------------------------------------------------
(* Trees.  A recursive function is the one that is chosen among those that *)
(* satisfy its equation: that there is one is shown by induction, and so   *)
(* is what it comes to.                                                    *)

(* A set of naturals has a least element, because < is well founded.       *)
LEMMA LeastNatural == ASSUME NEW T \in SUBSET Nat, T # {} PROVE \E x \in T : \A y \in T : x <= y
<1> DEFINE R == OpToRel(<, Nat)
<1>1. IsWellFoundedOn(R, Nat)
  BY NatLessThanWellFounded
<1>2. \A x, y \in Nat : x < y => <<x, y>> \in R
  BY DEF OpToRel
<1> HIDE DEF R
<1>3. PICK x \in T : \A y \in T : ~ (<<y, x>> \in R)
  BY <1>1, WFMin
<1>4. \A y \in T : ~ (y < x)
  BY <1>2, <1>3
<1> QED BY <1>4

(* Induction, with the set of the naturals that have the property.         *)
LEMMA Induction == ASSUME NEW T, 0 \in T, \A n \in Nat : n \in T => n + 1 \in T PROVE Nat \subseteq T
<1> SUFFICES ASSUME NEW k \in Nat, k \notin T PROVE FALSE
  OBVIOUS
<1> DEFINE B == Nat \ T
<1>1. B \in SUBSET Nat /\ B # {}
  OBVIOUS
<1>2. PICK x \in B : \A y \in B : x <= y
  <2> HIDE DEF B
  <2> QED BY <1>1, LeastNatural
<1>3. x # 0 /\ x - 1 \in Nat
  OBVIOUS
<1> QED BY <1>2, <1>3

(* The levels are those that LevelAbove makes of each other.               *)
IsTower(level, leaves, n) ==
  level = [k \in 0..n |-> IF k = 0 THEN leaves ELSE LevelAbove(level[k - 1])]

LEMMA TowerExists ==
  ASSUME NEW leaves
  PROVE  \A n \in Nat : \E level : IsTower(level, leaves, n)
<1> DEFINE T == {n \in Nat : \E level : IsTower(level, leaves, n)}
<1>1. 0 \in T
  <2> DEFINE g == [k \in 0..0 |-> leaves]
  <2>1. IsTower(g, leaves, 0)
    BY DEF IsTower
  <2> QED BY <2>1
<1>2. ASSUME NEW n \in Nat, n \in T PROVE n + 1 \in T
  <2>1. PICK f : IsTower(f, leaves, n)
    BY <1>2
  <2> DEFINE g == [k \in 0..(n + 1) |-> IF k = n + 1 THEN LevelAbove(f[n]) ELSE f[k]]
  <2>2. \A k \in 0..n : f[k] = IF k = 0 THEN leaves ELSE LevelAbove(f[k - 1])
    BY <2>1, Zenon DEF IsTower
  <2>3. \A k \in 0..(n + 1) : g[k] = IF k = 0 THEN leaves ELSE LevelAbove(g[k - 1])
    <3> TAKE k \in 0..(n + 1)
    <3>1. CASE k = n + 1
      <4>1. g[k] = LevelAbove(f[n]) /\ g[k - 1] = f[n] /\ k # 0
        BY <3>1
      <4> HIDE DEF g
      <4> QED BY <4>1
    <3>2. CASE k # n + 1
      <4>1. k \in 0..n /\ (k # 0 => k - 1 \in 0..n)
        BY <3>2
      <4>2. g[k] = f[k] /\ (k # 0 => g[k - 1] = f[k - 1])
        BY <3>2, <4>1
      <4> HIDE DEF g
      <4> QED BY <2>2, <4>1, <4>2
    <3> QED BY <3>1, <3>2
  <2>4. g = [k \in 0..(n + 1) |-> g[k]]
    OBVIOUS
  <2> HIDE DEF g
  <2>5. [k \in 0..(n + 1) |-> g[k]]
          = [k \in 0..(n + 1) |-> IF k = 0 THEN leaves ELSE LevelAbove(g[k - 1])]
    BY <2>3
  <2>6. IsTower(g, leaves, n + 1)
    BY <2>4, <2>5, Zenon DEF IsTower
  <2> QED BY <2>6
<1>3. Nat \subseteq T
  <2> HIDE DEF T
  <2> QED BY <1>1, <1>2, Induction
<1> QED BY <1>3

LEMMA LevelsRise ==
  ASSUME NEW S, NEW leaves \in Seq(S)
  PROVE  /\ Levels(leaves)[0] = leaves
         /\ \A k \in 1..Len(leaves) : Levels(leaves)[k] = LevelAbove(Levels(leaves)[k - 1])
<1>1. Levels(leaves) = CHOOSE level : IsTower(level, leaves, Len(leaves))
  BY DEF Levels, IsTower
<1>2. Len(leaves) \in Nat
  OBVIOUS
<1>3. IsTower(Levels(leaves), leaves, Len(leaves))
  BY <1>1, <1>2, TowerExists, Zenon
<1>4. \A k \in 0..Len(leaves) :
        Levels(leaves)[k] = IF k = 0 THEN leaves ELSE LevelAbove(Levels(leaves)[k - 1])
  BY <1>3, Zenon DEF IsTower
<1> QED BY <1>2, <1>4

(* The function that FoldLeft goes through for PairHash: what it makes of   *)
(* the nodes at the places t of s.                                        *)
IsFold(f, base, s) ==
  f = [t \in SUBSET (DOMAIN s) |->
         IF t = {} THEN base ELSE PairHash(f[t \ {Max(t)}], s[Max(t)])]

(* FoldLeft, under a name that the provers take as it is.                  *)
Folded(base, s) == FoldLeft(PairHash, base, s)

LEMMA FoldIsChosen ==
  ASSUME NEW base, NEW s
  PROVE  Folded(base, s) = (CHOOSE f : IsFold(f, base, s))[DOMAIN s]
BY DEF Folded, FoldLeft, MapThenFoldSet, IsFold

LEMMA MaxOfPrefix == ASSUME NEW n \in Nat, NEW t \in SUBSET (1..(n + 1)), n + 1 \in t PROVE Max(t) = n + 1
<1>1. \A y \in t : y \in Nat /\ n + 1 >= y
  OBVIOUS
<1>2. \A x \in t : (\A y \in t : x >= y) <=> x = n + 1
  BY <1>1
<1> QED BY <1>1, <1>2 DEF Max

LEMMA FoldExists ==
  ASSUME NEW base, NEW S, NEW s \in Seq(S)
  PROVE  \E f : IsFold(f, base, s)
<1> DEFINE Upto(f, n) == f = [t \in SUBSET (1..n) |->
                            IF t = {} THEN base ELSE PairHash(f[t \ {Max(t)}], s[Max(t)])]
<1> DEFINE T == {n \in Nat : \E f : Upto(f, n)}
<1>1. 0 \in T
  <2>1. SUBSET (1..0) = {{}}
    OBVIOUS
  <2>2. Upto([t \in SUBSET (1..0) |-> base], 0)
    BY <2>1
  <2> QED BY <2>2
<1>2. ASSUME NEW n \in Nat, n \in T PROVE n + 1 \in T
  <2>1. PICK f : Upto(f, n)
    BY <1>2
  <2> DEFINE g == [t \in SUBSET (1..(n + 1)) |->
                   IF n + 1 \in t THEN PairHash(f[t \ {n + 1}], s[n + 1]) ELSE f[t]]
  <2>2. ASSUME NEW t \in SUBSET (1..(n + 1))
        PROVE  g[t] = IF t = {} THEN base ELSE PairHash(g[t \ {Max(t)}], s[Max(t)])
    <3>1. CASE n + 1 \in t
      <4>1. Max(t) = n + 1
        BY <3>1, MaxOfPrefix
      <4>2. g[t \ {n + 1}] = f[t \ {n + 1}]
        OBVIOUS
      <4>3. g[t] = PairHash(f[t \ {n + 1}], s[n + 1])
        BY <3>1
      <4> HIDE DEF g
      <4> QED BY <3>1, <4>1, <4>2, <4>3
    <3>2. CASE n + 1 \notin t
      <4>1. t \in SUBSET (1..n) /\ t \ {Max(t)} \in SUBSET (1..n)
        <5>1. \A i \in t : i \in 1..n
          BY <3>2
        <5> QED BY <5>1
      <4>2. g[t] = f[t] /\ g[t \ {Max(t)}] = f[t \ {Max(t)}]
        BY <3>2
      <4>3. f[t] = IF t = {} THEN base ELSE PairHash(f[t \ {Max(t)}], s[Max(t)])
        BY <2>1, <4>1, Zenon
      <4> HIDE DEF g
      <4> QED BY <4>2, <4>3
    <3> QED BY <3>1, <3>2
  <2>3. Upto(g, n + 1)
    <3>1. g = [t \in SUBSET (1..(n + 1)) |-> g[t]]
      OBVIOUS
    <3>2. \A t \in SUBSET (1..(n + 1)) :
            g[t] = IF t = {} THEN base ELSE PairHash(g[t \ {Max(t)}], s[Max(t)])
      BY <2>2
    <3> HIDE DEF g
    <3>3. [t \in SUBSET (1..(n + 1)) |-> g[t]]
            = [t \in SUBSET (1..(n + 1)) |->
                 IF t = {} THEN base ELSE PairHash(g[t \ {Max(t)}], s[Max(t)])]
      BY <3>2
    <3> QED BY <3>1, <3>3, Zenon
  <2> HIDE DEF Upto
  <2> QED BY <2>3
<1>3. Nat \subseteq T
  <2> HIDE DEF T
  <2> QED BY <1>1, <1>2, Induction
<1>4. DOMAIN s = 1..Len(s) /\ Len(s) \in Nat
  OBVIOUS
<1>5. PICK f : Upto(f, Len(s))
  BY <1>3, <1>4
<1>6. IsFold(f, base, s)
  BY <1>4, <1>5, Zenon DEF IsFold
<1> QED BY <1>6

(* What f goes through on the way, a step for each place.                  *)
FoldsBy(f, base, s) ==
  /\ f[1..0] = base
  /\ \A k \in 0..(Len(s) - 1) : f[1..(k + 1)] = PairHash(f[1..k], s[k + 1])

(* FoldLeft of the nodes up to the k-th.                                  *)
LEMMA FoldSteps ==
  ASSUME NEW base, NEW S, NEW s \in Seq(S), NEW f, IsFold(f, base, s)
  PROVE  FoldsBy(f, base, s)
<1>1. DOMAIN s = 1..Len(s) /\ Len(s) \in Nat
  OBVIOUS
<1>2. \A t \in SUBSET (DOMAIN s) : f[t] = IF t = {} THEN base ELSE PairHash(f[t \ {Max(t)}], s[Max(t)])
  BY Zenon DEF IsFold
<1>3. f[1..0] = base
  <2>1. 1..0 = {} /\ {} \in SUBSET (DOMAIN s)
    OBVIOUS
  <2> QED BY <1>2, <2>1
<1>4. ASSUME NEW k \in 0..(Len(s) - 1)
      PROVE  f[1..(k + 1)] = PairHash(f[1..k], s[k + 1])
  <2>1. 1..(k + 1) \in SUBSET (DOMAIN s) /\ 1..(k + 1) # {} /\ k \in Nat
    <3>1. k \in Nat /\ k + 1 <= Len(s)
      BY <1>1
    <3>2. 1 \in 1..(k + 1)
      BY <3>1
    <3>3. \A i \in 1..(k + 1) : i \in 1..Len(s)
      BY <1>1, <3>1
    <3> QED BY <1>1, <3>1, <3>2, <3>3
  <2>2. Max(1..(k + 1)) = k + 1 /\ (1..(k + 1)) \ {k + 1} = 1..k
    BY <2>1, MaxOfPrefix
  <2> QED BY <1>2, <2>1, <2>2
<1> QED BY <1>3, <1>4 DEF FoldsBy

LEMMA FoldOf ==
  ASSUME NEW base, NEW S, NEW s \in Seq(S)
  PROVE  \E f : Folded(base, s) = f[1..Len(s)] /\ FoldsBy(f, base, s)
<1> DEFINE c == CHOOSE f : IsFold(f, base, s)
<1>1. IsFold(c, base, s)
  BY FoldExists, Zenon
<1>2. Folded(base, s) = c[DOMAIN s]
  BY FoldIsChosen
<1>3. DOMAIN s = 1..Len(s)
  OBVIOUS
<1> HIDE DEF c
<1>4. FoldsBy(c, base, s)
  BY <1>1, FoldSteps, Zenon
<1> QED BY <1>2, <1>3, <1>4

(* The last node of a path is hashed with last.                            *)
LEMMA FoldOfAppend ==
  ASSUME NEW base, NEW S, NEW s \in Seq(S), NEW x \in S
  PROVE  Folded(base, Append(s, x)) = PairHash(Folded(base, s), x)
<1> DEFINE a == Append(s, x)
<1>1. a \in Seq(S) /\ Len(a) = Len(s) + 1 /\ Len(s) \in Nat
      /\ a[Len(s) + 1] = x /\ \A i \in 1..Len(s) : a[i] = s[i]
  OBVIOUS
<1> HIDE DEF a
<1>2. PICK f : Folded(base, s) = f[1..Len(s)] /\ FoldsBy(f, base, s)
  BY FoldOf, Zenon
<1>3. PICK g : Folded(base, a) = g[1..Len(a)] /\ FoldsBy(g, base, a)
  BY <1>1, FoldOf, Zenon
<1> USE DEF FoldsBy
<1> DEFINE T == {k \in Nat : k <= Len(s) => g[1..k] = f[1..k]}
<1>6. 0 \in T
  BY <1>2, <1>3
<1>7. ASSUME NEW k \in Nat, k \in T PROVE k + 1 \in T
  <2> SUFFICES ASSUME k + 1 <= Len(s) PROVE g[1..(k + 1)] = f[1..(k + 1)]
    OBVIOUS
  <2>1. k \in 0..(Len(s) - 1) /\ k \in 0..(Len(a) - 1) /\ k + 1 \in 1..Len(s)
    BY <1>1
  <2>2. a[k + 1] = s[k + 1] /\ g[1..k] = f[1..k]
    BY <1>1, <1>7, <2>1
  <2> QED BY <1>2, <1>3, <2>1, <2>2
<1>8. Nat \subseteq T
  <2> HIDE DEF T
  <2> QED BY <1>6, <1>7, Induction
<1>9. g[1..Len(s)] = f[1..Len(s)]
  BY <1>1, <1>8
<1>10. g[1..(Len(s) + 1)] = PairHash(g[1..Len(s)], x)
  BY <1>1, <1>3
<1> QED BY <1>1, <1>2, <1>3, <1>9, <1>10 DEF a

(* The level above is a list half as long.                                 *)
LEMMA AboveIsHalf ==
  ASSUME NEW S, NEW level \in Seq(S)
  PROVE  /\ \E T : LevelAbove(level) \in Seq(T)
         /\ Len(LevelAbove(level)) = (Len(level) + 1) \div 2
         /\ \A i \in 1..((Len(level) + 1) \div 2) :
              LevelAbove(level)[i] = IF 2 * i <= Len(level) THEN PairHash(level[2 * i - 1], level[2 * i])
                                     ELSE level[Len(level)]
<1> DEFINE m == (Len(level) + 1) \div 2
           above == LevelAbove(level)
           T == {above[i] : i \in 1..m}
<1>1. m \in Nat
  OBVIOUS
<1>2. above = [i \in 1..m |-> IF 2 * i <= Len(level) THEN PairHash(level[2 * i - 1], level[2 * i])
                              ELSE level[Len(level)]]
  BY DEF LevelAbove
<1>3. \A i \in 1..m : above[i] = IF 2 * i <= Len(level) THEN PairHash(level[2 * i - 1], level[2 * i])
                                 ELSE level[Len(level)]
  BY <1>2
<1> HIDE DEF m, above
<1>4. above \in [1..m -> T]
  BY <1>2
<1> HIDE DEF T
<1>5. above \in Seq(T) /\ Len(above) = m
  BY <1>1, <1>4
<1> QED BY <1>3, <1>5 DEF m, above

(* Half of a length, rounded up.                                           *)
LEMMA HalfIsLess ==
  ASSUME NEW a \in Nat, NEW k \in Nat, NEW n \in Nat, a >= 1, a = 1 \/ a + k <= n, k + 1 <= n
  PROVE  (a + 1) \div 2 >= 1 /\ ((a + 1) \div 2 = 1 \/ (a + 1) \div 2 + (k + 1) <= n)
OBVIOUS

(* Levels are lists that shrink while they are longer than one.            *)
LEMMA LevelsShrink ==
  ASSUME NEW S, NEW leaves \in Seq(S), leaves # <<>>
  PROVE  \A k \in 0..Len(leaves) :
           /\ \E T : Levels(leaves)[k] \in Seq(T)
           /\ Len(Levels(leaves)[k]) \in Nat
           /\ Len(Levels(leaves)[k]) >= 1
           /\ Len(Levels(leaves)[k]) = 1 \/ Len(Levels(leaves)[k]) + k <= Len(leaves)
<1> DEFINE level == Levels(leaves)
           n == Len(leaves)
           len(k) == Len(level[k])
           P(k) == /\ \E T : level[k] \in Seq(T)
                   /\ len(k) \in Nat
                   /\ len(k) >= 1
                   /\ len(k) = 1 \/ len(k) + k <= n
           K == {k \in Nat : k <= n => P(k)}
<1>a. n \in Nat /\ n >= 1
  OBVIOUS
<1>b. level[0] = leaves /\ \A k \in 1..n : level[k] = LevelAbove(level[k - 1])
  BY LevelsRise
<1> HIDE DEF level
<1>1. 0 \in K
  BY <1>a, <1>b
<1>2. ASSUME NEW k \in Nat, k \in K PROVE k + 1 \in K
  <2> SUFFICES ASSUME k + 1 <= n PROVE P(k + 1)
    <3> HIDE DEF P
    <3> QED OBVIOUS
  <2>1. P(k)
    <3> HIDE DEF P
    <3> QED BY <1>2, <1>a
  <2>2. PICK T : level[k] \in Seq(T)
    BY <2>1
  <2>3. level[k + 1] = LevelAbove(level[k])
    <3>1. k + 1 \in 1..n /\ (k + 1) - 1 = k
      BY <1>a
    <3> QED BY <1>b, <3>1
  <2>4. (\E U : level[k + 1] \in Seq(U)) /\ len(k + 1) = (len(k) + 1) \div 2
    BY <2>2, <2>3, AboveIsHalf
  <2> HIDE DEF n, len
  <2>5. len(k + 1) \in Nat /\ len(k + 1) >= 1 /\ (len(k + 1) = 1 \/ len(k + 1) + (k + 1) <= n)
    BY <1>a, <2>1, <2>4, HalfIsLess
  <2> QED BY <2>4, <2>5
<1>3. Nat \subseteq K
  <2> HIDE DEF K
  <2> QED BY <1>1, <1>2, Induction
<1>4. \A k \in 0..n : P(k)
  <2> HIDE DEF P
  <2> QED BY <1>a, <1>3
<1> QED BY <1>4 DEF level

(* The tree has a height, and at it there is one node.                     *)
LEMMA HeightExists ==
  ASSUME NEW S, NEW leaves \in Seq(S), leaves # <<>>
  PROVE  /\ Height(leaves) \in 0..Len(leaves)
         /\ Len(Levels(leaves)[Height(leaves)]) = 1
<1> DEFINE n == Len(leaves)
           len(k) == Len(Levels(leaves)[k])
           T == {k \in 0..n : len(k) <= 1}
           g == Height(leaves)
<1>a. n \in Nat /\ n >= 1
  OBVIOUS
<1>b. \A k \in 0..n : len(k) \in Nat /\ len(k) >= 1 /\ (len(k) = 1 \/ len(k) + k <= n)
  BY LevelsShrink
<1>c. g = CHOOSE h \in 0..n : len(h) <= 1 /\ \A k \in 0..(h - 1) : len(k) > 1
  BY DEF Height
<1> HIDE DEF len, n, g
<1>1. n \in T
  BY <1>a, <1>b
<1>2. PICK h \in T : \A k \in T : h <= k
  <2>1. T \in SUBSET Nat /\ T # {}
    BY <1>a, <1>1
  <2> HIDE DEF T
  <2> QED BY <2>1, LeastNatural
<1>3. \A k \in 0..(h - 1) : len(k) > 1
  <2> TAKE k \in 0..(h - 1)
  <2>1. k \in 0..n /\ k < h /\ h \in 0..n
    BY <1>a, <1>2
  <2>2. k \notin T
    BY <1>2, <2>1
  <2> QED BY <1>b, <2>1, <2>2
<1>4. \E i \in 0..n : len(i) <= 1 /\ \A k \in 0..(i - 1) : len(k) > 1
  BY <1>2, <1>3
<1>5. g \in 0..n /\ len(g) <= 1
  BY <1>4, <1>c
<1>6. len(g) = 1
  BY <1>b, <1>5
<1> QED BY <1>5, <1>6 DEF len, n, g

(* A walk climbs one level at a time.                                      *)
IsWalk(walk, leaves, index, n) ==
  walk = [k \in 0..n |-> IF k = 0 THEN [index |-> index, proof |-> <<>>]
                          ELSE Climb(walk[k - 1], Levels(leaves)[k - 1])]

LEMMA WalkExists ==
  ASSUME NEW leaves, NEW index
  PROVE  \A n \in Nat : \E walk : IsWalk(walk, leaves, index, n)
<1> DEFINE start == [index |-> index, proof |-> <<>>]
           T == {n \in Nat : \E walk : IsWalk(walk, leaves, index, n)}
<1>1. 0 \in T
  <2> DEFINE g == [k \in 0..0 |-> start]
  <2>1. IsWalk(g, leaves, index, 0)
    BY DEF IsWalk
  <2> QED BY <2>1
<1>2. ASSUME NEW n \in Nat, n \in T PROVE n + 1 \in T
  <2>1. PICK f : IsWalk(f, leaves, index, n)
    BY <1>2
  <2> DEFINE g == [k \in 0..(n + 1) |-> IF k = n + 1 THEN Climb(f[n], Levels(leaves)[n]) ELSE f[k]]
  <2>2. \A k \in 0..n : f[k] = IF k = 0 THEN start ELSE Climb(f[k - 1], Levels(leaves)[k - 1])
    BY <2>1, Zenon DEF IsWalk
  <2>3. \A k \in 0..(n + 1) : g[k] = IF k = 0 THEN start ELSE Climb(g[k - 1], Levels(leaves)[k - 1])
    <3> TAKE k \in 0..(n + 1)
    <3>1. CASE k = n + 1
      <4>1. g[k] = Climb(f[n], Levels(leaves)[n]) /\ g[k - 1] = f[n] /\ k # 0 /\ k - 1 = n
        BY <3>1
      <4> HIDE DEF g, start
      <4> QED BY <4>1
    <3>2. CASE k # n + 1
      <4>1. k \in 0..n /\ (k # 0 => k - 1 \in 0..n)
        BY <3>2
      <4>2. g[k] = f[k] /\ (k # 0 => g[k - 1] = f[k - 1])
        BY <3>2, <4>1
      <4> HIDE DEF g
      <4> QED BY <2>2, <4>1, <4>2
    <3> QED BY <3>1, <3>2
  <2>4. g = [k \in 0..(n + 1) |-> g[k]]
    OBVIOUS
  <2> HIDE DEF g
  <2>5. [k \in 0..(n + 1) |-> g[k]]
          = [k \in 0..(n + 1) |-> IF k = 0 THEN start ELSE Climb(g[k - 1], Levels(leaves)[k - 1])]
    BY <2>3
  <2>6. IsWalk(g, leaves, index, n + 1)
    BY <2>4, <2>5, Zenon DEF IsWalk
  <2> QED BY <2>6
<1>3. Nat \subseteq T
  <2> HIDE DEF T
  <2> QED BY <1>1, <1>2, Induction
<1> QED BY <1>3

LEMMA WalkSteps ==
  ASSUME NEW S, NEW leaves \in Seq(S), NEW index
  PROVE  /\ Walk(leaves, index)[0] = [index |-> index, proof |-> <<>>]
         /\ \A k \in 1..Len(leaves) :
              Walk(leaves, index)[k] = Climb(Walk(leaves, index)[k - 1], Levels(leaves)[k - 1])
<1> DEFINE start == [index |-> index, proof |-> <<>>]
<1>1. Walk(leaves, index) = CHOOSE walk : IsWalk(walk, leaves, index, Len(leaves))
  BY DEF Walk, IsWalk
<1>2. Len(leaves) \in Nat
  OBVIOUS
<1>3. IsWalk(Walk(leaves, index), leaves, index, Len(leaves))
  BY <1>1, <1>2, WalkExists, Zenon
<1>4. \A k \in 0..Len(leaves) :
        Walk(leaves, index)[k] = IF k = 0 THEN start
                                 ELSE Climb(Walk(leaves, index)[k - 1], Levels(leaves)[k - 1])
  BY <1>3, Zenon DEF IsWalk
<1> HIDE DEF start
<1>5. Walk(leaves, index)[0] = start
  BY <1>2, <1>4
<1>6. \A k \in 1..Len(leaves) :
        Walk(leaves, index)[k] = Climb(Walk(leaves, index)[k - 1], Levels(leaves)[k - 1])
  BY <1>2, <1>4
<1> QED BY <1>5, <1>6 DEF start

LEMMA FoldOfNone == ASSUME NEW base PROVE Folded(base, <<>>) = base
<1>1. <<>> \in Seq({}) /\ Len(<<>>) = 0
  OBVIOUS
<1>2. \E f : Folded(base, <<>>) = f[1..Len(<<>>)] /\ f[1..0] = base
  <2> DEFINE s == <<>>
  <2>1. s \in Seq({})
    OBVIOUS
  <2> HIDE DEF s
  <2>2. \E f : Folded(base, s) = f[1..Len(s)] /\ f[1..0] = base
    BY <2>1, FoldOf DEF FoldsBy
  <2> QED BY <2>2 DEF s
<1> QED BY <1>1, <1>2

(* Different leaves lead to different roots along the same path.           *)
LEMMA PairsDiffer ==
  ASSUME NEW a, NEW b, NEW x, PairHash(a, x) = PairHash(b, x)
  PROVE  a = b
<1>1. {a, x} = {b, x}
  BY DEF PairHash
<1> QED BY <1>1

LEMMA FoldsDiffer ==
  ASSUME NEW a, NEW b, NEW S, NEW s \in Seq(S), Folded(a, s) = Folded(b, s)
  PROVE  a = b
<1> SUFFICES ASSUME a # b PROVE FALSE
  OBVIOUS
<1>1. PICK f : Folded(a, s) = f[1..Len(s)] /\ FoldsBy(f, a, s)
  BY FoldOf, Zenon
<1>2. PICK g : Folded(b, s) = g[1..Len(s)] /\ FoldsBy(g, b, s)
  BY FoldOf, Zenon
<1> USE DEF FoldsBy
<1> DEFINE T == {k \in Nat : k <= Len(s) => f[1..k] # g[1..k]}
<1>3. 0 \in T
  BY <1>1, <1>2
<1>4. ASSUME NEW k \in Nat, k \in T PROVE k + 1 \in T
  <2> SUFFICES ASSUME k + 1 <= Len(s) PROVE f[1..(k + 1)] # g[1..(k + 1)]
    OBVIOUS
  <2>1. k \in 0..(Len(s) - 1) /\ f[1..k] # g[1..k]
    BY <1>4
  <2> QED BY <1>1, <1>2, <2>1, PairsDiffer
<1>5. Nat \subseteq T
  <2> HIDE DEF T
  <2> QED BY <1>3, <1>4, Induction
<1>6. f[1..Len(s)] # g[1..Len(s)]
  BY <1>5
<1> QED BY <1>1, <1>2, <1>6

(* Hashing with the siblings taken down so far gives the node reached.     *)
LEMMA ClimbsToNode ==
  ASSUME NEW base, NEW at, NEW S, NEW level \in Seq(S),
         at.index \in 0..(Len(level) - 1), \E U : at.proof \in Seq(U),
         Folded(base, at.proof) = level[at.index + 1]
  PROVE  /\ Climb(at, level).index \in 0..(Len(LevelAbove(level)) - 1)
         /\ \E U : Climb(at, level).proof \in Seq(U)
         /\ Folded(base, Climb(at, level).proof) = LevelAbove(level)[Climb(at, level).index + 1]
<1> DEFINE i == at.index
           n == Len(level)
           above == LevelAbove(level)
           next == Climb(at, level)
<1>1. /\ next.index = i \div 2
      /\ next.proof = IF Sibling(i) < n THEN Append(at.proof, level[Sibling(i) + 1]) ELSE at.proof
  BY DEF Climb
<1>2. /\ Len(above) = (n + 1) \div 2
      /\ \A k \in 1..((n + 1) \div 2) :
           above[k] = IF 2 * k <= n THEN PairHash(level[2 * k - 1], level[2 * k]) ELSE level[n]
  BY AboveIsHalf
<1>3. n \in Nat /\ i \in 0..(n - 1)
  OBVIOUS
<1>4. ASSUME NEW x
      PROVE  /\ \E U : Append(at.proof, x) \in Seq(U)
             /\ Folded(base, Append(at.proof, x)) = PairHash(level[i + 1], x)
  <2>1. PICK U : at.proof \in Seq(U)
    OBVIOUS
  <2>2. at.proof \in Seq(U \cup {x}) /\ x \in U \cup {x}
    BY <2>1
  <2>3. Append(at.proof, x) \in Seq(U \cup {x})
    BY <2>2
  <2>4. Folded(base, Append(at.proof, x)) = PairHash(Folded(base, at.proof), x)
    BY <2>2, FoldOfAppend
  <2> QED BY <2>3, <2>4
<1> HIDE DEF i, n, above, next
<1>5. i \div 2 \in 0..(((n + 1) \div 2) - 1) /\ (i \div 2) + 1 \in 1..((n + 1) \div 2)
  BY <1>3
<1>6. CASE i % 2 = 0 /\ i + 1 < n
  <2>1. Sibling(i) = i + 1 /\ (i + 1) + 1 = i + 2
    BY <1>3, <1>6 DEF Sibling
  <2>2. next.proof = Append(at.proof, level[i + 2])
    BY <1>1, <1>6, <2>1
  <2>3. 2 * ((i \div 2) + 1) = i + 2 /\ i + 2 <= n /\ (i + 2) - 1 = i + 1
    BY <1>3, <1>6
  <2>4. above[(i \div 2) + 1] = PairHash(level[i + 1], level[i + 2])
    BY <1>2, <1>5, <2>3
  <2> QED BY <1>1, <1>2, <1>4, <1>5, <2>2, <2>4 DEF i, n, above, next
<1>7. CASE i % 2 = 0 /\ ~(i + 1 < n)
  <2>1. Sibling(i) = i + 1 /\ i + 1 = n
    BY <1>3, <1>7 DEF Sibling
  <2>2. next.proof = at.proof
    BY <1>1, <1>7, <2>1
  <2>3. ~(2 * ((i \div 2) + 1) <= n)
    BY <1>3, <1>7
  <2>4. above[(i \div 2) + 1] = level[i + 1]
    BY <1>2, <1>5, <2>1, <2>3
  <2> QED BY <1>1, <1>2, <1>5, <2>2, <2>4 DEF i, n, above, next
<1>8. CASE i % 2 # 0
  <2>1. Sibling(i) = i - 1 /\ (i - 1) + 1 = i /\ i - 1 < n
    BY <1>3, <1>8 DEF Sibling
  <2>2. next.proof = Append(at.proof, level[i])
    BY <1>1, <2>1
  <2>3. 2 * ((i \div 2) + 1) = i + 1 /\ i + 1 <= n /\ (i + 1) - 1 = i
    BY <1>3, <1>8
  <2>4. above[(i \div 2) + 1] = PairHash(level[i], level[i + 1])
    BY <1>2, <1>5, <2>3
  <2>5. PairHash(level[i], level[i + 1]) = PairHash(level[i + 1], level[i])
    <3>1. \A a, b : {a, b} = {b, a}
      OBVIOUS
    <3> QED BY <3>1, Zenon DEF PairHash
  <2> QED BY <1>1, <1>2, <1>4, <1>5, <2>2, <2>4, <2>5 DEF i, n, above, next
<1> QED BY <1>6, <1>7, <1>8

(* So does the whole walk, on every level.                                 *)
LEMMA WalkReaches ==
  ASSUME NEW S, NEW leaves \in Seq(S), NEW index \in 0..(Len(leaves) - 1)
  PROVE  \A k \in 0..Len(leaves) :
           /\ Walk(leaves, index)[k].index \in 0..(Len(Levels(leaves)[k]) - 1)
           /\ \E U : Walk(leaves, index)[k].proof \in Seq(U)
           /\ Folded(leaves[index + 1], Walk(leaves, index)[k].proof)
                = Levels(leaves)[k][Walk(leaves, index)[k].index + 1]
<1> DEFINE n == Len(leaves)
           level == Levels(leaves)
           walk == Walk(leaves, index)
           base == leaves[index + 1]
           P(k) == /\ walk[k].index \in 0..(Len(level[k]) - 1)
                   /\ \E U : walk[k].proof \in Seq(U)
                   /\ Folded(base, walk[k].proof) = level[k][walk[k].index + 1]
           K == {k \in Nat : k <= n => P(k)}
<1>a. n \in Nat /\ leaves # <<>>
  OBVIOUS
<1>b. level[0] = leaves /\ \A k \in 1..n : level[k] = LevelAbove(level[k - 1])
  BY LevelsRise
<1>c. walk[0] = [index |-> index, proof |-> <<>>] /\ \A k \in 1..n : walk[k] = Climb(walk[k - 1], level[k - 1])
  BY WalkSteps
<1>d. \A k \in 0..n : \E T : level[k] \in Seq(T)
  BY <1>a, LevelsShrink
<1> HIDE DEF level, walk, base
<1>1. 0 \in K
  <2>1. walk[0].index = index /\ walk[0].proof = <<>> /\ <<>> \in Seq({})
    BY <1>c
  <2>2. Folded(base, <<>>) = base /\ base = level[0][index + 1]
    BY <1>b, FoldOfNone DEF base
  <2>3. P(0)
    BY <1>b, <2>1, <2>2
  <2> HIDE DEF P
  <2> QED BY <2>3
<1>2. ASSUME NEW k \in Nat, k \in K PROVE k + 1 \in K
  <2> SUFFICES ASSUME k + 1 <= n PROVE P(k + 1)
    <3> HIDE DEF P
    <3> QED OBVIOUS
  <2>1. P(k)
    <3> HIDE DEF P
    <3> QED BY <1>2, <1>a
  <2>2. PICK T : level[k] \in Seq(T)
    BY <1>a, <1>d
  <2>3. k + 1 \in 1..n /\ (k + 1) - 1 = k
    BY <1>a
  <2>4. level[k + 1] = LevelAbove(level[k]) /\ walk[k + 1] = Climb(walk[k], level[k])
    BY <1>b, <1>c, <2>3
  <2> DEFINE next == Climb(walk[k], level[k])
  <2>5. /\ next.index \in 0..(Len(LevelAbove(level[k])) - 1)
        /\ \E U : next.proof \in Seq(U)
        /\ Folded(base, next.proof) = LevelAbove(level[k])[next.index + 1]
    <3>1. /\ walk[k].index \in 0..(Len(level[k]) - 1)
          /\ \E U : walk[k].proof \in Seq(U)
          /\ Folded(base, walk[k].proof) = level[k][walk[k].index + 1]
      BY <2>1
    <3> HIDE DEF P
    <3> QED BY <2>2, <3>1, ClimbsToNode
  <2> HIDE DEF next
  <2> QED BY <2>4, <2>5 DEF next
<1>3. Nat \subseteq K
  <2> HIDE DEF K
  <2> QED BY <1>1, <1>2, Induction
<1>4. \A k \in 0..n : P(k)
  <2> HIDE DEF P
  <2> QED BY <1>a, <1>3
<1> QED BY <1>4 DEF level, walk, base

(* The path of a leaf proves the leaf at its place and no other one.       *)
LEMMA ProvesItself ==
  ASSUME NEW S, NEW leaves \in Seq(S), NEW index \in 0..(Len(leaves) - 1), NEW leaf
  PROVE  VerifyProof(Root(leaves), leaf, Proof(leaves, index)) <=> leaf = leaves[index + 1]
<1> DEFINE h == Height(leaves)
           proof == Proof(leaves, index)
<1>a. leaves # <<>>
  OBVIOUS
<1>1. h \in 0..Len(leaves) /\ Len(Levels(leaves)[h]) = 1
  BY <1>a, HeightExists
<1>2. /\ Walk(leaves, index)[h].index \in 0..(Len(Levels(leaves)[h]) - 1)
      /\ \E U : proof \in Seq(U)
      /\ Folded(leaves[index + 1], proof) = Levels(leaves)[h][Walk(leaves, index)[h].index + 1]
  BY <1>1, WalkReaches DEF Proof
<1>3. Root(leaves) = Levels(leaves)[h][1]
  BY DEF Root
<1> HIDE DEF h, proof
<1>4. Walk(leaves, index)[h].index = 0
  BY <1>1, <1>2
<1>5. Folded(leaves[index + 1], proof) = Root(leaves)
  BY <1>2, <1>3, <1>4
<1>6. VerifyProof(Root(leaves), leaf, proof) <=> Folded(leaf, proof) = Root(leaves)
  BY DEF VerifyProof, Folded
<1>7. ASSUME Folded(leaf, proof) = Root(leaves) PROVE leaf = leaves[index + 1]
  <2>1. PICK U : proof \in Seq(U)
    BY <1>2
  <2> QED BY <1>5, <1>7, <2>1, FoldsDiffer
<1> QED BY <1>5, <1>6, <1>7 DEF proof

(* The trees of the bounded check are such trees.                          *)
LEMMA SmallTreesProve == TreesProve
<1> SUFFICES ASSUME NEW n \in 1..MaxLeaves, NEW i \in 1..n, NEW j \in 1..n
             PROVE  LET leaves == [k \in 1..n |-> LeafHash(1, k - 1, k, k)]
                    IN  VerifyProof(Root(leaves), leaves[i], Proof(leaves, j - 1)) <=> i = j
  BY DEF TreesProve
<1> DEFINE leaves == [k \in 1..n |-> LeafHash(1, k - 1, k, k)]
           S == {leaves[k] : k \in 1..n}
<1>1. n \in Nat
  BY DEF MaxLeaves
<1>2. leaves[i] = LeafHash(1, i - 1, i, i) /\ leaves[j] = LeafHash(1, j - 1, j, j)
  OBVIOUS
<1>3. leaves[i] = leaves[j] <=> i = j
  BY <1>2 DEF LeafHash
<1>4. leaves \in [1..n -> S]
  OBVIOUS
<1> HIDE DEF S
<1>5. leaves \in Seq(S) /\ Len(leaves) = n
  BY <1>1, <1>4
<1> HIDE DEF leaves
<1>6. j - 1 \in 0..(Len(leaves) - 1) /\ (j - 1) + 1 = j
  BY <1>1, <1>5
<1>7. VerifyProof(Root(leaves), leaves[i], Proof(leaves, j - 1)) <=> leaves[i] = leaves[j]
  BY <1>5, <1>6, ProvesItself
<1> QED BY <1>3, <1>7 DEF leaves

-----------------------------------------------------------------------------
(* Payouts.                                                                *)

USE PayoutsAssumption

-----------------------------------------------------------------------------
(* Leaves.                                                                 *)

(* The leaves of an epoch are in its bills and its wallets.                *)
LEMMA LeavesKept ==
  ASSUME NEW e, NEW f, e.bill = f.bill, e.to = f.to
  PROVE  /\ LeafWallets(e) = LeafWallets(f)
         /\ Leaves(e) = Leaves(f)
         /\ \A n : Tree(n, e) = Tree(n, f)
         /\ \A n, w : Payment(n, e, w) = Payment(n, f, w)
<1>1. LeafWallets(e) = LeafWallets(f)
  BY DEF LeafWallets
<1>2. \A w : Amount(e, w) = Amount(f, w)
  BY DEF Amount
<1>3. \A w : IndexOf(e, w) = IndexOf(f, w)
  BY <1>1 DEF IndexOf
<1>4. \A n, w : Leaf(n, e, w) = Leaf(n, f, w)
  BY <1>2, <1>3 DEF Leaf
<1>8. \A i : LeafAt(e, i) = LeafAt(f, i)
  BY <1>1, <1>3 DEF LeafAt
<1>5. \A n : Tree(n, e) = Tree(n, f)
  BY <1>1, <1>4, <1>8 DEF Tree
<1>6. Leaves(e) = Leaves(f)
  BY <1>1, <1>2 DEF Leaves
<1>7. \A n, w : Payment(n, e, w) = Payment(n, f, w)
  BY <1>2, <1>3 DEF Payment
<1> QED BY <1>1, <1>5, <1>6, <1>7

(* The wallets of the leaves are wallets.                                  *)
LEMMA LeavesAreForWallets ==
  ASSUME NEW e \in Epochs
  PROVE  LeafWallets(e) \subseteq Wallets
BY DEF Epochs, LeafWallets

(* What grew and what is billed are counts, and a node is billed no more   *)
(* than it grew by and no more than was signed for.                        *)
LEMMA BilledIsBounded ==
  ASSUME NEW base \in Nat, NEW current \in Nat, NEW receipts \in Nat
  PROVE  /\ Grown(base, current) \in Nat
         /\ Billable(Grown(base, current), receipts) \in Nat
         /\ Billable(Grown(base, current), receipts) <= Grown(base, current)
         /\ Billable(Grown(base, current), receipts) <= receipts
BY DEF Grown, Billable

(* Counting one more grows by at most one; a count begun anew by nothing.  *)
LEMMA GrowsByOne ==
  ASSUME NEW base \in Nat, NEW current \in Nat
  PROVE  /\ Grown(base, current + 1) <= Grown(base, current) + 1
         /\ Grown(base, 0) = 0
         /\ Grown(current, current) = 0
BY DEF Grown

(* What the loop works on, at each of its steps.                           *)
LoopOK ==
  /\ step = "saved" => closing = Len(epochs) /\ closing # NoEpoch
  /\ step = "based" => closing \in {NoEpoch, Len(epochs)}
  /\ step = "paying" => closing # NoEpoch /\ todo \subseteq LeafWallets(epochs[closing])
  /\ step \in {"saved", "based"} => mark # Never /\ mark < now

Typed == TypeOK /\ LoopOK

-----------------------------------------------------------------------------
(* Steps.                                                                  *)

(* An epoch read at a due period is an epoch, and no more is billed than   *)
(* grew and than was signed for.                                           *)
LEMMA EpochForTyped ==
  ASSUME TypeOK, mark # Never, NEW due \in SUBSET Nodes
  PROVE  /\ EpochFor(due) \in Epochs
         /\ EpochFor(due).period = mark
         /\ \A n \in Nodes :
              /\ EpochFor(due).bill[n] \in Nat
              /\ EpochFor(due).bill[n] <= Grown(baseline[n], counter[n])
              /\ EpochFor(due).bill[n] <= signed[n][mark]
              /\ Paying(EpochFor(due), n) \in Nat
              /\ Paying(EpochFor(due), n) <= Grown(baseline[n], counter[n])
<1> DEFINE e == EpochFor(due)
<1>1. mark \in 0..MaxPeriods
  BY DEF TypeOK
<1>2. ASSUME NEW n \in Nodes
      PROVE  /\ Grown(baseline[n], counter[n]) \in Nat
             /\ Billable(Grown(baseline[n], counter[n]), signed[n][mark]) \in Nat
             /\ Billable(Grown(baseline[n], counter[n]), signed[n][mark]) <= Grown(baseline[n], counter[n])
             /\ Billable(Grown(baseline[n], counter[n]), signed[n][mark]) <= signed[n][mark]
             /\ signed[n][mark] \in Nat
             /\ wallet[Owner[n]] \in Wallets \cup {NoWallet}
  <2>1. baseline[n] \in Nat /\ counter[n] \in Nat /\ signed[n][mark] \in Nat
    BY <1>1 DEF TypeOK
  <2> QED BY <2>1, BilledIsBounded DEF TypeOK
<1>3. e.period = mark /\ e.published = FALSE
  BY DEF EpochFor
<1>4. \A n \in Nodes : e.bill[n] = IF n \in due THEN Billable(Grown(baseline[n], counter[n]), signed[n][mark]) ELSE 0
  BY DEF EpochFor
<1>5. e \in Epochs
  BY <1>1, <1>2 DEF EpochFor, Epochs
<1>6. \A n \in Nodes : Paying(e, n) = e.bill[n] \/ Paying(e, n) = 0
  BY DEF Paying
<1> HIDE DEF e
<1>7. ASSUME NEW n \in Nodes
      PROVE  /\ e.bill[n] \in Nat
             /\ e.bill[n] <= Grown(baseline[n], counter[n])
             /\ e.bill[n] <= signed[n][mark]
  BY <1>2, <1>4
<1> QED BY <1>2, <1>3, <1>5, <1>6, <1>7 DEF e

(* The rows of an epoch are only ever marked published; a new epoch is     *)
(* appended by Close.                                                      *)
Kept ==
  /\ Len(epochs') = Len(epochs)
  /\ \A n \in 1..Len(epochs) :
       /\ epochs'[n].period = epochs[n].period
       /\ epochs'[n].bill = epochs[n].bill
       /\ epochs'[n].to = epochs[n].to

LEMMA PublishKeeps ==
  ASSUME TypeOK, NEW n \in 1..Len(epochs), Publish(n)
  PROVE  Kept /\ epochs' \in Seq(Epochs)
<1>1. CASE epochs' = [epochs EXCEPT ![n].published = TRUE]
  <2>1. epochs \in Seq(Epochs) /\ epochs[n] \in Epochs
    BY DEF TypeOK
  <2>2. [epochs[n] EXCEPT !.published = TRUE] \in Epochs
    BY <2>1 DEF Epochs
  <2>3. epochs' = [epochs EXCEPT ![n] = [epochs[n] EXCEPT !.published = TRUE]]
    BY <1>1
  <2>4. epochs' \in Seq(Epochs) /\ Len(epochs') = Len(epochs)
    BY <2>1, <2>2, <2>3
  <2>5. \A k \in 1..Len(epochs) : epochs'[k] = IF k = n THEN [epochs[n] EXCEPT !.published = TRUE] ELSE epochs[k]
    BY <2>1, <2>3
  <2>6. /\ [epochs[n] EXCEPT !.published = TRUE].period = epochs[n].period
        /\ [epochs[n] EXCEPT !.published = TRUE].bill = epochs[n].bill
        /\ [epochs[n] EXCEPT !.published = TRUE].to = epochs[n].to
    BY <2>1 DEF Epochs
  <2> QED BY <2>4, <2>5, <2>6 DEF Kept
<1>2. CASE UNCHANGED epochs
  BY <1>2 DEF Kept, TypeOK
<1> QED BY <1>1, <1>2 DEF Publish

(* Where the rows are kept, so are the roots, the leaves and the payments. *)
LEMMA KeptLeaves ==
  ASSUME Kept, NEW n \in 1..Len(epochs)
  PROVE  /\ LeafWallets(epochs[n])' = LeafWallets(epochs[n])
         /\ Leaves(epochs[n])' = Leaves(epochs[n])
         /\ Tree(n, epochs[n])' = Tree(n, epochs[n])
         /\ \A w : Payment(n, epochs[n], w)' = Payment(n, epochs[n], w)
<1> DEFINE e == epochs[n]
           f == epochs'[n]
<1>1. f.bill = e.bill /\ f.to = e.to
  BY DEF Kept
<1> HIDE DEF e, f
<1>2. /\ LeafWallets(f) = LeafWallets(e)
      /\ Leaves(f) = Leaves(e)
      /\ Tree(n, f) = Tree(n, e)
      /\ \A w : Payment(n, f, w) = Payment(n, e, w)
  BY <1>1, LeavesKept
<1> QED BY <1>2 DEF e, f

-----------------------------------------------------------------------------
(* Types, and where the loop is.                                           *)

(* The roots of the rows are kept with them.                               *)
LEMMA RootsKept == ASSUME Kept PROVE BookedRoots' = BookedRoots
<1>1. Len(epochs') = Len(epochs)
  BY DEF Kept
<1>2. \A n \in 1..Len(epochs) : Root(Tree(n, epochs[n]))' = Root(Tree(n, epochs[n]))
  BY KeptLeaves
<1> QED BY <1>1, <1>2 DEF BookedRoots

LEMMA TypedInitially == Init => Typed
<1> SUFFICES ASSUME Init PROVE Typed
  OBVIOUS
<1>1. epochs \in Seq(Epochs) /\ Len(epochs) = 0 /\ roots \in Seq(BookedRoots) /\ Len(roots) = 0
  BY DEF Init
<1>2. TypeOK
  BY <1>1 DEF Init, TypeOK, Steps, NoCounts, Never, NoEpoch, BookedRoots
<1>3. LoopOK
  BY DEF Init, LoopOK
<1> QED BY <1>2, <1>3 DEF Typed

LEMMA WorldKeepsTyped == ASSUME Typed, World PROVE Typed'
<1>a. TypeOK /\ LoopOK
  BY DEF Typed
<1>b. /\ now \in 0..MaxPeriods /\ now \in Int
      /\ counter \in [Nodes -> Nat] /\ signed \in [Nodes -> [0..MaxPeriods -> Nat]]
      /\ wallet \in [Donors -> Wallets \cup {NoWallet}]
      /\ carried \in [Nodes -> Nat]
      /\ faults \in Nat
  BY <1>a DEF TypeOK
<1> DEFINE Goal == /\ now' \in 0..MaxPeriods /\ now' >= now
                   /\ counter' \in [Nodes -> Nat] /\ signed' \in [Nodes -> [0..MaxPeriods -> Nat]]
                   /\ wallet' \in [Donors -> Wallets \cup {NoWallet}]
                   /\ carried' \in [Nodes -> Nat]
                   /\ faults' \in Nat
<1>1. UNCHANGED <<dbVars, loopVars, chainVars, billed, slips>>
  BY DEF World, Carry, Forget, Sign, NextPeriod, SetWallet, UnchangedLoop
<1>2. Goal
  <2>1. ASSUME NEW n \in Nodes, Carry(n) PROVE Goal
    <3>1. counter[n] + 1 \in Nat /\ carried[n] + 1 \in Nat
      BY <1>b
    <3>2. faults' = faults /\ now' = now /\ signed' = signed /\ wallet' = wallet
      BY <2>1 DEF Carry, UnchangedLoop
    <3> QED BY <1>b, <2>1, <3>1, <3>2 DEF Carry
  <2>2. ASSUME NEW n \in Nodes, Forget(n) PROVE Goal
    <3>1. faults' \in Nat
      BY <1>b, <2>2 DEF Forget, Fault
    <3> QED BY <1>b, <2>2, <3>1 DEF Forget
  <2>3. ASSUME NEW n \in Nodes, Sign(n) PROVE Goal
    <3>1. signed[n] \in [0..MaxPeriods -> Nat] /\ signed[n][now] + 1 \in Nat
      BY <1>b
    <3>2. [signed[n] EXCEPT ![now] = @ + 1] \in [0..MaxPeriods -> Nat]
      BY <1>b, <3>1
    <3>3. signed' = [signed EXCEPT ![n] = [signed[n] EXCEPT ![now] = @ + 1]]
      BY <2>3, <1>b DEF Sign
    <3>4. faults' = faults /\ now' = now /\ counter' = counter /\ carried' = carried /\ wallet' = wallet
      BY <2>3 DEF Sign, UnchangedLoop
    <3> QED BY <1>b, <3>2, <3>3, <3>4
  <2>4. CASE NextPeriod
    <3>1. faults' = faults
      BY <2>4 DEF NextPeriod, UnchangedLoop
    <3> QED BY <1>b, <2>4, <3>1 DEF NextPeriod
  <2>5. ASSUME NEW d \in Donors, NEW w \in MayName[d], SetWallet(d, w) PROVE Goal
    <3>1. faults' = faults
      BY <2>5 DEF SetWallet, UnchangedLoop
    <3>2. w \in Wallets
      OBVIOUS
    <3> QED BY <1>b, <2>5, <3>1, <3>2 DEF SetWallet
  <2> QED BY <2>1, <2>2, <2>3, <2>4, <2>5 DEF World
<1>3. TypeOK'
  <2>1. UNCHANGED <<mark, epochs, baseline, txs, step, closing, counts, todo, roots, billed, slips>>
    BY <1>1 DEF dbVars, loopVars, chainVars
  <2>2. BookedRoots' = BookedRoots
    BY <2>1 DEF BookedRoots
  <2> QED BY <1>a, <1>2, <2>1, <2>2 DEF TypeOK
<1>4. LoopOK'
  BY <1>a, <1>1, <1>2 DEF LoopOK, TypeOK, dbVars, loopVars, Never
<1> QED BY <1>3, <1>4 DEF Typed

(* Lists of roots are lists of roots of more rows.                         *)
LEMMA SeqOfMore ==
  ASSUME NEW A, NEW B, A \subseteq B, NEW s \in Seq(A)
  PROVE  s \in Seq(B)
OBVIOUS

(* A root that lands is the root of a row.                                 *)
LEMMA LandsTyped ==
  ASSUME TypeOK, NEW n \in 1..Len(epochs), Lands(n)
  PROVE  /\ roots' \in Seq(BookedRoots)
         /\ Len(roots') = Len(roots) + 1 /\ Len(roots') = n
         /\ roots'[n] = Root(Tree(n, epochs[n]))
         /\ \A k \in 1..Len(roots) : roots'[k] = roots[k]
<1>1. roots \in Seq(BookedRoots) /\ Root(Tree(n, epochs[n])) \in BookedRoots
  BY DEF TypeOK, BookedRoots
<1>2. roots' = Append(roots, Root(Tree(n, epochs[n]))) /\ n = Len(roots) + 1
  BY DEF Lands
<1> QED BY <1>1, <1>2

(* The loop between two rounds.                                            *)
LEMMA IdleTyped ==
  ASSUME Typed, Idle, TypeOK' \/ UNCHANGED <<worldVars, dbVars, roots, billed>>,
         slips' \subseteq {"baseline", "mark"}, faults' \in Nat
  PROVE  Typed'
<1>1. /\ step' = "idle" /\ closing' = 0 /\ todo' = {} /\ counts' \in [Nodes -> Nat]
  BY DEF Idle, NoCounts, NoEpoch
<1>2. LoopOK'
  BY <1>1 DEF LoopOK
<1>3. CASE UNCHANGED <<worldVars, dbVars, roots, billed>>
  <2>1. UNCHANGED <<now, counter, signed, wallet, carried, mark, epochs, baseline, txs, roots, billed>>
    BY <1>3 DEF worldVars, dbVars
  <2>2. BookedRoots' = BookedRoots
    BY <2>1 DEF BookedRoots
  <2>3. TypeOK
    BY DEF Typed
  <2>4. closing' \in 0..Len(epochs) /\ step' \in Steps /\ todo' \subseteq Wallets
    BY <1>1, <2>3 DEF TypeOK, Steps
  <2>5. TypeOK'
    BY <1>1, <2>1, <2>2, <2>3, <2>4 DEF TypeOK
  <2> QED BY <1>2, <2>5 DEF Typed
<1> QED BY <1>2, <1>3 DEF Typed

LEMMA CloseKeepsTyped == ASSUME Typed, Close PROVE Typed'
<1>a. TypeOK /\ LoopOK
  BY DEF Typed
<1>b. step = "idle" /\ mark # Never /\ mark < now
  BY DEF Close
<1>c. UNCHANGED <<now, counter, signed, wallet, carried, mark, txs, todo, roots, claimed, slips, faults>>
  BY DEF Close, worldVars, chainVars
<1>1. PICK due \in SUBSET Nodes :
        LET epoch == EpochFor(due) IN
        \/ /\ epochs' = Append(epochs, epoch)
           /\ billed' = [n \in Nodes |-> billed[n] + Paying(epoch, n)]
           /\ closing' = Len(epochs) + 1 /\ step' = "saved" /\ counts' = counter
           /\ UNCHANGED baseline
        \/ /\ baseline' = counter
           /\ closing' = NoEpoch /\ step' = "based"
           /\ UNCHANGED <<epochs, billed, counts>>
  BY DEF Close
<1> DEFINE e == EpochFor(due)
<1>2. e \in Epochs /\ \A n \in Nodes : Paying(e, n) \in Nat
  BY <1>a, <1>b, EpochForTyped
<1> HIDE DEF e
<1>3. CASE /\ epochs' = Append(epochs, e)
           /\ billed' = [n \in Nodes |-> billed[n] + Paying(e, n)]
           /\ closing' = Len(epochs) + 1 /\ step' = "saved" /\ counts' = counter
           /\ UNCHANGED baseline
  <2>1. epochs' \in Seq(Epochs) /\ Len(epochs') = Len(epochs) + 1 /\ Len(epochs) \in Nat
        /\ \A n \in 1..Len(epochs) : epochs'[n] = epochs[n]
    BY <1>a, <1>2, <1>3 DEF TypeOK
  <2>2. BookedRoots \subseteq BookedRoots'
    BY <2>1 DEF BookedRoots
  <2>3. roots' \in Seq(BookedRoots')
    BY <1>a, <1>c, <2>2, SeqOfMore DEF TypeOK
  <2>4. billed' \in [Nodes -> Nat]
    BY <1>a, <1>2, <1>3 DEF TypeOK
  <2>5. txs' \subseteq (1..Len(epochs')) \X Donors /\ Len(roots') <= Len(epochs')
        /\ closing' \in 0..Len(epochs')
    BY <1>a, <1>c, <1>3, <2>1 DEF TypeOK
  <2>6. TypeOK'
    BY <1>a, <1>c, <1>3, <2>1, <2>3, <2>4, <2>5 DEF TypeOK, Steps
  <2>7. LoopOK'
    BY <1>b, <1>c, <1>3, <2>1 DEF LoopOK, NoEpoch
  <2> QED BY <2>6, <2>7 DEF Typed
<1>4. CASE /\ baseline' = counter
           /\ closing' = NoEpoch /\ step' = "based"
           /\ UNCHANGED <<epochs, billed, counts>>
  <2>1. BookedRoots' = BookedRoots
    BY <1>4 DEF BookedRoots
  <2>2. TypeOK'
    BY <1>a, <1>c, <1>4, <2>1 DEF TypeOK, Steps, NoEpoch
  <2>3. LoopOK'
    BY <1>b, <1>c, <1>4 DEF LoopOK
  <2> QED BY <2>2, <2>3 DEF Typed
<1> QED BY <1>1, <1>3, <1>4 DEF e

LEMMA WritesKeepTyped ==
  ASSUME Typed, FirstMark \/ SaveBaselines \/ SetPeriodEnd \/ SetPeriodEndFails
  PROVE  Typed'
<1>a. TypeOK /\ LoopOK
  BY DEF Typed
<1>b. UNCHANGED <<now, counter, signed, wallet, carried, epochs, txs, todo, roots, billed>>
  BY DEF FirstMark, SaveBaselines, SetPeriodEnd, SetPeriodEndFails, worldVars, dbVars, loopVars, chainVars
<1>c. BookedRoots' = BookedRoots
  BY <1>b DEF BookedRoots
<1>1. CASE FirstMark
  <2>1. UNCHANGED <<step, closing, counts, baseline, slips, faults>> /\ step = "idle" /\ mark' = now
    BY <1>1 DEF FirstMark, loopVars
  <2>2. TypeOK'
    BY <1>a, <1>b, <1>c, <2>1 DEF TypeOK
  <2>3. LoopOK'
    BY <2>1 DEF LoopOK
  <2> QED BY <2>2, <2>3 DEF Typed
<1>2. CASE SaveBaselines
  <2>1. /\ UNCHANGED <<mark, closing, slips, faults>>
        /\ step = "saved" /\ step' = "based" /\ baseline' = counts /\ counts' \in [Nodes -> Nat]
    BY <1>2 DEF SaveBaselines, NoCounts
  <2>2. TypeOK'
    BY <1>a, <1>b, <1>c, <2>1 DEF TypeOK, Steps
  <2>3. LoopOK'
    BY <1>a, <1>b, <2>1 DEF LoopOK
  <2> QED BY <2>2, <2>3 DEF Typed
<1>3. CASE SetPeriodEnd
  <2>1. /\ UNCHANGED <<baseline, counts, closing, slips, faults>>
        /\ step = "based" /\ step' = "marked" /\ mark' = mark + 1
    BY <1>3 DEF SetPeriodEnd
  <2>2. mark' \in 0..MaxPeriods
    BY <1>a, <2>1 DEF TypeOK, LoopOK
  <2>3. TypeOK'
    BY <1>a, <1>b, <1>c, <2>1, <2>2 DEF TypeOK, Steps
  <2>4. LoopOK'
    BY <2>1 DEF LoopOK
  <2> QED BY <2>3, <2>4 DEF Typed
<1>4. CASE SetPeriodEndFails
  <2>1. /\ UNCHANGED <<mark, baseline, counts, closing>>
        /\ step' = "marked" /\ faults' = faults + 1 /\ slips' \subseteq slips \cup {"mark"}
    BY <1>4 DEF SetPeriodEndFails, Fault, dbVars
  <2>2. TypeOK'
    BY <1>a, <1>b, <1>c, <2>1 DEF TypeOK, Steps
  <2>3. LoopOK'
    BY <2>1 DEF LoopOK
  <2> QED BY <2>2, <2>3 DEF Typed
<1> QED BY <1>1, <1>2, <1>3, <1>4

LEMMA StopsKeepTyped ==
  ASSUME Typed,
         SaveBaselinesFails \/ NothingToPublish \/ PaidEveryone \/ Crash
           \/ \E n \in 1..Len(epochs) : PublishFails(n)
  PROVE  Typed'
<1>1. Idle /\ UNCHANGED <<worldVars, dbVars, roots, billed>>
  BY DEF SaveBaselinesFails, NothingToPublish, PaidEveryone, Crash, PublishFails, chainVars
<1>2. slips \subseteq {"baseline", "mark"} /\ faults \in Nat
  BY DEF Typed, TypeOK
<1>3. slips' \subseteq {"baseline", "mark"} /\ faults' \in Nat
  <2>1. CASE SaveBaselinesFails
    BY <1>2, <2>1 DEF SaveBaselinesFails, Fault
  <2>2. CASE NothingToPublish \/ PaidEveryone \/ \E n \in 1..Len(epochs) : PublishFails(n)
    BY <1>2, <2>2 DEF NothingToPublish, PaidEveryone, PublishFails
  <2>3. CASE Crash
    BY <1>2, <2>3 DEF Crash, Fault
  <2> QED BY <2>1, <2>2, <2>3
<1> QED BY <1>1, <1>3, IdleTyped

LEMMA PublishKeepsTyped ==
  ASSUME Typed, NEW n \in 1..Len(epochs), Publish(n)
  PROVE  Typed'
<1>a. TypeOK
  BY DEF Typed
<1>1. Kept /\ epochs' \in Seq(Epochs) /\ BookedRoots' = BookedRoots
  BY <1>a, PublishKeeps, RootsKept
<1>2. roots' \in Seq(BookedRoots') /\ Len(roots') <= Len(epochs')
  BY <1>a, <1>1, LandsTyped DEF Publish, Kept
<1>3. epochs[n] \in Epochs /\ LeafWallets(epochs[n]) \subseteq Wallets
  BY <1>a, LeavesAreForWallets DEF TypeOK
<1>4. /\ UNCHANGED <<now, counter, signed, wallet, carried, mark, baseline, txs, counts, billed, slips>>
      /\ step' = "paying" /\ closing' = n /\ todo' = LeafWallets(epochs[n])
      /\ faults' \in Nat
  BY <1>a DEF Publish, worldVars, Fault, TypeOK
<1>5. LeafWallets(epochs[n])' = LeafWallets(epochs[n])
  BY <1>1, KeptLeaves
<1>6. Len(epochs') = Len(epochs) /\ Len(epochs) \in Nat
  BY <1>1, <1>a DEF Kept, TypeOK
<1>7. TypeOK'
  BY <1>a, <1>1, <1>2, <1>3, <1>4, <1>6 DEF TypeOK, Steps
<1>8. LoopOK'
  BY <1>4, <1>5, <1>6 DEF LoopOK, NoEpoch
<1> QED BY <1>7, <1>8 DEF Typed

LEMMA UnheardKeepsTyped ==
  ASSUME Typed, NEW n \in 1..Len(epochs), PublishUnheard(n)
  PROVE  Typed'
<1>a. TypeOK
  BY DEF Typed
<1>1. /\ UNCHANGED <<now, counter, signed, wallet, carried, mark, epochs, baseline, txs, billed, slips>>
      /\ Idle /\ faults' = faults + 1
  BY DEF PublishUnheard, worldVars, dbVars, Fault
<1>2. BookedRoots' = BookedRoots
  BY <1>1 DEF BookedRoots
<1>3. roots' \in Seq(BookedRoots') /\ Len(roots') <= Len(epochs')
  BY <1>a, <1>1, <1>2, LandsTyped DEF PublishUnheard
<1>4. /\ step' = "idle" /\ closing' \in 0..Len(epochs) /\ todo' = {} /\ counts' \in [Nodes -> Nat]
  BY <1>1, <1>a DEF Idle, NoCounts, NoEpoch, TypeOK
<1>5. TypeOK'
  BY <1>a, <1>1, <1>2, <1>3, <1>4 DEF TypeOK, Steps
<1>6. LoopOK'
  BY <1>4 DEF LoopOK
<1> QED BY <1>5, <1>6 DEF Typed

LEMMA PaymentsKeepTyped ==
  ASSUME Typed,
         \/ \E n \in 1..Len(epochs) : RetryUnpaid(n)
         \/ \E w \in todo : Claim(w) \/ ClaimUnheard(w) \/ ClaimNeverLands(w) \/ ClaimFails(w)
  PROVE  Typed'
<1>a. TypeOK /\ LoopOK
  BY DEF Typed
<1>1. ASSUME NEW n \in 1..Len(epochs), RetryUnpaid(n) PROVE Typed'
  <2>1. /\ UNCHANGED <<now, counter, signed, wallet, carried, mark, epochs, baseline, txs, counts, roots, billed, slips, faults>>
        /\ step' = "paying" /\ closing' = n /\ todo' = LeafWallets(epochs[n])
    BY <1>1 DEF RetryUnpaid, worldVars, dbVars, chainVars
  <2>2. epochs[n] \in Epochs /\ LeafWallets(epochs[n]) \subseteq Wallets
    BY <1>a, LeavesAreForWallets DEF TypeOK
  <2>3. BookedRoots' = BookedRoots
    BY <2>1 DEF BookedRoots
  <2>4. TypeOK'
    BY <1>a, <2>1, <2>2, <2>3 DEF TypeOK, Steps
  <2>5. LoopOK'
    BY <2>1 DEF LoopOK, NoEpoch
  <2> QED BY <2>4, <2>5 DEF Typed
<1>2. ASSUME NEW w \in todo, Claim(w) \/ ClaimUnheard(w) \/ ClaimNeverLands(w) \/ ClaimFails(w)
      PROVE  Typed'
  <2>1. /\ UNCHANGED <<now, counter, signed, wallet, carried, mark, epochs, baseline, step, closing, counts, roots, billed, slips>>
        /\ step = "paying" /\ todo' = todo \ {w}
    BY <1>2 DEF Claim, ClaimUnheard, ClaimNeverLands, ClaimFails, Attempt, worldVars
  <2>2. closing \in 1..Len(epochs)
    BY <1>a, <2>1 DEF LoopOK, TypeOK, NoEpoch
  <2>3. txs' \subseteq (1..Len(epochs)) \X Donors
    BY <1>2, <1>a, <2>2 DEF Claim, ClaimUnheard, ClaimNeverLands, ClaimFails, Record, TypeOK
  <2>4. faults' \in Nat
    BY <1>2, <1>a DEF Claim, ClaimUnheard, ClaimNeverLands, ClaimFails, Fault, TypeOK
  <2>5. BookedRoots' = BookedRoots
    BY <2>1 DEF BookedRoots
  <2>6. TypeOK'
    BY <1>a, <2>1, <2>3, <2>4, <2>5 DEF TypeOK
  <2>7. LoopOK'
    BY <1>a, <2>1 DEF LoopOK
  <2> QED BY <2>6, <2>7 DEF Typed
<1> QED BY <1>1, <1>2

(* A step that changes nothing.                                            *)
LEMMA StutterKeepsTyped == ASSUME Typed, UNCHANGED vars PROVE Typed'
<1>1. UNCHANGED <<now, counter, signed, wallet, carried, mark, epochs, baseline, txs, step, closing, counts, todo, roots, claimed, billed, slips, faults>>
  BY DEF vars, worldVars, dbVars, loopVars, chainVars
<1>2. BookedRoots' = BookedRoots
  BY <1>1 DEF BookedRoots
<1>3. TypeOK'
  BY <1>1, <1>2 DEF Typed, TypeOK
<1>4. LoopOK'
  BY <1>1 DEF Typed, LoopOK
<1> QED BY <1>3, <1>4 DEF Typed

LEMMA NextKeepsTyped == Typed /\ [Next]_vars => Typed'
<1> SUFFICES ASSUME Typed, [Next]_vars PROVE Typed'
  OBVIOUS
<1>1. CASE World
  BY <1>1, WorldKeepsTyped
<1>2. CASE Loop
  <2>1. CASE FirstMark \/ SaveBaselines \/ SetPeriodEnd \/ SetPeriodEndFails
    BY <2>1, WritesKeepTyped
  <2>2. CASE Close
    BY <2>2, CloseKeepsTyped
  <2>3. CASE SaveBaselinesFails \/ NothingToPublish \/ PaidEveryone \/ Crash
                \/ \E n \in 1..Len(epochs) : PublishFails(n)
    BY <2>3, StopsKeepTyped
  <2>4. CASE \E n \in 1..Len(epochs) : Publish(n)
    BY <2>4, PublishKeepsTyped
  <2>5. CASE \E n \in 1..Len(epochs) : PublishUnheard(n)
    BY <2>5, UnheardKeepsTyped
  <2>6. CASE \/ \E n \in 1..Len(epochs) : RetryUnpaid(n)
             \/ \E w \in todo : Claim(w) \/ ClaimUnheard(w) \/ ClaimNeverLands(w) \/ ClaimFails(w)
    BY <2>6, PaymentsKeepTyped
  <2> QED BY <1>2, <2>1, <2>2, <2>3, <2>4, <2>5, <2>6 DEF Loop
<1>3. CASE UNCHANGED vars
  BY <1>3, StutterKeepsTyped
<1> QED BY <1>1, <1>2, <1>3 DEF Next

(* Every variable keeps its type, and the loop works on an epoch it saved. *)
THEOREM PayoutsTyped == Spec => []TypeOK
<1>1. Typed => TypeOK
  BY DEF Typed
<1> QED BY <1>1, TypedInitially, NextKeepsTyped, PTL DEF Spec

-----------------------------------------------------------------------------
(* Nobody is billed beyond the count.                                      *)

(* Where the next close counts from, once the writes under way are done.   *)
CountsFrom(n) == IF step = "saved" THEN counts[n] ELSE baseline[n]

Balanced == \A n \in Nodes : billed[n] + Grown(CountsFrom(n), counter[n]) <= carried[n]

CounterInv == "baseline" \notin slips => Balanced

LEMMA CountsTyped ==
  ASSUME TypeOK, NEW n \in Nodes
  PROVE  /\ CountsFrom(n) \in Nat /\ counter[n] \in Nat /\ billed[n] \in Nat /\ carried[n] \in Nat
         /\ baseline[n] \in Nat /\ Grown(CountsFrom(n), counter[n]) \in Nat
         /\ Grown(baseline[n], counter[n]) \in Nat
<1>1. CountsFrom(n) \in Nat /\ counter[n] \in Nat /\ baseline[n] \in Nat
  BY DEF CountsFrom, TypeOK
<1> QED BY <1>1, BilledIsBounded DEF TypeOK

(* Steps that touch no count.                                              *)
LEMMA QuietKeepsCounter ==
  ASSUME CounterInv, UNCHANGED <<counter, carried, billed, baseline>>,
         slips \subseteq slips', step # "saved", step' # "saved"
  PROVE  CounterInv'
BY DEF CounterInv, Balanced, CountsFrom

LEMMA WorldKeepsCounter == ASSUME Typed, CounterInv, World PROVE CounterInv'
<1>1. UNCHANGED <<baseline, counts, step, billed, slips>>
  BY DEF World, Carry, Forget, Sign, NextPeriod, SetWallet, UnchangedLoop, dbVars, loopVars
<1>2. \A n : CountsFrom(n)' = CountsFrom(n)
  BY <1>1 DEF CountsFrom
<1> SUFFICES ASSUME "baseline" \notin slips, NEW n \in Nodes
             PROVE  (billed[n] + Grown(CountsFrom(n), counter[n]) <= carried[n])'
  BY <1>1 DEF CounterInv, Balanced
<1>3. /\ CountsFrom(n) \in Nat /\ counter[n] \in Nat /\ billed[n] \in Nat /\ carried[n] \in Nat
      /\ Grown(CountsFrom(n), counter[n]) \in Nat
      /\ billed[n] + Grown(CountsFrom(n), counter[n]) <= carried[n]
  BY CountsTyped DEF CounterInv, Balanced, Typed
<1>4. CASE counter'[n] = counter[n] /\ carried'[n] = carried[n]
  BY <1>1, <1>2, <1>3, <1>4
<1>5. CASE counter'[n] = counter[n] + 1 /\ carried'[n] = carried[n] + 1
  <2>1. /\ Grown(CountsFrom(n), counter[n] + 1) <= Grown(CountsFrom(n), counter[n]) + 1
    BY <1>3, GrowsByOne
  <2>2. Grown(CountsFrom(n), counter[n] + 1) \in Nat
    BY <1>3 DEF Grown
  <2> QED BY <1>1, <1>2, <1>3, <1>5, <2>1, <2>2
<1>6. CASE counter'[n] = 0 /\ carried'[n] = carried[n]
  <2>1. Grown(CountsFrom(n), 0) = 0
    BY <1>3, GrowsByOne
  <2> QED BY <1>1, <1>2, <1>3, <1>6, <2>1
<1>7. counter \in [Nodes -> Nat] /\ carried \in [Nodes -> Nat]
  BY DEF Typed, TypeOK
<1> QED BY <1>4, <1>5, <1>6, <1>7 DEF World, Carry, Forget, Sign, NextPeriod, SetWallet

LEMMA CloseKeepsCounter == ASSUME Typed, CounterInv, Close PROVE CounterInv'
<1>a. TypeOK /\ step = "idle" /\ mark # Never
  BY DEF Typed, Close
<1>b. UNCHANGED <<counter, carried, slips>>
  BY DEF Close, worldVars
<1> SUFFICES ASSUME "baseline" \notin slips, NEW n \in Nodes
             PROVE  (billed[n] + Grown(CountsFrom(n), counter[n]) <= carried[n])'
  BY <1>b DEF CounterInv, Balanced
<1>1. /\ counter[n] \in Nat /\ billed[n] \in Nat /\ carried[n] \in Nat
      /\ Grown(baseline[n], counter[n]) \in Nat
      /\ billed[n] + Grown(baseline[n], counter[n]) <= carried[n]
  BY <1>a, CountsTyped DEF CounterInv, Balanced, CountsFrom
<1>2. Grown(counter[n], counter[n]) = 0
  BY <1>1, GrowsByOne
<1>3. PICK due \in SUBSET Nodes :
        LET epoch == EpochFor(due) IN
        \/ /\ billed' = [m \in Nodes |-> billed[m] + Paying(epoch, m)]
           /\ step' = "saved" /\ counts' = counter
        \/ baseline' = counter /\ step' = "based" /\ UNCHANGED billed
  BY DEF Close
<1>4. Paying(EpochFor(due), n) \in Nat /\ Paying(EpochFor(due), n) <= Grown(baseline[n], counter[n])
  BY <1>a, EpochForTyped
<1>5. CASE /\ billed' = [m \in Nodes |-> billed[m] + Paying(EpochFor(due), m)]
           /\ step' = "saved" /\ counts' = counter
  <2>1. billed'[n] = billed[n] + Paying(EpochFor(due), n) /\ CountsFrom(n)' = counter[n]
    BY <1>5 DEF CountsFrom
  <2> QED BY <1>1, <1>2, <1>4, <1>b, <2>1
<1>6. CASE baseline' = counter /\ step' = "based" /\ UNCHANGED billed
  <2>1. CountsFrom(n)' = counter[n]
    BY <1>6 DEF CountsFrom
  <2> QED BY <1>1, <1>2, <1>6, <1>b, <2>1
<1> QED BY <1>3, <1>5, <1>6

LEMMA CounterKept == Typed /\ CounterInv /\ [Next]_vars => CounterInv'
<1> SUFFICES ASSUME Typed, CounterInv, [Next]_vars PROVE CounterInv'
  OBVIOUS
<1> DEFINE Quiet == /\ UNCHANGED <<counter, carried, billed, baseline>>
                    /\ slips \subseteq slips' /\ step # "saved" /\ step' # "saved"
<1>1. CASE World
  BY <1>1, WorldKeepsCounter
<1>2. CASE Close
  BY <1>2, CloseKeepsCounter
<1>3. CASE SaveBaselines
  <2>1. /\ UNCHANGED <<counter, carried, billed, slips>>
        /\ step = "saved" /\ step' = "based" /\ baseline' = counts
    BY <1>3 DEF SaveBaselines, worldVars
  <2>2. \A n : CountsFrom(n)' = CountsFrom(n)
    BY <2>1 DEF CountsFrom
  <2> QED BY <2>1, <2>2 DEF CounterInv, Balanced
<1>4. CASE SaveBaselinesFails
  BY <1>4 DEF SaveBaselinesFails, CounterInv
<1>5. CASE Crash
  <2>1. CASE step = "saved"
    <3>1. closing # NoEpoch
      BY <2>1 DEF Typed, LoopOK
    <3> QED BY <1>5, <2>1, <3>1 DEF Crash, CounterInv
  <2>2. CASE step # "saved"
    <3>1. Quiet
      BY <1>5, <2>2 DEF Crash, Idle, worldVars, dbVars
    <3> QED BY <3>1, QuietKeepsCounter
  <2> QED BY <2>1, <2>2
<1>6. CASE FirstMark \/ SetPeriodEnd \/ SetPeriodEndFails
  <2>1. Quiet
    BY <1>6 DEF FirstMark, SetPeriodEnd, SetPeriodEndFails, worldVars, dbVars, loopVars
  <2> QED BY <2>1, QuietKeepsCounter
<1>7. CASE NothingToPublish \/ PaidEveryone
             \/ \E n \in 1..Len(epochs) : Publish(n) \/ PublishUnheard(n) \/ PublishFails(n) \/ RetryUnpaid(n)
  <2>1. Quiet
    BY <1>7 DEF NothingToPublish, PaidEveryone, Publish, PublishUnheard, PublishFails, RetryUnpaid,
                Publishing, Idle, worldVars, dbVars
  <2> QED BY <2>1, QuietKeepsCounter
<1>8. CASE \E w \in todo : Claim(w) \/ ClaimUnheard(w) \/ ClaimNeverLands(w) \/ ClaimFails(w)
  <2>1. Quiet
    BY <1>8 DEF Claim, ClaimUnheard, ClaimNeverLands, ClaimFails, Attempt, worldVars
  <2> QED BY <2>1, QuietKeepsCounter
<1>9. CASE UNCHANGED vars
  <2>1. UNCHANGED <<counter, carried, billed, baseline, counts, step, slips>>
    BY <1>9 DEF vars, worldVars, dbVars, loopVars
  <2> QED BY <2>1 DEF CounterInv, Balanced, CountsFrom
<1> QED BY <1>1, <1>2, <1>3, <1>4, <1>5, <1>6, <1>7, <1>8, <1>9 DEF Next, Loop

(* A donor is not paid for more than the node carried, whatever is lost or *)
(* stopped, unless a close stops between its epoch and its baselines       *)
(* (Collector.Close, SaveBaselines).                                       *)
THEOREM BillsStayWithinCounts == Spec => []PaidWithinCounter
<1>1. Init => CounterInv
  BY GrowsByOne DEF Init, CounterInv, Balanced, CountsFrom
<1>2. Typed /\ CounterInv => PaidWithinCounter
  <2> SUFFICES ASSUME Typed, CounterInv, "baseline" \notin slips, NEW n \in Nodes
               PROVE  billed[n] <= carried[n]
    BY DEF PaidWithinCounter
  <2>1. /\ billed[n] \in Nat /\ carried[n] \in Nat /\ Grown(CountsFrom(n), counter[n]) \in Nat
        /\ billed[n] + Grown(CountsFrom(n), counter[n]) <= carried[n]
    BY CountsTyped DEF CounterInv, Balanced, Typed
  <2> QED BY <2>1
<1> QED BY <1>1, <1>2, TypedInitially, NextKeepsTyped, CounterKept, PTL DEF Spec

-----------------------------------------------------------------------------
(* The rows of the book.                                                   *)

(* Rows are only ever added, and what they say of bytes, wallets and       *)
(* periods stays.                                                          *)
RowsStay ==
  /\ Len(epochs) <= Len(epochs')
  /\ \A n \in 1..Len(epochs) :
       /\ epochs'[n].period = epochs[n].period
       /\ epochs'[n].bill = epochs[n].bill
       /\ epochs'[n].to = epochs[n].to

LEMMA Appended ==
  ASSUME TypeOK, mark # Never, NEW due \in SUBSET Nodes,
         epochs' = Append(epochs, EpochFor(due))
  PROVE  /\ Len(epochs') = Len(epochs) + 1
         /\ epochs'[Len(epochs) + 1] = EpochFor(due)
         /\ \A n \in 1..Len(epochs) : epochs'[n] = epochs[n]
         /\ Len(epochs) \in Nat
BY EpochForTyped DEF TypeOK

LEMMA NextKeepsRows ==
  ASSUME Typed, [Next]_vars
  PROVE  /\ RowsStay
         /\ Len(epochs') = Len(epochs) \/ Close
<1>a. TypeOK /\ Len(epochs) \in Nat
  BY DEF Typed, TypeOK
<1>1. CASE Close
  <2>1. mark # Never
    BY <1>1 DEF Close
  <2>2. \/ \E due \in SUBSET Nodes : epochs' = Append(epochs, EpochFor(due))
        \/ UNCHANGED epochs
    BY <1>1 DEF Close
  <2> QED BY <1>1, <1>a, <2>1, <2>2, Appended DEF RowsStay
<1>2. CASE \E n \in 1..Len(epochs) : Publish(n)
  <2>1. Kept
    BY <1>a, <1>2, PublishKeeps
  <2> QED BY <1>a, <2>1 DEF Kept, RowsStay
<1>3. CASE UNCHANGED epochs
  BY <1>3, <1>a DEF RowsStay
<1>4. CASE World \/ UNCHANGED vars
  BY <1>4, <1>3 DEF World, Carry, Forget, Sign, NextPeriod, SetWallet, UnchangedLoop, vars, dbVars
<1>5. CASE \/ FirstMark \/ SaveBaselines \/ SaveBaselinesFails \/ SetPeriodEnd \/ SetPeriodEndFails
           \/ \E n \in 1..Len(epochs) : PublishUnheard(n) \/ PublishFails(n) \/ RetryUnpaid(n)
           \/ NothingToPublish \/ PaidEveryone \/ Crash
           \/ \E w \in todo : Claim(w) \/ ClaimUnheard(w) \/ ClaimNeverLands(w) \/ ClaimFails(w)
  BY <1>5, <1>3 DEF FirstMark, SaveBaselines, SaveBaselinesFails, SetPeriodEnd, SetPeriodEndFails,
     PublishUnheard, PublishFails, RetryUnpaid, NothingToPublish, PaidEveryone, Crash,
     Claim, ClaimUnheard, ClaimNeverLands, ClaimFails, Attempt, dbVars
<1> QED BY <1>1, <1>2, <1>4, <1>5 DEF Next, Loop

(* Rows that stay keep their leaves.                                       *)
LEMMA RowsKeepLeaves ==
  ASSUME RowsStay, NEW n \in 1..Len(epochs)
  PROVE  /\ LeafWallets(epochs[n])' = LeafWallets(epochs[n])
         /\ Leaves(epochs[n])' = Leaves(epochs[n])
         /\ Tree(n, epochs[n])' = Tree(n, epochs[n])
         /\ \A w : Payment(n, epochs[n], w)' = Payment(n, epochs[n], w)
<1> DEFINE e == epochs[n]
           f == epochs'[n]
<1>1. f.bill = e.bill /\ f.to = e.to
  BY DEF RowsStay
<1> HIDE DEF e, f
<1>2. /\ LeafWallets(f) = LeafWallets(e)
      /\ Leaves(f) = Leaves(e)
      /\ Tree(n, f) = Tree(n, e)
      /\ \A w : Payment(n, f, w) = Payment(n, e, w)
  BY <1>1, LeavesKept
<1> QED BY <1>2 DEF e, f

-----------------------------------------------------------------------------
(* A period is paid once.                                                  *)

(* Periods are closed in order: what is behind the mark, and the period at *)
(* the mark while its close is under way.                                  *)
Behind(i) ==
  \/ epochs[i].period < mark
  \/ i = closing /\ step \in {"saved", "based"} /\ epochs[i].period = mark

Closed ==
  /\ \A i, j \in 1..Len(epochs) : epochs[i].period = epochs[j].period => i = j
  /\ \A i \in 1..Len(epochs) : \A n \in Nodes :
       epochs[i].bill[n] <= signed[n][epochs[i].period]
  /\ \A i \in 1..Len(epochs) : Behind(i)

PeriodInv == "mark" \notin slips => Closed

(* With no row added and nothing signed less, only Behind is at stake.     *)
LEMMA ClosedKept ==
  ASSUME TypeOK, TypeOK', Closed, RowsStay, Len(epochs') = Len(epochs),
         \A n \in Nodes : \A p \in 0..MaxPeriods : signed[n][p] <= signed'[n][p],
         \A i \in 1..Len(epochs) : Behind(i)'
  PROVE  Closed'
<1>1. ASSUME NEW i \in 1..Len(epochs)
      PROVE  /\ epochs'[i].period = epochs[i].period /\ epochs'[i].bill = epochs[i].bill
             /\ epochs[i] \in Epochs
  BY DEF RowsStay, TypeOK
<1>2. ASSUME NEW i \in 1..Len(epochs), NEW n \in Nodes
      PROVE  epochs'[i].bill[n] <= signed'[n][epochs'[i].period]
  <2>1. /\ epochs[i].period \in 0..MaxPeriods /\ epochs[i].bill[n] \in Nat
    BY <1>1 DEF Epochs
  <2>2. signed[n][epochs[i].period] \in Nat /\ signed'[n][epochs[i].period] \in Nat
    <3>1. signed[n] \in [0..MaxPeriods -> Nat] /\ signed'[n] \in [0..MaxPeriods -> Nat]
      BY DEF TypeOK
    <3> QED BY <2>1, <3>1
  <2>3. epochs[i].bill[n] <= signed[n][epochs[i].period]
    BY DEF Closed
  <2>4. signed[n][epochs[i].period] <= signed'[n][epochs[i].period]
    BY <2>1
  <2> QED BY <1>1, <2>1, <2>2, <2>3, <2>4
<1>3. \A i, j \in 1..Len(epochs') : epochs'[i].period = epochs'[j].period => i = j
  BY <1>1 DEF Closed
<1> QED BY <1>2, <1>3 DEF Closed

(* A row keeps its period, so it stays behind a mark that does not move.   *)
LEMMA BehindKept ==
  ASSUME RowsStay, NEW i \in 1..Len(epochs), Behind(i), mark' = mark,
         epochs[i].period < mark \/ (closing' = closing /\ step' \in {"saved", "based"})
  PROVE  Behind(i)'
BY DEF Behind, RowsStay

LEMMA NoLessSigned ==
  ASSUME TypeOK, signed' = signed \/ \E n \in Nodes : Sign(n)
  PROVE  \A n \in Nodes : \A p \in 0..MaxPeriods : signed[n][p] <= signed'[n][p]
<1> SUFFICES ASSUME NEW n \in Nodes, NEW p \in 0..MaxPeriods
             PROVE  signed[n][p] <= signed'[n][p]
  OBVIOUS
<1>1. signed[n] \in [0..MaxPeriods -> Nat] /\ signed[n][p] \in Nat
  <2>1. signed[n] \in [0..MaxPeriods -> Nat]
    BY DEF TypeOK
  <2> QED BY <2>1
<1>2. CASE signed' = signed
  BY <1>1, <1>2
<1>3. ASSUME NEW m \in Nodes, Sign(m) PROVE signed[n][p] <= signed'[n][p]
  <2>1. signed' = [signed EXCEPT ![m][now] = @ + 1] /\ signed \in [Nodes -> [0..MaxPeriods -> Nat]]
    BY <1>3 DEF Sign, TypeOK
  <2>2. signed'[n][p] = signed[n][p] \/ signed'[n][p] = signed[n][p] + 1
    BY <1>1, <2>1
  <2> QED BY <1>1, <2>2
<1> QED BY <1>2, <1>3

LEMMA CloseKeepsPeriods ==
  ASSUME Typed, Typed', PeriodInv, Close
  PROVE  PeriodInv'
<1>a. /\ TypeOK /\ TypeOK' /\ step = "idle" /\ mark # Never
      /\ mark' = mark /\ signed' = signed /\ slips' = slips
  BY DEF Typed, Close, worldVars
<1> SUFFICES ASSUME "mark" \notin slips, Closed PROVE Closed'
  BY <1>a DEF PeriodInv
<1>b. /\ RowsStay
      /\ \A i \in 1..Len(epochs) : epochs[i].period < mark
      /\ mark \in 0..MaxPeriods
  BY <1>a, NextKeepsRows DEF Closed, Behind, Next, Loop, TypeOK
<1>1. PICK due \in SUBSET Nodes :
        \/ epochs' = Append(epochs, EpochFor(due)) /\ closing' = Len(epochs) + 1 /\ step' = "saved"
        \/ epochs' = epochs
  BY DEF Close
<1>2. CASE epochs' = epochs
  <2>1. \A i \in 1..Len(epochs) : Behind(i)'
    BY <1>a, <1>b, <1>2 DEF Behind
  <2>2. \A n \in Nodes : \A p \in 0..MaxPeriods : signed[n][p] <= signed'[n][p]
    BY <1>a, NoLessSigned
  <2> QED BY <1>2, <1>a, <1>b, <2>1, <2>2, ClosedKept
<1>3. CASE epochs' = Append(epochs, EpochFor(due)) /\ closing' = Len(epochs) + 1 /\ step' = "saved"
  <2>1. /\ Len(epochs') = Len(epochs) + 1
        /\ epochs'[Len(epochs) + 1] = EpochFor(due)
        /\ \A n \in 1..Len(epochs) : epochs'[n] = epochs[n]
        /\ Len(epochs) \in Nat
    BY <1>a, <1>3, Appended
  <2>2. /\ EpochFor(due).period = mark
        /\ \A n \in Nodes : EpochFor(due).bill[n] <= signed[n][mark]
    BY <1>a, EpochForTyped
  <2>3. \A i \in 1..Len(epochs') : i \in 1..Len(epochs) \/ i = Len(epochs) + 1
    BY <2>1
  <2>4. \A i, j \in 1..Len(epochs') : epochs'[i].period = epochs'[j].period => i = j
    <3>1. \A i \in 1..Len(epochs) : epochs[i].period # mark
      BY <1>b
    <3> QED BY <2>1, <2>2, <2>3, <3>1 DEF Closed
  <2>5. \A i \in 1..Len(epochs') : \A n \in Nodes : epochs'[i].bill[n] <= signed'[n][epochs'[i].period]
    BY <1>a, <2>1, <2>2, <2>3 DEF Closed
  <2>6. \A i \in 1..Len(epochs') : Behind(i)'
    BY <1>a, <1>b, <1>3, <2>1, <2>2, <2>3 DEF Behind
  <2> QED BY <2>4, <2>5, <2>6 DEF Closed
<1> QED BY <1>1, <1>2, <1>3

LEMMA PeriodsKept == Typed /\ Typed' /\ PeriodInv /\ [Next]_vars => PeriodInv'
<1> SUFFICES ASSUME Typed, Typed', PeriodInv, [Next]_vars PROVE PeriodInv'
  OBVIOUS
<1>a. TypeOK /\ TypeOK' /\ LoopOK /\ RowsStay /\ (Len(epochs') = Len(epochs) \/ Close)
  BY NextKeepsRows DEF Typed
<1>b. \A i \in 1..Len(epochs) : epochs'[i].period = epochs[i].period /\ epochs[i].period \in 0..MaxPeriods
  <2>1. \A i \in 1..Len(epochs) : epochs[i] \in Epochs
    BY <1>a DEF TypeOK
  <2> QED BY <1>a, <2>1 DEF RowsStay, Epochs
<1>1. ASSUME ~Close, slips \subseteq slips', signed' = signed \/ \E n \in Nodes : Sign(n),
             "mark" \notin slips' => \A i \in 1..Len(epochs) : Behind(i) => Behind(i)'
      PROVE  PeriodInv'
  <2> SUFFICES ASSUME "mark" \notin slips' PROVE Closed'
    BY DEF PeriodInv
  <2>1. Closed
    BY <1>1 DEF PeriodInv
  <2>2. \A n \in Nodes : \A p \in 0..MaxPeriods : signed[n][p] <= signed'[n][p]
    BY <1>a, <1>1, NoLessSigned
  <2>3. \A i \in 1..Len(epochs) : Behind(i)'
    BY <1>1, <2>1 DEF Closed
  <2> QED BY <1>a, <1>1, <2>1, <2>2, <2>3, ClosedKept
<1>2. CASE Close
  BY <1>2, CloseKeepsPeriods
<1>3. CASE ~Close /\ (World \/ UNCHANGED vars)
  <2>1. UNCHANGED <<slips, mark, closing, step>> /\ (signed' = signed \/ \E n \in Nodes : Sign(n))
    BY <1>3 DEF World, Carry, Forget, Sign, NextPeriod, SetWallet, UnchangedLoop, vars, dbVars, loopVars, worldVars
  <2>2. \A i \in 1..Len(epochs) : Behind(i) => Behind(i)'
    BY <1>b, <2>1 DEF Behind
  <2> QED BY <1>1, <1>3, <2>1, <2>2
<1>4. CASE ~Close /\ step \notin {"saved", "based"} /\ ~FirstMark /\ Loop
  <2>1. UNCHANGED <<mark, signed>> /\ slips \subseteq slips'
    BY <1>4 DEF Loop, SaveBaselines, SaveBaselinesFails, SetPeriodEnd, SetPeriodEndFails,
     Publish, PublishUnheard, PublishFails, RetryUnpaid, NothingToPublish, PaidEveryone, Crash,
     Claim, ClaimUnheard, ClaimNeverLands, ClaimFails, Attempt, dbVars, worldVars
  <2>2. \A i \in 1..Len(epochs) : Behind(i) => Behind(i)'
    BY <1>b, <1>4, <2>1 DEF Behind
  <2> QED BY <1>1, <1>4, <2>1, <2>2
<1>5. CASE ~Close /\ FirstMark
  <2>1. UNCHANGED <<slips, signed, closing, step>> /\ step = "idle" /\ mark = -1 /\ mark' = now
    BY <1>5 DEF FirstMark, loopVars, worldVars, Never
  <2>2. \A i \in 1..Len(epochs) : Behind(i) => Behind(i)'
    BY <1>a, <1>b, <2>1 DEF Behind, TypeOK
  <2> QED BY <1>1, <1>5, <2>1, <2>2
<1>6. CASE ~Close /\ step \in {"saved", "based"} /\ Loop
  <2>1. SaveBaselines \/ SaveBaselinesFails \/ SetPeriodEnd \/ SetPeriodEndFails \/ Crash
    BY <1>6 DEF Loop, FirstMark, Publish, PublishUnheard, PublishFails, Publishing, RetryUnpaid,
     NothingToPublish, PaidEveryone, Claim, ClaimUnheard, ClaimNeverLands, ClaimFails, Attempt
  <2>2. slips \subseteq slips' /\ signed' = signed
    BY <2>1 DEF SaveBaselines, SaveBaselinesFails, SetPeriodEnd, SetPeriodEndFails, Crash, worldVars
  <2>3. \A i \in 1..Len(epochs) : i # NoEpoch
    BY DEF NoEpoch
  <2>4. CASE SaveBaselines
    <3>1. UNCHANGED <<mark, closing>> /\ step' = "based"
      BY <2>4 DEF SaveBaselines
    <3>2. \A i \in 1..Len(epochs) : Behind(i) => Behind(i)'
      BY <1>b, <3>1 DEF Behind
    <3> QED BY <1>1, <1>6, <2>2, <3>2
  <2>5. CASE SaveBaselinesFails
    BY <2>5 DEF SaveBaselinesFails, PeriodInv
  <2>6. CASE SetPeriodEnd
    <3>1. mark' = mark + 1 /\ mark \in 0..MaxPeriods
      BY <1>a, <1>6, <2>6 DEF SetPeriodEnd, TypeOK, LoopOK
    <3>2. \A i \in 1..Len(epochs) : Behind(i) => Behind(i)'
      BY <1>b, <3>1 DEF Behind
    <3> QED BY <1>1, <1>6, <2>2, <3>2
  <2>7. CASE SetPeriodEndFails
    <3>1. mark' = mark /\ (closing = NoEpoch \/ "mark" \in slips')
      BY <2>7 DEF SetPeriodEndFails, dbVars
    <3>2. "mark" \notin slips' => \A i \in 1..Len(epochs) : Behind(i) => Behind(i)'
      BY <1>b, <2>3, <3>1 DEF Behind
    <3> QED BY <1>1, <1>6, <2>2, <3>2
  <2>8. CASE Crash
    <3>1. mark' = mark /\ (closing = NoEpoch \/ "mark" \in slips')
      BY <1>6, <2>8 DEF Crash, dbVars
    <3>2. "mark" \notin slips' => \A i \in 1..Len(epochs) : Behind(i) => Behind(i)'
      BY <1>b, <2>3, <3>1 DEF Behind
    <3> QED BY <1>1, <1>6, <2>2, <3>2
  <2> QED BY <2>1, <2>4, <2>5, <2>6, <2>7, <2>8
<1> QED BY <1>2, <1>3, <1>4, <1>5, <1>6 DEF Next

(* A period is closed into one epoch, for no more than clients signed for, *)
(* unless a close stops before it moves the mark (Once, SetPeriodEnd).     *)
THEOREM PeriodsArePaidOnce == Spec => []PeriodsPaidOnce
<1>1. Init => PeriodInv
  BY DEF Init, PeriodInv, Closed
<1>2. PeriodInv => PeriodsPaidOnce
  BY DEF PeriodInv, Closed, PeriodsPaidOnce
<1> QED BY <1>1, <1>2, TypedInitially, NextKeepsTyped, PeriodsKept, PTL DEF Spec

-----------------------------------------------------------------------------
(* What is on chain is what was booked.                                    *)

LEMMA ChainKept == Typed /\ ChainHoldsTheBook /\ [Next]_vars => ChainHoldsTheBook'
<1> SUFFICES ASSUME Typed, ChainHoldsTheBook, [Next]_vars PROVE ChainHoldsTheBook'
  OBVIOUS
<1>a. TypeOK /\ RowsStay /\ Len(roots) \in Nat /\ Len(roots) <= Len(epochs) /\ Len(epochs) \in Nat
  <2>1. TypeOK /\ RowsStay
    BY NextKeepsRows DEF Typed
  <2> QED BY <2>1 DEF TypeOK
<1>b. \A n \in 1..Len(roots) : Root(Tree(n, epochs[n]))' = Root(Tree(n, epochs[n]))
  BY <1>a, RowsKeepLeaves
<1>1. CASE UNCHANGED roots
  BY <1>1, <1>a, <1>b DEF ChainHoldsTheBook
<1>2. ASSUME NEW n \in 1..Len(epochs), Lands(n) PROVE ChainHoldsTheBook'
  <2>1. /\ Len(roots') = Len(roots) + 1 /\ Len(roots') = n
        /\ roots'[n] = Root(Tree(n, epochs[n]))
        /\ \A k \in 1..Len(roots) : roots'[k] = roots[k]
    BY <1>a, <1>2, LandsTyped
  <2>2. Root(Tree(n, epochs[n]))' = Root(Tree(n, epochs[n]))
    BY <1>a, RowsKeepLeaves
  <2>3. \A k \in 1..Len(roots') : k \in 1..Len(roots) \/ k = n
    BY <1>a, <2>1
  <2> QED BY <1>b, <2>1, <2>2, <2>3 DEF ChainHoldsTheBook
<1>3. CASE \E n \in 1..Len(epochs) : Publish(n) \/ PublishUnheard(n)
  BY <1>2, <1>3 DEF Publish, PublishUnheard
<1>4. UNCHANGED roots \/ \E n \in 1..Len(epochs) : Publish(n) \/ PublishUnheard(n)
  BY DEF Next, World, Carry, Forget, Sign, NextPeriod, SetWallet, UnchangedLoop, Loop, FirstMark, Close,
     SaveBaselines, SaveBaselinesFails, SetPeriodEnd, SetPeriodEndFails,
     PublishFails, RetryUnpaid, NothingToPublish, PaidEveryone, Crash,
     Claim, ClaimUnheard, ClaimNeverLands, ClaimFails, Attempt, vars, chainVars
<1> QED BY <1>1, <1>3, <1>4

(* The root on chain is the root of what the database holds, however often *)
(* it is rebuilt and whatever was retried (Publisher.Publish, Epoch).      *)
THEOREM ChainHoldsWhatWasBooked == Spec => []ChainHoldsTheBook
<1>1. Init => ChainHoldsTheBook
  BY DEF Init, ChainHoldsTheBook
<1> QED BY <1>1, TypedInitially, NextKeepsTyped, ChainKept, PTL DEF Spec

-----------------------------------------------------------------------------
(* Leaves prove themselves.                                                *)

(* The leaves of an epoch are finitely many.                               *)
LEMMA LeavesAreFinite ==
  ASSUME NEW e
  PROVE  IsFiniteSet(LeafWallets(e)) /\ Cardinality(LeafWallets(e)) \in Nat
<1> DEFINE billedTo == {m \in Nodes : e.bill[m] > 0}
           to == [n \in billedTo |-> e.to[n]]
           T == {e.to[n] : n \in billedTo}
<1>1. IsFiniteSet(billedTo)
  BY FS_Subset
<1>2. to \in Surjection(billedTo, T)
  BY DEF Surjection
<1>3. LeafWallets(e) \in SUBSET T
  BY DEF LeafWallets
<1> HIDE DEF billedTo, to, T
<1>4. IsFiniteSet(T)
  BY <1>1, <1>2, FS_Surjection
<1> QED BY <1>3, <1>4, FS_Subset, FS_CardinalityType

(* Each leaf has a place of its own among them.                            *)
LEMMA PlacesDiffer ==
  ASSUME NEW e \in Epochs
  PROVE  \A w \in LeafWallets(e) :
           /\ IndexOf(e, w) \in 0..(Cardinality(LeafWallets(e)) - 1)
           /\ LeafAt(e, IndexOf(e, w)) = w
<1> DEFINE W == LeafWallets(e)
           Below(w) == {v \in W : v < w}
<1>1. W \subseteq Nat /\ IsFiniteSet(W) /\ Cardinality(W) \in Nat
  BY LeavesAreForWallets, LeavesAreFinite
<1> HIDE DEF W
<1>2. \A w : IndexOf(e, w) = Cardinality(Below(w))
  BY DEF IndexOf, W
<1>3. ASSUME NEW w PROVE Below(w) \in SUBSET W /\ IsFiniteSet(Below(w)) /\ Cardinality(Below(w)) \in Nat
  <2>1. Below(w) \in SUBSET W
    OBVIOUS
  <2> HIDE DEF Below
  <2> QED BY <1>1, <2>1, FS_Subset, FS_CardinalityType
<1>4. ASSUME NEW w \in W PROVE Cardinality(Below(w)) < Cardinality(W)
  <2>1. w \notin Below(w)
    BY <1>1
  <2> HIDE DEF Below
  <2>2. Below(w) # W
    BY <2>1
  <2>3. Cardinality(Below(w)) <= Cardinality(W) /\ Cardinality(Below(w)) # Cardinality(W)
    BY <1>1, <1>3, <2>2, FS_Subset
  <2> QED BY <1>1, <1>3, <2>3
<1>5. ASSUME NEW v \in W, NEW w \in W, v < w PROVE Cardinality(Below(v)) < Cardinality(Below(w))
  <2>1. Below(v) \in SUBSET Below(w) /\ v \in Below(w) /\ v \notin Below(v)
    <3>1. ASSUME NEW u \in W, u < v PROVE u < w
      BY <1>1, <1>5, <3>1
    <3>2. ~ (v < v)
      BY <1>1
    <3> QED BY <1>5, <3>1, <3>2
  <2> HIDE DEF Below
  <2>2. Below(v) # Below(w)
    BY <2>1
  <2>3. Cardinality(Below(v)) <= Cardinality(Below(w)) /\ Cardinality(Below(v)) # Cardinality(Below(w))
    BY <1>3, <2>1, <2>2, FS_Subset
  <2> QED BY <1>3, <2>3
<1> HIDE DEF Below
<1>6. ASSUME NEW v \in W, NEW w \in W, IndexOf(e, v) = IndexOf(e, w) PROVE v = w
  <2>1. v < w \/ w < v \/ v = w
    BY <1>1
  <2> QED BY <1>2, <1>3, <1>5, <1>6, <2>1
<1>7. ASSUME NEW w \in W PROVE LeafAt(e, IndexOf(e, w)) = w
  BY <1>6 DEF LeafAt, W
<1>8. ASSUME NEW w \in W PROVE IndexOf(e, w) \in 0..(Cardinality(W) - 1)
  BY <1>1, <1>2, <1>3, <1>4
<1> QED BY <1>7, <1>8 DEF W

(* A leaf of an epoch proves itself against the root of the epoch, and     *)
(* nothing else proves itself in its place.                                *)
LEMMA LeavesProve ==
  ASSUME NEW n, NEW e \in Epochs, NEW w \in LeafWallets(e), NEW leaf
  PROVE  VerifyProof(Root(Tree(n, e)), leaf, Proof(Tree(n, e), IndexOf(e, w))) <=> leaf = Leaf(n, e, w)
<1> DEFINE c == Cardinality(LeafWallets(e))
           tree == Tree(n, e)
           i == IndexOf(e, w)
           S == {tree[k] : k \in 1..c}
<1>1. c \in Nat /\ i \in 0..(c - 1) /\ LeafAt(e, i) = w
  BY LeavesAreFinite, PlacesDiffer
<1>2. tree = [k \in 1..c |-> Leaf(n, e, LeafAt(e, k - 1))]
  BY DEF Tree
<1> HIDE DEF c, tree, i
<1>3. tree[i + 1] = Leaf(n, e, w)
  <2>1. i + 1 \in 1..c /\ (i + 1) - 1 = i
    BY <1>1
  <2> QED BY <1>1, <1>2, <2>1
<1>4. tree \in [1..c -> S]
  BY <1>2
<1> HIDE DEF S
<1>5. tree \in Seq(S) /\ Len(tree) = c
  BY <1>1, <1>4
<1> QED BY <1>1, <1>3, <1>5, ProvesItself DEF tree, i

(* Every leaf of an epoch on chain proves itself to the program there, in  *)
(* a tree of any size (buildMerkleTree, MerkleProof, VerifyMerkleProof).   *)
THEOREM LeavesProveOnChain == Spec => []EveryLeafProves
<1>1. Typed /\ ChainHoldsTheBook => EveryLeafProves
  <2> SUFFICES ASSUME Typed, ChainHoldsTheBook, NEW n \in 1..Len(roots), NEW w \in LeafWallets(epochs[n])
               PROVE  VerifyProof(roots[n], Leaf(n, epochs[n], w), Proof(Tree(n, epochs[n]), IndexOf(epochs[n], w)))
    BY SmallTreesProve DEF EveryLeafProves
  <2>1. epochs[n] \in Epochs
    BY DEF Typed, TypeOK
  <2>2. roots[n] = Root(Tree(n, epochs[n]))
    BY DEF ChainHoldsTheBook
  <2> QED BY <2>1, <2>2, LeavesProve
<1>2. Init => ChainHoldsTheBook
  BY DEF Init, ChainHoldsTheBook
<1> QED BY <1>1, <1>2, TypedInitially, NextKeepsTyped, ChainKept, PTL DEF Spec

(* What folds to the root with the path of a leaf is that leaf.            *)
NothingElseProves ==
  \A n \in 1..Len(roots) : \A w \in LeafWallets(epochs[n]) : \A leaf :
    VerifyProof(roots[n], leaf, Proof(Tree(n, epochs[n]), IndexOf(epochs[n], w)))
      => leaf = Leaf(n, epochs[n], w)

(* In the place of a leaf nothing else is paid: neither another amount nor *)
(* another wallet folds to the root with the leaf's path (VerifyProof).    *)
THEOREM OnlyLeavesProve == Spec => []NothingElseProves
<1>1. Typed /\ ChainHoldsTheBook => NothingElseProves
  <2> SUFFICES ASSUME Typed, ChainHoldsTheBook, NEW n \in 1..Len(roots), NEW w \in LeafWallets(epochs[n]), NEW leaf,
                      VerifyProof(roots[n], leaf, Proof(Tree(n, epochs[n]), IndexOf(epochs[n], w)))
               PROVE  leaf = Leaf(n, epochs[n], w)
    BY DEF NothingElseProves
  <2>1. epochs[n] \in Epochs
    BY DEF Typed, TypeOK
  <2>2. roots[n] = Root(Tree(n, epochs[n]))
    BY DEF ChainHoldsTheBook
  <2> QED BY <2>1, <2>2, LeavesProve
<1>2. Init => ChainHoldsTheBook
  BY DEF Init, ChainHoldsTheBook
<1> QED BY <1>1, <1>2, TypedInitially, NextKeepsTyped, ChainKept, PTL DEF Spec

-----------------------------------------------------------------------------
(* The promise is kept.                                                    *)

(* A payment was made for a leaf of an epoch that is on chain.             *)
ClaimsInv ==
  \A p \in claimed :
    /\ p.epoch \in 1..Len(roots)
    /\ p = Payment(p.epoch, epochs[p.epoch], p.wallet)

(* What a claim pays.                                                      *)
LEMMA WhatIsPaid ==
  ASSUME Typed, NEW w \in todo, step = "paying", Pays(w)
  PROVE  /\ closing \in 1..Len(roots)
         /\ closing \in 1..Len(epochs)
         /\ w \in LeafWallets(epochs[closing])
         /\ claimed' = claimed \cup {Payment(closing, epochs[closing], w)}
         /\ \A p \in claimed : ~(p.epoch = closing /\ p.index = IndexOf(epochs[closing], w))
<1>1. Payment(closing, epochs[closing], w).epoch = closing
      /\ Payment(closing, epochs[closing], w).index = IndexOf(epochs[closing], w)
  BY DEF Payment
<1>2. closing \in 1..Len(epochs) /\ w \in LeafWallets(epochs[closing])
  BY DEF Typed, LoopOK, TypeOK, NoEpoch
<1> QED BY <1>1, <1>2 DEF Pays, CanClaim

LEMMA RootsGrow ==
  ASSUME Typed, [Next]_vars
  PROVE  /\ Len(roots) \in Nat /\ Len(roots) <= Len(epochs)
         /\ \/ UNCHANGED roots
            \/ /\ Len(roots') = Len(roots) + 1 /\ Len(roots) < Len(epochs)
               /\ UNCHANGED claimed /\ ~Close
<1>a. TypeOK /\ Len(roots) \in Nat /\ Len(roots) <= Len(epochs) /\ Len(epochs) \in Nat
  BY DEF Typed, TypeOK
<1>1. ASSUME NEW n \in 1..Len(epochs), Publish(n) \/ PublishUnheard(n)
      PROVE  Len(roots') = Len(roots) + 1 /\ Len(roots) < Len(epochs) /\ UNCHANGED claimed /\ ~Close
  <2>1. Lands(n) /\ UNCHANGED claimed /\ step' \in {"paying", "idle"}
    BY <1>1 DEF Publish, PublishUnheard, Idle
  <2>2. Len(roots') = Len(roots) + 1 /\ Len(roots') = n
    BY <1>a, <2>1, LandsTyped
  <2>3. ~Close
    BY <2>1 DEF Close
  <2> QED BY <1>a, <2>1, <2>2, <2>3
<1>2. UNCHANGED roots \/ \E n \in 1..Len(epochs) : Publish(n) \/ PublishUnheard(n)
  BY DEF Next, World, Carry, Forget, Sign, NextPeriod, SetWallet, UnchangedLoop, Loop, FirstMark, Close,
     SaveBaselines, SaveBaselinesFails, SetPeriodEnd, SetPeriodEndFails,
     PublishFails, RetryUnpaid, NothingToPublish, PaidEveryone, Crash,
     Claim, ClaimUnheard, ClaimNeverLands, ClaimFails, Attempt, vars, chainVars
<1> QED BY <1>a, <1>1, <1>2

(* Only a claim that lands changes what is paid.                           *)
LEMMA OnlyClaimsPay ==
  ASSUME [Next]_vars
  PROVE  \/ UNCHANGED claimed
         \/ \E w \in todo : step = "paying" /\ Pays(w) /\ UNCHANGED <<epochs, roots>>
BY DEF Next, World, Carry, Forget, Sign, NextPeriod, SetWallet, UnchangedLoop, Loop, FirstMark, Close,
     SaveBaselines, SaveBaselinesFails, SetPeriodEnd, SetPeriodEndFails, Publish, PublishUnheard,
     PublishFails, RetryUnpaid, NothingToPublish, PaidEveryone, Crash,
     Claim, ClaimUnheard, ClaimNeverLands, ClaimFails, Attempt, vars, chainVars

LEMMA ClaimsKept == Typed /\ ClaimsInv /\ [Next]_vars => ClaimsInv'
<1> SUFFICES ASSUME Typed, ClaimsInv, [Next]_vars, NEW p \in claimed'
             PROVE  p.epoch \in 1..Len(roots') /\ p = Payment(p.epoch, epochs'[p.epoch], p.wallet)
  BY DEF ClaimsInv
<1>a. Len(roots) \in Nat /\ Len(roots) <= Len(epochs) /\ (UNCHANGED roots \/ Len(roots') = Len(roots) + 1)
  BY RootsGrow
<1>b. RowsStay /\ Len(epochs) \in Nat
  BY NextKeepsRows DEF Typed, TypeOK
<1>1. CASE p \in claimed
  <2>1. p.epoch \in 1..Len(roots) /\ p = Payment(p.epoch, epochs[p.epoch], p.wallet)
    BY <1>1 DEF ClaimsInv
  <2>2. p.epoch \in 1..Len(epochs) /\ p.epoch \in 1..Len(roots')
    BY <1>a, <1>b, <2>1
  <2>3. \A w : Payment(p.epoch, epochs[p.epoch], w)' = Payment(p.epoch, epochs[p.epoch], w)
    BY <1>b, <2>2, RowsKeepLeaves
  <2> QED BY <2>1, <2>2, <2>3
<1>2. CASE p \notin claimed
  <2>1. PICK w \in todo : step = "paying" /\ Pays(w) /\ UNCHANGED <<epochs, roots>>
    BY <1>2, OnlyClaimsPay
  <2>2. closing \in 1..Len(roots) /\ p = Payment(closing, epochs[closing], w)
    BY <1>2, <2>1, WhatIsPaid
  <2>3. p.epoch = closing /\ p.wallet = w
    BY <2>2 DEF Payment
  <2> QED BY <2>1, <2>2, <2>3
<1> QED BY <1>1, <1>2

LEMMA PromiseInitially == Init => Promise!Init
<1> SUFFICES ASSUME Init PROVE Book = <<>> /\ Len(roots) = 0 /\ PaidOut = {}
  BY DEF Promise!Init
<1>1. epochs = <<>> /\ roots = <<>> /\ claimed = {}
  BY DEF Init
<1>2. Book = [n \in 1..0 |-> Leaves(epochs[n])]
  BY <1>1 DEF Book
<1>3. [n \in 1..0 |-> Leaves(epochs[n])] = <<>>
  OBVIOUS
<1> QED BY <1>1, <1>2, <1>3 DEF PaidOut

(* The book is as long as the rows, and rows that stay keep their entries. *)
LEMMA BookKept ==
  ASSUME RowsStay, Len(epochs) \in Nat, Len(epochs') \in Nat
  PROVE  /\ Len(Book) = Len(epochs) /\ Len(Book') = Len(epochs')
         /\ \A n \in 1..Len(Book) : Book[n] = Leaves(epochs[n]) /\ Book'[n] = Book[n]
         /\ Len(epochs') = Len(epochs) => Book' = Book
<1>1. Len(Book) = Len(epochs) /\ Len(Book') = Len(epochs')
  BY DEF Book
<1>2. \A n \in 1..Len(epochs) : Leaves(epochs[n])' = Leaves(epochs[n])
  BY RowsKeepLeaves
<1>3. \A n \in 1..Len(epochs) : Book[n] = Leaves(epochs[n]) /\ Book'[n] = Leaves(epochs[n])'
  BY DEF Book, RowsStay
<1>4. ASSUME Len(epochs') = Len(epochs) PROVE Book' = Book
  BY <1>2, <1>4 DEF Book
<1> QED BY <1>1, <1>2, <1>3, <1>4

LEMMA PromiseKeptByNext ==
  Typed /\ Typed' /\ ClaimsInv /\ [Next]_vars => [Promise!Next]_(Promise!vars)
<1> SUFFICES ASSUME Typed, Typed', ClaimsInv, [Next]_vars
             PROVE  Promise!Next \/ UNCHANGED <<Book, Len(roots), PaidOut>>
  BY DEF Promise!vars
<1>a. RowsStay /\ (Len(epochs') = Len(epochs) \/ Close)
  BY NextKeepsRows
<1>b. Len(epochs) \in Nat /\ Len(epochs') \in Nat
  BY DEF Typed, TypeOK
<1>c. /\ Len(Book) = Len(epochs) /\ Len(Book') = Len(epochs')
      /\ \A n \in 1..Len(Book) : Book[n] = Leaves(epochs[n]) /\ Book'[n] = Book[n]
      /\ Len(epochs') = Len(epochs) => Book' = Book
  BY <1>a, <1>b, BookKept
<1>d. /\ Len(roots) \in Nat /\ Len(roots) <= Len(epochs)
      /\ \/ UNCHANGED roots
         \/ Len(roots') = Len(roots) + 1 /\ Len(roots) < Len(epochs) /\ UNCHANGED claimed /\ ~Close
  BY RootsGrow
<1>1. CASE UNCHANGED claimed
  <2>1. PaidOut' = PaidOut
    BY <1>1 DEF PaidOut
  <2>2. CASE Close
    <3>1. UNCHANGED roots
      BY <2>2 DEF Close, chainVars
    <3>2. Len(epochs') = Len(epochs) + 1 \/ Len(epochs') = Len(epochs)
      <4>1. mark # Never /\ TypeOK
        BY <2>2 DEF Close, Typed
      <4>2. (\E due \in SUBSET Nodes : epochs' = Append(epochs, EpochFor(due))) \/ UNCHANGED epochs
        BY <2>2 DEF Close
      <4> QED BY <4>1, <4>2, Appended
    <3> QED BY <1>c, <2>1, <3>1, <3>2 DEF Promise!Next, Promise!Book
  <2>3. CASE ~Close
    <3>1. Book' = Book
      BY <1>a, <1>c, <2>3
    <3>2. CASE UNCHANGED roots
      BY <2>1, <3>1, <3>2
    <3>3. CASE Len(roots') = Len(roots) + 1 /\ Len(roots) < Len(epochs)
      BY <1>c, <2>1, <3>1, <3>3 DEF Promise!Next, Promise!PublishRoot
    <3> QED BY <1>d, <3>2, <3>3
  <2> QED BY <2>2, <2>3
<1>2. CASE ~UNCHANGED claimed
  <2>1. PICK w \in todo : step = "paying" /\ Pays(w) /\ UNCHANGED <<epochs, roots>>
    BY <1>2, OnlyClaimsPay
  <2>2. /\ closing \in 1..Len(roots) /\ closing \in 1..Len(epochs)
        /\ w \in LeafWallets(epochs[closing])
        /\ claimed' = claimed \cup {Payment(closing, epochs[closing], w)}
        /\ \A p \in claimed : ~(p.epoch = closing /\ p.index = IndexOf(epochs[closing], w))
    BY <2>1, WhatIsPaid
  <2> DEFINE leaf == [wallet |-> w, amount |-> Amount(epochs[closing], w)]
  <2>3. leaf \in Book[closing]
    BY <1>c, <2>2 DEF Leaves
  <2>4. Book' = Book /\ Len(roots') = Len(roots)
    BY <1>c, <2>1
  <2>5. PaidOut' = PaidOut \cup {[epoch |-> closing, wallet |-> leaf.wallet, amount |-> leaf.amount]}
    <3> DEFINE pay == Payment(closing, epochs[closing], w)
    <3>1. pay.epoch = closing /\ pay.wallet = leaf.wallet /\ pay.amount = leaf.amount
      BY DEF Payment
    <3> HIDE DEF pay, leaf
    <3>2. claimed' = claimed \cup {pay}
      BY <2>2 DEF pay
    <3> QED BY <3>1, <3>2 DEF PaidOut
  <2>6. ASSUME NEW q \in PaidOut, q.epoch = closing, q.wallet = leaf.wallet PROVE FALSE
    <3>1. PICK p \in claimed : q = [epoch |-> p.epoch, wallet |-> p.wallet, amount |-> p.amount]
      BY <2>6 DEF PaidOut
    <3>2. p.epoch = closing /\ p.wallet = w
      BY <2>6, <3>1
    <3>3. p = Payment(closing, epochs[closing], w)
      BY <3>2 DEF ClaimsInv
    <3>4. p.index = IndexOf(epochs[closing], w)
      BY <3>3 DEF Payment
    <3> QED BY <2>2, <3>2, <3>4
  <2>7. Promise!Pay(closing, leaf)
    BY <2>4, <2>5, <2>6 DEF Promise!Pay
  <2> HIDE DEF leaf
  <2> QED BY <2>2, <2>3, <2>7 DEF Promise!Next
<1> QED BY <1>1, <1>2

(* An epoch is booked once and never rewritten, its root goes on chain in  *)
(* turn, and a leaf is paid at most once, as booked (Collector.Close,      *)
(* Loop.publish, Publisher.PayEveryone).                                   *)
THEOREM PayoutsKeepThePromise == Spec => KeepsThePromise
<1>1. Init => ClaimsInv
  BY DEF Init, ClaimsInv
<1>2. Init => Promise!Init
  BY PromiseInitially
<1> QED
  BY <1>1, <1>2, TypedInitially, NextKeepsTyped, ClaimsKept, PromiseKeptByNext, PTL
  DEF Spec, KeepsThePromise, Promise!Spec
=============================================================================
