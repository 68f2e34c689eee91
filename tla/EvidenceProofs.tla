---------------------------- MODULE EvidenceProofs ----------------------------
(* Theorems about what is held against somebody and what follows from it:  *)
(* Enforcement, for any heads, signals and troubles of a client; and Trust,*)
(* for any window, thresholds, loads, hours and faults of a node.          *)
EXTENDS Enforcement, Trust, WellFoundedInduction, TLAPS

(* A verdict is always one of the bands.                                   *)
LEMMA VerdictsAreBands == \A h : Verdict(h) \in Bands
  BY DEF Verdict, BandFor, Bands

(* Nobody in quarantine is due a node.                                     *)
LEMMA NoNodesInQuarantine == NodesFor("quarantine") = 0
  BY DEF NodesFor

(* An element of a sequence is one of what the sequence is of.             *)
LEMMA ElementOfSeq == ASSUME NEW S, NEW s \in Seq(S), NEW i \in 1..Len(s) PROVE s[i] \in S
  OBVIOUS

(* Every step keeps the types.                                             *)
LEMMA TypesStep == TypeOK /\ [Next]_vars => TypeOK'
<1> SUFFICES ASSUME TypeOK, [Next]_vars PROVE TypeOK'
  OBVIOUS
<1> USE EnforcementAssumption
<1> USE DEF TypeOK, Ids, Bands, Unseen, Idle, Revoking, Nobody, Old
<1>1. ASSUME NEW h \in Heads, NEW report \in Reports, Store(h, report) PROVE TypeOK'
  <2>1. signals' \in Seq(Signals) /\ Len(signals') = Len(signals) + 1
    <3>1. [kind |-> report.kind, count |-> report.count, weight |-> report.weight, age |-> 0] \in Signals
      BY DEF Signals
    <3> QED BY <1>1, <3>1 DEF Store
  <2>2. Len(signals) \in Nat
    OBVIOUS
  <2>3. Ids \subseteq Ids' /\ Len(signals) + 1 \in Ids'
    BY <2>1, <2>2
  <2>4. rows' \subseteq Ids' /\ slipped' \subseteq Ids'
    BY <1>1, <2>3 DEF Store
  <2>5. recording' \in [Heads -> Ids' \cup {Nobody}]
    BY <1>1, <2>3 DEF Store
  <2>6. /\ recall' \in [Heads -> SUBSET Ids'] /\ weighed' \in [Heads -> SUBSET Ids']
        /\ forgetting' \in [Heads -> SUBSET Ids']
        /\ pardoned' \subseteq Ids' /\ cut' \subseteq Ids'
    BY <1>1, <2>3 DEF Store
  <2> QED BY <1>1, <2>1, <2>4, <2>5, <2>6 DEF Store, actingVars
<1>2. ASSUME NEW h \in Heads, Remember(h) PROVE TypeOK'
  BY <1>2 DEF Remember, actingVars
<1>3. ASSUME NEW h \in Heads, NEW from \in Ids, NEW to \in from..Len(signals), Forgive(h, from, to)
      PROVE TypeOK'
  <2>1. Silences(from, to) \subseteq Ids
    BY DEF Silences
  <2>2. pardoned' \subseteq Ids /\ forgetting' \in [Heads -> SUBSET Ids]
    BY <1>3, <2>1 DEF Forgive
  <2>3. recall' \in [Heads -> SUBSET Ids] /\ emptied' \subseteq Heads
    BY <1>3, <2>1 DEF Forgive
  <2> QED BY <1>3, <2>2, <2>3 DEF Forgive, actingVars
<1>4. ASSUME NEW h \in Heads, Judge(h) PROVE TypeOK'
  <2>1. pass' \in [Heads -> Bands \cup {Idle, Revoking}]
    BY <1>4, VerdictsAreBands DEF Judge
  <2> QED BY <1>4, <2>1 DEF Judge, judgeVars, historyVars
<1>5. ASSUME NEW h \in Heads, Apply(h) PROVE TypeOK'
  BY <1>5 DEF Apply, judgeVars, historyVars
<1>6. ASSUME NEW h \in Heads, Revoke(h) PROVE TypeOK'
  BY <1>6 DEF Revoke, judgeVars, historyVars
<1>7. ASSUME NEW h \in Heads, Ensure(h) PROVE TypeOK'
  BY <1>7 DEF Ensure, judgeVars, historyVars, actingVars
<1>8. CASE Week
  <2>1. \A i \in Ids : [signals[i] EXCEPT !.age = Older(@)] \in Signals
    <3> TAKE i \in Ids
    <3>1. signals[i] \in Signals
      BY ElementOfSeq
    <3>2. Older(signals[i].age) \in 0..Old
      BY <3>1 DEF Older, Signals
    <3> QED BY <3>1, <3>2 DEF Signals
  <2>2. signals' \in Seq(Signals) /\ Len(signals') = Len(signals)
    BY <1>8, <2>1 DEF Week
  <2> QED BY <1>8, <2>2 DEF Week, actingVars, historyVars
<1>9. ASSUME NEW h \in Heads, Lead(h) PROVE TypeOK'
  BY <1>9 DEF Lead, Trouble, judgeVars, actingVars, historyVars
<1>10. ASSUME NEW h \in Heads, Restart(h) PROVE TypeOK'
  <2>1. recall' \in [Heads -> SUBSET Ids] /\ weighed' \in [Heads -> SUBSET Ids]
    BY <1>10 DEF Restart
  <2>2. forgetting' \in [Heads -> SUBSET Ids] /\ cut' \subseteq Ids
    BY <1>10 DEF Restart
  <2>3. UNCHANGED <<signals, rows, pardoned, slipped>> /\ emptied' \subseteq Heads
    BY <1>10 DEF Restart
  <2>4. /\ recording' \in [Heads -> Ids \cup {Nobody}] /\ applied' \in [Heads -> Bands \cup {Unseen}]
        /\ pass' \in [Heads -> Bands \cup {Idle, Revoking}] /\ held' \in [Heads -> BOOLEAN]
    BY <1>10 DEF Restart
  <2>5. leader' \in Heads \cup {NoHead} /\ troubles' \in 0..MaxTroubles
    BY <1>10 DEF Restart, Trouble
  <2> QED BY <2>1, <2>2, <2>3, <2>4, <2>5
<1>11. CASE UNCHANGED vars
  BY <1>11 DEF vars, judgeVars, actingVars, historyVars
<1>12. ASSUME NEW h \in Heads, ForgetSignals(h) PROVE TypeOK'
  BY <1>12 DEF ForgetSignals, actingVars
<1> QED BY <1>1, <1>2, <1>3, <1>4, <1>5, <1>6, <1>7, <1>8, <1>9, <1>10, <1>11, <1>12 DEF Next, Proceed

(* The types hold in every state: the judges remember signals that were    *)
(* observed, the record holds such signals, bands and passes are as coded. *)
THEOREM EnforcementTyped == Spec => []TypeOK
<1>1. Init => TypeOK
  BY EnforcementAssumption DEF Init, TypeOK, Ids, Bands, Unseen, Idle, Nobody, Old
<1> QED BY <1>1, TypesStep, PTL DEF Spec
-----------------------------------------------------------------------------
(* Whatever requests come in between a verdict, the band and the           *)
(* revocation, the client the pass has quarantined is left with no node.   *)
THEOREM QuarantineLeavesNothing == Spec => []QuarantineHoldsNothing
<1>1. Init => QuarantineHoldsNothing
  BY DEF Init, QuarantineHoldsNothing, Unseen
<1>2. TypeOK /\ QuarantineHoldsNothing /\ [Next]_vars => QuarantineHoldsNothing'
  <2> SUFFICES ASSUME TypeOK, QuarantineHoldsNothing, [Next]_vars PROVE QuarantineHoldsNothing'
    OBVIOUS
  <2> USE DEF TypeOK, QuarantineHoldsNothing, Bands, Unseen, Idle, Revoking
  <2>1. ASSUME NEW h \in Heads, NEW report \in Reports, Store(h, report) PROVE QuarantineHoldsNothing'
    BY <2>1 DEF Store, actingVars
  <2>2. ASSUME NEW h \in Heads, Remember(h) PROVE QuarantineHoldsNothing'
    BY <2>2 DEF Remember, actingVars
  <2>3. ASSUME NEW h \in Heads, NEW from \in Ids, NEW to \in from..Len(signals), Forgive(h, from, to)
        PROVE QuarantineHoldsNothing'
    BY <2>3 DEF Forgive, actingVars
  <2>4. ASSUME NEW h \in Heads, Judge(h) PROVE QuarantineHoldsNothing'
    BY <2>4 DEF Judge
  <2>5. ASSUME NEW h \in Heads, Apply(h) PROVE QuarantineHoldsNothing'
    BY <2>5 DEF Apply
  <2>6. ASSUME NEW h \in Heads, Revoke(h) PROVE QuarantineHoldsNothing'
    BY <2>6 DEF Revoke
  <2>7. ASSUME NEW h \in Heads, Ensure(h) PROVE QuarantineHoldsNothing'
    BY <2>7, NoNodesInQuarantine DEF Ensure, Band, actingVars
  <2>8. CASE Week
    BY <2>8 DEF Week, actingVars
  <2>9. ASSUME NEW h \in Heads, Lead(h) PROVE QuarantineHoldsNothing'
    BY <2>9 DEF Lead, actingVars
  <2>10. ASSUME NEW h \in Heads, Restart(h) PROVE QuarantineHoldsNothing'
    BY <2>10 DEF Restart
  <2>11. CASE UNCHANGED vars
    BY <2>11 DEF vars, actingVars
  <2>12. ASSUME NEW h \in Heads, ForgetSignals(h) PROVE QuarantineHoldsNothing'
    BY <2>12 DEF ForgetSignals, actingVars
  <2> QED BY <2>1, <2>2, <2>3, <2>4, <2>5, <2>6, <2>7, <2>8, <2>9, <2>10, <2>11, <2>12
        DEF Next, Proceed
<1> QED BY <1>1, <1>2, EnforcementTyped, PTL DEF Spec
-----------------------------------------------------------------------------
(* The strengthening: a signal stored and not yet remembered is accounted  *)
(* for as well.                                                            *)
Accounted == rows \cup pardoned \cup slipped
Excused == slipped \cup cut \cup UNION {forgetting[h] : h \in Heads}
RecordInv ==
  /\ RecordIsTrue
  /\ \A h \in Heads : recording[h] \in Accounted \cup {Nobody}

LEMMA RecordStep == TypeOK /\ RecordInv /\ [Next]_vars => RecordInv'
<1> SUFFICES ASSUME TypeOK, RecordInv, [Next]_vars PROVE RecordInv'
  OBVIOUS
<1> USE DEF RecordInv, RecordIsTrue, Accounted, Nobody
<1>0. pardoned \cap rows \subseteq Excused
  BY DEF Excused
<1>1. ASSUME NEW h \in Heads, NEW report \in Reports, Store(h, report) PROVE RecordInv'
  <2>1. Len(signals) + 1 \notin pardoned
    BY DEF TypeOK, Ids
  <2>2. Accounted \subseteq Accounted' /\ Len(signals) + 1 \in Accounted'
    BY <1>1 DEF Store
  <2>3. pardoned' \cap rows' \subseteq Excused'
    <3>1. Excused \ slipped \subseteq Excused'
      BY <1>1 DEF Store, Excused
    <3>2. slipped \subseteq slipped' /\ slipped' \subseteq Excused'
      BY <1>1 DEF Store, Excused
    <3>3. pardoned' \cap rows' \subseteq pardoned \cap rows
      BY <1>1, <2>1 DEF Store
    <3> QED BY <1>0, <3>1, <3>2, <3>3
  <2>4. \A g \in Heads : recall'[g] \subseteq Accounted'
    BY <1>1, <2>2 DEF Store
  <2>5. \A g \in Heads : recording'[g] \in Accounted' \cup {Nobody}
    BY <1>1, <2>2 DEF Store, TypeOK
  <2> QED BY <2>3, <2>4, <2>5 DEF Excused
<1>2. ASSUME NEW h \in Heads, Remember(h) PROVE RecordInv'
  BY <1>2 DEF Remember, TypeOK
<1>3. ASSUME NEW h \in Heads, NEW from \in Ids, NEW to \in from..Len(signals), Forgive(h, from, to)
      PROVE RecordInv'
  <2>1. Accounted \subseteq Accounted'
    BY <1>3 DEF Forgive
  <2>2. pardoned' \cap rows' \subseteq Excused'
    <3>1. forgetting'[h] = Silences(from, to)
      BY <1>3 DEF Forgive, TypeOK
    <3>2. Silences(from, to) \subseteq Excused'
      BY <3>1 DEF Excused
    <3>3. Excused \subseteq Excused'
      <4>1. \A g \in Heads : forgetting[g] \subseteq forgetting'[g]
        BY <1>3 DEF Forgive, TypeOK
      <4> QED BY <1>3, <4>1 DEF Forgive, Excused
    <3>4. pardoned' \subseteq pardoned \cup Silences(from, to) /\ rows' = rows
      BY <1>3 DEF Forgive
    <3> QED BY <1>0, <3>2, <3>3, <3>4
  <2>3. \A g \in Heads : recall'[g] \subseteq recall[g]
    BY <1>3 DEF Forgive, TypeOK
  <2>4. recording' = recording
    BY <1>3 DEF Forgive
  <2> QED BY <2>1, <2>2, <2>3, <2>4 DEF Excused
<1>4. ASSUME NEW h \in Heads, Judge(h) PROVE RecordInv'
  BY <1>4 DEF Judge, judgeVars, historyVars
<1>5. ASSUME NEW h \in Heads, Apply(h) PROVE RecordInv'
  BY <1>5 DEF Apply, judgeVars, historyVars
<1>6. ASSUME NEW h \in Heads, Revoke(h) PROVE RecordInv'
  BY <1>6 DEF Revoke, judgeVars, historyVars
<1>7. ASSUME NEW h \in Heads, Ensure(h) PROVE RecordInv'
  BY <1>7 DEF Ensure, judgeVars, historyVars
<1>8. CASE Week
  BY <1>8 DEF Week, historyVars
<1>9. ASSUME NEW h \in Heads, Lead(h) PROVE RecordInv'
  BY <1>9 DEF Lead, judgeVars, historyVars
<1>10. ASSUME NEW h \in Heads, Restart(h) PROVE RecordInv'
  <2>1. Excused \subseteq Excused'
    <3>1. \A g \in Heads : forgetting[g] \subseteq forgetting'[g] \cup cut'
      BY <1>10 DEF Restart, TypeOK
    <3> QED BY <1>10, <3>1 DEF Restart, Excused
  <2>2. pardoned' \cap rows' \subseteq Excused'
    BY <1>0, <1>10, <2>1 DEF Restart
  <2>3. \A g \in Heads : recall'[g] \subseteq Accounted' /\ recording'[g] \in Accounted' \cup {Nobody}
    BY <1>10 DEF Restart, TypeOK
  <2> QED BY <2>2, <2>3 DEF Excused
<1>11. CASE UNCHANGED vars
  BY <1>11 DEF vars, judgeVars, historyVars
<1>12. ASSUME NEW h \in Heads, ForgetSignals(h) PROVE RecordInv'
  <2>1. Accounted \subseteq Accounted'
    BY <1>12 DEF ForgetSignals
  <2>2. \A g \in Heads \ {h} : forgetting'[g] = forgetting[g]
    BY <1>12 DEF ForgetSignals, TypeOK
  <2>3. pardoned' \cap rows' \subseteq Excused'
    <3>1. CASE rows' = rows \ forgetting[h] /\ slipped' = slipped
      <4>1. pardoned' \cap rows' \subseteq (pardoned \cap rows) \ forgetting[h]
        BY <1>12, <3>1 DEF ForgetSignals
      <4>2. Excused \ forgetting[h] \subseteq Excused'
        BY <1>12, <2>2, <3>1 DEF ForgetSignals, Excused
      <4> QED BY <1>0, <4>1, <4>2
    <3>2. CASE slipped = {} /\ slipped' = forgetting[h] /\ UNCHANGED <<rows, pardoned>>
      <4>1. Excused \subseteq Excused'
        BY <1>12, <2>2, <3>2 DEF ForgetSignals, Excused
      <4> QED BY <1>0, <3>2, <4>1
    <3> QED BY <1>12, <3>1, <3>2 DEF ForgetSignals
  <2>4. recall' = recall /\ recording' = recording
    BY <1>12 DEF ForgetSignals
  <2> QED BY <2>1, <2>3, <2>4 DEF Excused
<1> QED BY <1>1, <1>2, <1>3, <1>4, <1>5, <1>6, <1>7, <1>8, <1>9, <1>10, <1>11, <1>12 DEF Next, Proceed

(* A restart neither excuses nor accuses: what a head holds against a      *)
(* client is on record, and what an amnesty took back is not, but for      *)
(* removals under way, cut off by a restart or refused, and for signals    *)
(* that one head took back while another was still holding or filing them. *)
THEOREM RestartsChangeNothing == Spec => []RecordIsTrue
<1>1. Init => RecordInv
  BY DEF Init, RecordInv, RecordIsTrue, Accounted, Nobody
<1>2. RecordInv => RecordIsTrue
  BY DEF RecordInv
<1> QED BY <1>1, <1>2, RecordStep, EnforcementTyped, PTL DEF Spec
-----------------------------------------------------------------------------
(* What one signal can do.                                                 *)

(* No signal of a bearable weight costs more than 70 points.               *)
MostOfOne == 22400

LEMMA CostIsBounded ==
  ASSUME TypeOK, NEW h \in Heads, NEW i \in Ids, signals[i].weight <= Bearable
  PROVE  Cost(h, i) \in Nat /\ Cost(h, i) <= MostOfOne
<1> DEFINE kind == signals[i].kind
           count == signals[i].count
           age == signals[i].age
<1>1. kind \in DOMAIN Weights /\ count \in Nat /\ age \in 0..5 /\ signals[i].weight \in 0..28
  <2>1. signals[i] \in Signals
    BY ElementOfSeq DEF TypeOK, Ids
  <2> QED BY <2>1 DEF Signals, Old, MaxWeight, Bearable
<1>2. WeightOf(h, i) \in 0..28
  <2>1. Weights[kind] \in 0..28
    <3> HIDE DEF kind
    <3> QED BY <1>1 DEF Weights
  <2> QED BY <1>1, <2>1 DEF WeightOf
<1> HIDE DEF kind, count, age
<1>3. Magnitude(count) \in 0..25
  BY <1>1 DEF Magnitude
<1>4. Faded[age + 1] \in 0..32
  <2>1. age = 0 \/ age = 1 \/ age = 2 \/ age = 3 \/ age = 4 \/ age = 5
    BY <1>1
  <2> QED BY <2>1 DEF Faded
<1>5. \A a \in 0..28 : \A b \in 0..25 : \A c \in 0..32 : a * b * c \in Nat /\ a * b * c <= MostOfOne
  <2> TAKE a \in 0..28
  <2> TAKE b \in 0..25
  <2> TAKE c \in 0..32
  <2>1. a * b \in Nat /\ a * b <= 28 * 25
    OBVIOUS
  <2>2. \A d \in 0..700 : d * c \in Nat /\ d * c <= 700 * 32
    OBVIOUS
  <2> QED BY <2>1, <2>2 DEF MostOfOne
<1>6. Cost(h, i) = WeightOf(h, i) * Magnitude(count) * Faded[age + 1]
  BY DEF Cost, kind, count, age
<1> DEFINE w == WeightOf(h, i)
           m == Magnitude(count)
           f == Faded[age + 1]
<1> HIDE DEF w, m, f
<1>7. w * m * f \in Nat /\ w * m * f <= MostOfOne
  <2>1. w \in 0..28 /\ m \in 0..25 /\ f \in 0..32
    BY <1>2, <1>3, <1>4 DEF w, m, f
  <2> QED BY <1>5, <2>1
<1>8. Cost(h, i) = w * m * f
  BY <1>6 DEF w, m, f
<1> QED BY <1>7, <1>8

(* The sum over at most one signal.                                        *)
SumOf(h, known) == MapThenSumSet(LAMBDA i : Cost(h, i), known)

IsSum(h, iter, S) ==
  iter = [s \in SUBSET S |->
            IF s = {} THEN 0
            ELSE LET x == CHOOSE x \in s : TRUE IN Cost(h, x) + iter[s \ {x}]]

LEMMA SumIsChosen == ASSUME NEW h, NEW S PROVE SumOf(h, S) = (CHOOSE iter : IsSum(h, iter, S))[S]
BY DEF SumOf, MapThenSumSet, MapThenFoldSet, IsSum

LEMMA SumOfNone == ASSUME NEW h PROVE SumOf(h, {}) = 0
<1> DEFINE c == CHOOSE iter : IsSum(h, iter, {})
<1>1. IsSum(h, [s \in SUBSET {} |-> 0], {})
  BY DEF IsSum
<1>2. IsSum(h, c, {})
  BY <1>1, Zenon
<1> HIDE DEF c
<1>3. c[{}] = 0
  BY <1>2 DEF IsSum
<1> QED BY <1>3, SumIsChosen DEF c

LEMMA SumOfOne == ASSUME NEW h, NEW i, Cost(h, i) \in Nat PROVE SumOf(h, {i}) = Cost(h, i)
<1> DEFINE c == CHOOSE iter : IsSum(h, iter, {i})
           g == [s \in SUBSET {i} |-> IF s = {} THEN 0 ELSE Cost(h, i)]
<1>1. \A s \in SUBSET {i} : s = {} \/ (s = {i} /\ (CHOOSE x \in s : TRUE) = i /\ s \ {i} = {})
  OBVIOUS
<1>2. \A s \in SUBSET {i} :
        g[s] = IF s = {} THEN 0 ELSE LET x == CHOOSE x \in s : TRUE IN Cost(h, x) + g[s \ {x}]
  BY <1>1
<1>3. g = [s \in SUBSET {i} |-> g[s]]
  OBVIOUS
<1> HIDE DEF g
<1>4. IsSum(h, g, {i})
  <2>1. [s \in SUBSET {i} |-> g[s]]
          = [s \in SUBSET {i} |->
               IF s = {} THEN 0 ELSE LET x == CHOOSE x \in s : TRUE IN Cost(h, x) + g[s \ {x}]]
    BY <1>2
  <2> QED BY <1>3, <2>1, Zenon DEF IsSum
<1>5. IsSum(h, c, {i})
  BY <1>4, Zenon
<1> HIDE DEF c
<1>6. \A s \in SUBSET {i} :
        c[s] = IF s = {} THEN 0 ELSE LET x == CHOOSE x \in s : TRUE IN Cost(h, x) + c[s \ {x}]
  BY <1>5, Zenon DEF IsSum
<1>7. c[{}] = 0 /\ c[{i}] = Cost(h, i) + c[{}]
  <2>1. {} \in SUBSET {i} /\ {i} \in SUBSET {i} /\ {i} # {}
    OBVIOUS
  <2>2. (CHOOSE x \in {i} : TRUE) = i /\ {i} \ {i} = {}
    BY <1>1
  <2>3. c[{}] = 0
    BY <1>6, <2>1, Zenon
  <2>4. c[{i}] = LET x == CHOOSE x \in {i} : TRUE IN Cost(h, x) + c[{i} \ {x}]
    BY <1>6, <2>1, Zenon
  <2> QED BY <2>2, <2>3, <2>4, Zenon
<1>8. c[{i}] = Cost(h, i)
  <2> DEFINE x == Cost(h, i)
  <2> HIDE DEF x
  <2>1. x \in Nat /\ c[{i}] = x + 0
    BY <1>7 DEF x
  <2>2. c[{i}] = x
    BY <2>1
  <2> QED BY <2>2 DEF x
<1> QED BY <1>8, SumIsChosen DEF c

(* A verdict of quarantine takes two signals, or one that weighs too much. *)
Sinking == Len(signals) >= 2 \/ \E i \in Ids : signals[i].weight > Bearable

LEMMA QuarantineTakesTwo ==
  ASSUME TypeOK, NEW h \in Heads, Verdict(h) = "quarantine"
  PROVE  Sinking
<1> SUFFICES ASSUME Len(signals) < 2, \A i \in Ids : signals[i].weight <= Bearable PROVE FALSE
  <2>1. \A i \in Ids : signals[i].weight \in Int
    <3> TAKE i \in Ids
    <3>1. signals[i] \in Signals
      BY ElementOfSeq DEF TypeOK, Ids
    <3> QED BY <3>1 DEF Signals
  <2> QED BY <2>1 DEF TypeOK, Sinking, Bearable
<1>1. recall[h] = {} \/ (recall[h] = {1} /\ 1 \in Ids)
  BY DEF TypeOK, Ids
<1>2. \E sum \in Nat : sum <= MostOfOne /\ SumOf(h, recall[h]) = sum
  <2>1. CASE recall[h] = {}
    <3>1. 0 \in Nat /\ 0 <= MostOfOne
      BY DEF MostOfOne
    <3> QED BY <2>1, <3>1, SumOfNone, Zenon
  <2>2. CASE recall[h] = {1} /\ 1 \in Ids
    <3>1. Cost(h, 1) \in Nat /\ Cost(h, 1) <= MostOfOne
      BY <2>2, CostIsBounded
    <3>2. SumOf(h, {1}) = Cost(h, 1)
      BY <3>1, SumOfOne
    <3> QED BY <2>2, <3>1, <3>2, Zenon
  <2> QED BY <1>1, <2>1, <2>2, Zenon
<1>3. PICK sum \in Nat : sum <= MostOfOne /\ SumOf(h, recall[h]) = sum
  BY <1>2
<1> DEFINE penalty == sum \div 320
           score == IF penalty > 100 THEN 0 ELSE 100 - penalty
<1>4. Verdict(h) = BandFor(score)
  BY <1>3, Zenon DEF Verdict, Score, Penalty, SumOf
<1>5. score \in Int /\ score >= 30
  BY <1>3 DEF MostOfOne
<1> HIDE DEF score
<1>6. BandFor(score) # "quarantine"
  BY <1>5 DEF BandFor
<1> QED BY <1>4, <1>6

(* The strengthening: nor does a verdict not yet applied, or a revocation. *)
SunkByTwo ==
  \A h \in Heads : applied[h] = "quarantine" \/ pass[h] \in {"quarantine", Revoking} => Sinking

LEMMA SunkStep == TypeOK /\ SunkByTwo /\ [Next]_vars => SunkByTwo'
<1> SUFFICES ASSUME TypeOK, SunkByTwo, [Next]_vars PROVE SunkByTwo'
  OBVIOUS
<1> USE DEF TypeOK, SunkByTwo, Idle, Revoking, Unseen
<1>1. ASSUME NEW h \in Heads, NEW report \in Reports, Store(h, report) PROVE SunkByTwo'
  <2>1. Sinking => Sinking'
    BY <1>1 DEF Store, Sinking, Ids
  <2> QED BY <1>1, <2>1 DEF Store, actingVars
<1>2. ASSUME NEW h \in Heads, Remember(h) PROVE SunkByTwo'
  BY <1>2 DEF Remember, actingVars, Sinking, Ids
<1>3. ASSUME NEW h \in Heads, NEW from \in Ids, NEW to \in from..Len(signals), Forgive(h, from, to)
      PROVE SunkByTwo'
  BY <1>3 DEF Forgive, actingVars, Sinking, Ids
<1>4. ASSUME NEW h \in Heads, Judge(h) PROVE SunkByTwo'
  <2>1. pass' = [pass EXCEPT ![h] = Verdict(h)] /\ UNCHANGED <<signals, applied>>
    BY <1>4 DEF Judge, judgeVars
  <2>2. Verdict(h) = "quarantine" => Sinking
    BY QuarantineTakesTwo
  <2>3. Verdict(h) # "revoking"
    BY VerdictsAreBands DEF Bands
  <2>4. Sinking' = Sinking
    BY <2>1 DEF Sinking, Ids
  <2> QED BY <2>1, <2>2, <2>3, <2>4
<1>5. ASSUME NEW h \in Heads, Apply(h) PROVE SunkByTwo'
  BY <1>5 DEF Apply, judgeVars, Sinking, Ids
<1>6. ASSUME NEW h \in Heads, Revoke(h) PROVE SunkByTwo'
  BY <1>6 DEF Revoke, judgeVars, Sinking, Ids
<1>7. ASSUME NEW h \in Heads, Ensure(h) PROVE SunkByTwo'
  BY <1>7 DEF Ensure, judgeVars, actingVars, Sinking, Ids
<1>8. CASE Week
  <2>1. Sinking' = Sinking
    <3>1. Len(signals') = Len(signals) /\ \A i \in Ids : signals'[i] = [signals[i] EXCEPT !.age = Older(@)]
      BY <1>8 DEF Week, Ids
    <3>2. \A i \in Ids : signals'[i].weight = signals[i].weight
      <4> TAKE i \in Ids
      <4>1. signals[i] \in Signals
        BY ElementOfSeq DEF Ids
      <4> QED BY <3>1, <4>1 DEF Signals
    <3> QED BY <3>1, <3>2 DEF Sinking, Ids
  <2> QED BY <1>8, <2>1 DEF Week, actingVars
<1>9. ASSUME NEW h \in Heads, Lead(h) PROVE SunkByTwo'
  BY <1>9 DEF Lead, judgeVars, actingVars, Sinking, Ids
<1>10. ASSUME NEW h \in Heads, Restart(h) PROVE SunkByTwo'
  BY <1>10 DEF Restart, Sinking, Ids
<1>11. CASE UNCHANGED vars
  BY <1>11 DEF vars, judgeVars, actingVars, Sinking, Ids
<1>12. ASSUME NEW h \in Heads, ForgetSignals(h) PROVE SunkByTwo'
  BY <1>12 DEF ForgetSignals, actingVars, Sinking, Ids
<1> QED BY <1>1, <1>2, <1>3, <1>4, <1>5, <1>6, <1>7, <1>8, <1>9, <1>10, <1>11, <1>12 DEF Next, Proceed

(* One signal moves trust and does not sink it, of whatever kind and count *)
(* it is and whenever the passes, elections and restarts come (Score), as  *)
(* long as it carries no weight of its own or one of at most 28.           *)
THEOREM QuarantinesRestOnTwo == Spec => []OneSignalNeverSinks
<1>1. Init => SunkByTwo
  BY DEF Init, SunkByTwo, Unseen, Idle, Revoking
<1>2. SunkByTwo => OneSignalNeverSinks
  BY DEF SunkByTwo, OneSignalNeverSinks, Sinking
<1> QED BY <1>1, <1>2, SunkStep, EnforcementTyped, PTL DEF Spec

-----------------------------------------------------------------------------
(* Trust: sums over a window.  A recursive function is the one that is     *)
(* chosen among those that satisfy its equation: that there is one is      *)
(* shown by induction, and so is what it comes to.                         *)

(* A set of naturals has a least element, because < is well founded.       *)
LEMMA LeastNatural == ASSUME NEW T \in SUBSET Nat, T # {} PROVE \E x \in T : \A y \in T : x <= y
<1> DEFINE R == OpToRel(<, Nat)
<1>1. IsWellFoundedOn(R, Nat)
  BY NatLessThanWellFounded
<1>2. \A x, y \in Nat : x < y => <<x, y>> \in R
  BY DEF OpToRel
<1> HIDE DEF R
<1>3. PICK x \in T : \A y \in T : ~ (<<y, x>> \in R)
  BY <1>1, WFMin
<1>4. \A y \in T : ~ (y < x)
  BY <1>2, <1>3
<1> QED BY <1>4

(* Induction, with the set of the naturals that have the property.         *)
LEMMA Induction == ASSUME NEW T, 0 \in T, \A n \in Nat : n \in T => n + 1 \in T PROVE Nat \subseteq T
<1> SUFFICES ASSUME NEW k \in Nat, k \notin T PROVE FALSE
  OBVIOUS
<1> DEFINE B == Nat \ T
<1>1. B \in SUBSET Nat /\ B # {}
  OBVIOUS
<1>2. PICK x \in B : \A y \in B : x <= y
  <2> HIDE DEF B
  <2> QED BY <1>1, LeastNatural
<1>3. x # 0 /\ x - 1 \in Nat
  OBVIOUS
<1> QED BY <1>2, <1>3

(* The running sums of the window.                                         *)
IsRunning(sum, bytes, n) ==
  sum = [h \in 0..n |-> IF h = 0 THEN 0 ELSE sum[h - 1] + bytes[h]]

LEMMA RunningExists ==
  ASSUME NEW bytes
  PROVE  \A n \in Nat : \E sum : IsRunning(sum, bytes, n)
<1> DEFINE T == {n \in Nat : \E sum : IsRunning(sum, bytes, n)}
<1>1. 0 \in T
  <2> DEFINE g == [h \in 0..0 |-> 0]
  <2>1. IsRunning(g, bytes, 0)
    BY DEF IsRunning
  <2> QED BY <2>1
<1>2. ASSUME NEW n \in Nat, n \in T PROVE n + 1 \in T
  <2>1. PICK f : IsRunning(f, bytes, n)
    BY <1>2
  <2> DEFINE next == f[n] + bytes[n + 1]
             g == [h \in 0..(n + 1) |-> IF h = n + 1 THEN next ELSE f[h]]
  <2>2. \A h \in 0..n : f[h] = IF h = 0 THEN 0 ELSE f[h - 1] + bytes[h]
    BY <2>1, Zenon DEF IsRunning
  <2>3. \A h \in 0..(n + 1) : g[h] = IF h = 0 THEN 0 ELSE g[h - 1] + bytes[h]
    <3> TAKE h \in 0..(n + 1)
    <3>1. CASE h = n + 1
      <4>1. g[h] = next /\ g[h - 1] = f[n] /\ h # 0
        <5> HIDE DEF next
        <5> QED BY <3>1
      <4> HIDE DEF g
      <4> QED BY <3>1, <4>1
    <3>2. CASE h # n + 1
      <4>1. h \in 0..n /\ (h # 0 => h - 1 \in 0..n)
        BY <3>2
      <4>2. g[h] = f[h] /\ (h # 0 => g[h - 1] = f[h - 1])
        <5> HIDE DEF next
        <5> QED BY <3>2, <4>1
      <4> HIDE DEF g
      <4> QED BY <2>2, <4>1, <4>2
    <3> QED BY <3>1, <3>2
  <2>4. g = [h \in 0..(n + 1) |-> g[h]]
    OBVIOUS
  <2> HIDE DEF g
  <2>5. [h \in 0..(n + 1) |-> g[h]] = [h \in 0..(n + 1) |-> IF h = 0 THEN 0 ELSE g[h - 1] + bytes[h]]
    BY <2>3
  <2>6. IsRunning(g, bytes, n + 1)
    BY <2>4, <2>5, Zenon DEF IsRunning
  <2> QED BY <2>6
<1>3. Nat \subseteq T
  <2> HIDE DEF T
  <2> QED BY <1>1, <1>2, Induction
<1> QED BY <1>3

(* The sum of a window: what there is in its hours, added one by one.      *)
LEMMA SumOfWindow ==
  ASSUME NEW bytes \in [1..Window -> Nat]
  PROVE  \E sum \in [0..Window -> Nat] :
           /\ sum[0] = 0 /\ \A h \in 1..Window : sum[h] = sum[h - 1] + bytes[h]
           /\ SumOver(bytes) = sum[Window]
<1> DEFINE sum == CHOOSE s : IsRunning(s, bytes, Window)
<1>1. SumOver(bytes) = sum[Window]
  BY DEF SumOver, IsRunning
<1>2. Window \in Nat /\ Window # 0
  BY TrustAssumption
<1>3. IsRunning(sum, bytes, Window)
  BY <1>2, RunningExists, Zenon
<1> HIDE DEF sum
<1>4. \A h \in 0..Window : sum[h] = IF h = 0 THEN 0 ELSE sum[h - 1] + bytes[h]
  BY <1>3, Zenon DEF IsRunning
<1>5. sum = [h \in 0..Window |-> sum[h]]
  BY <1>3, Zenon DEF IsRunning
<1>6. sum[0] = 0 /\ \A h \in 1..Window : sum[h] = sum[h - 1] + bytes[h]
  BY <1>2, <1>4
<1> DEFINE T == {h \in Nat : h <= Window => sum[h] \in Nat}
<1>7. 0 \in T
  BY <1>6
<1>8. ASSUME NEW h \in Nat, h \in T PROVE h + 1 \in T
  <2> SUFFICES ASSUME h + 1 <= Window PROVE sum[h + 1] \in Nat
    OBVIOUS
  <2>1. h + 1 \in 1..Window /\ h <= Window /\ (h + 1) - 1 = h
    BY <1>2
  <2>2. sum[h + 1] = sum[h] + bytes[h + 1] /\ sum[h] \in Nat /\ bytes[h + 1] \in Nat
    BY <1>6, <1>8, <2>1
  <2> QED BY <2>2
<1>9. Nat \subseteq T
  <2> HIDE DEF T
  <2> QED BY <1>7, <1>8, Induction
<1>10. sum \in [0..Window -> Nat]
  BY <1>2, <1>5, <1>9
<1> QED BY <1>1, <1>6, <1>10

(* Two windows compared hour by hour.                                      *)
LEMMA SumGrows ==
  ASSUME NEW bytes \in [1..Window -> Nat], NEW h \in 1..Window, NEW b \in Nat
  PROVE  SumOver([bytes EXCEPT ![h] = @ + b]) = SumOver(bytes) + b
<1> DEFINE more == [bytes EXCEPT ![h] = @ + b]
<1>0. Window \in Nat /\ Window # 0
  BY TrustAssumption
<1>1. more \in [1..Window -> Nat] /\ \A k \in 1..Window : more[k] = IF k = h THEN bytes[k] + b ELSE bytes[k]
  OBVIOUS
<1> HIDE DEF more
<1>2. PICK s \in [0..Window -> Nat] :
        /\ s[0] = 0 /\ \A k \in 1..Window : s[k] = s[k - 1] + bytes[k]
        /\ SumOver(bytes) = s[Window]
  BY SumOfWindow
<1>3. PICK t \in [0..Window -> Nat] :
        /\ t[0] = 0 /\ \A k \in 1..Window : t[k] = t[k - 1] + more[k]
        /\ SumOver(more) = t[Window]
  BY <1>1, SumOfWindow
<1> DEFINE T == {k \in Nat : k <= Window => t[k] = IF k < h THEN s[k] ELSE s[k] + b}
<1>4. 0 \in T
  BY <1>2, <1>3
<1>5. ASSUME NEW k \in Nat, k \in T PROVE k + 1 \in T
  <2> SUFFICES ASSUME k + 1 <= Window
               PROVE  t[k + 1] = IF k + 1 < h THEN s[k + 1] ELSE s[k + 1] + b
    OBVIOUS
  <2>1. k + 1 \in 1..Window /\ k \in 0..Window /\ (k + 1) - 1 = k /\ k + 1 \in 0..Window
    BY <1>0
  <2>2. /\ s[k + 1] = s[k] + bytes[k + 1] /\ t[k + 1] = t[k] + more[k + 1]
        /\ s[k] \in Nat /\ t[k] \in Nat /\ bytes[k + 1] \in Nat
        /\ more[k + 1] = IF k + 1 = h THEN bytes[k + 1] + b ELSE bytes[k + 1]
    BY <1>1, <1>2, <1>3, <2>1
  <2>3. t[k] = IF k < h THEN s[k] ELSE s[k] + b
    BY <1>5, <2>1
  <2> QED BY <2>2, <2>3
<1>6. Nat \subseteq T
  <2> HIDE DEF T
  <2> QED BY <1>4, <1>5, Induction
<1>7. t[Window] = s[Window] + b
  BY <1>0, <1>6
<1> QED BY <1>2, <1>3, <1>7 DEF more

(* An hour later the last hour of the window is out of it.                 *)
LEMMA SumShifts ==
  ASSUME NEW bytes \in [1..Window -> Nat]
  PROVE  SumOver([h \in 1..Window |-> IF h = 1 THEN 0 ELSE bytes[h - 1]]) = SumOver(bytes) - bytes[Window]
<1> DEFINE later == [h \in 1..Window |-> IF h = 1 THEN 0 ELSE bytes[h - 1]]
<1>0. Window \in Nat /\ Window # 0
  BY TrustAssumption
<1>1. later \in [1..Window -> Nat] /\ \A k \in 1..Window : later[k] = IF k = 1 THEN 0 ELSE bytes[k - 1]
  <2>1. \A k \in 1..Window : k # 1 => k - 1 \in 1..Window
    BY <1>0
  <2> QED BY <2>1
<1> HIDE DEF later
<1>2. PICK s \in [0..Window -> Nat] :
        /\ s[0] = 0 /\ \A k \in 1..Window : s[k] = s[k - 1] + bytes[k]
        /\ SumOver(bytes) = s[Window]
  BY SumOfWindow
<1>3. PICK t \in [0..Window -> Nat] :
        /\ t[0] = 0 /\ \A k \in 1..Window : t[k] = t[k - 1] + later[k]
        /\ SumOver(later) = t[Window]
  BY <1>1, SumOfWindow
<1> DEFINE T == {k \in Nat : k + 1 <= Window => t[k + 1] = s[k]}
<1>4. 0 \in T
  <2>1. 1 \in 1..Window
    BY <1>0
  <2>2. t[1] = t[0] + later[1] /\ later[1] = 0
    BY <1>1, <1>3, <2>1
  <2> QED BY <1>2, <1>3, <2>2
<1>5. ASSUME NEW k \in Nat, k \in T PROVE k + 1 \in T
  <2> SUFFICES ASSUME (k + 1) + 1 <= Window PROVE t[(k + 1) + 1] = s[k + 1]
    OBVIOUS
  <2>1. /\ k + 1 \in 1..Window /\ (k + 1) - 1 = k
        /\ (k + 1) + 1 \in 1..Window /\ ((k + 1) + 1) - 1 = k + 1 /\ (k + 1) + 1 # 1
    BY <1>0
  <2>2. t[(k + 1) + 1] = t[k + 1] + later[(k + 1) + 1] /\ later[(k + 1) + 1] = bytes[k + 1]
    BY <1>1, <1>3, <2>1
  <2>3. t[k + 1] = s[k] /\ s[k + 1] = s[k] + bytes[k + 1]
    BY <1>2, <1>5, <2>1
  <2> QED BY <2>2, <2>3
<1>6. Nat \subseteq T
  <2> HIDE DEF T
  <2> QED BY <1>4, <1>5, Induction
<1>7. t[Window] = s[Window - 1] /\ s[Window] = s[Window - 1] + bytes[Window]
  <2>1. Window - 1 \in Nat /\ (Window - 1) + 1 = Window /\ Window \in 1..Window
    BY <1>0
  <2>2. t[(Window - 1) + 1] = s[Window - 1]
    BY <1>6, <2>1
  <2> QED BY <1>2, <2>1, <2>2
<1>8. bytes[Window] \in Nat /\ s[Window - 1] \in Nat
  BY <1>0
<1> QED BY <1>2, <1>3, <1>7, <1>8 DEF later

LEMMA SumOfNothing == SumOver([h \in 1..Window |-> 0]) = 0
<1> DEFINE none == [h \in 1..Window |-> 0]
<1>0. Window \in Nat /\ Window # 0
  BY TrustAssumption
<1>1. none \in [1..Window -> Nat] /\ \A k \in 1..Window : none[k] = 0
  OBVIOUS
<1> HIDE DEF none
<1>2. PICK s \in [0..Window -> Nat] :
        /\ s[0] = 0 /\ \A k \in 1..Window : s[k] = s[k - 1] + none[k]
        /\ SumOver(none) = s[Window]
  BY <1>1, SumOfWindow
<1> DEFINE T == {k \in Nat : k <= Window => s[k] = 0}
<1>3. 0 \in T
  BY <1>2
<1>4. ASSUME NEW k \in Nat, k \in T PROVE k + 1 \in T
  <2> SUFFICES ASSUME k + 1 <= Window PROVE s[k + 1] = 0
    OBVIOUS
  <2>1. k + 1 \in 1..Window /\ (k + 1) - 1 = k
    BY <1>0
  <2>2. s[k] = 0
    BY <1>0, <1>4
  <2>3. s[k + 1] = s[k] + none[k + 1] /\ none[k + 1] = 0
    BY <1>1, <1>2, <2>1
  <2> QED BY <2>2, <2>3
<1>5. Nat \subseteq T
  <2> HIDE DEF T
  <2> QED BY <1>3, <1>4, Induction
<1> QED BY <1>0, <1>2, <1>5 DEF none

LEMMA SumType == ASSUME NEW bytes \in [1..Window -> Nat] PROVE SumOver(bytes) \in Nat
<1>1. Window \in 0..Window
  BY TrustAssumption
<1> QED BY <1>1, SumOfWindow

-----------------------------------------------------------------------------
(* What is held against a node: how many claims there are of a kind.       *)
Held(claimed) == DOMAIN claimed \subseteq Claims /\ claimed \in [DOMAIN claimed -> Nat \ {0}]

(* A new claim is counted, those from before are not dropped while they    *)
(* are fresh.                                                              *)
LEMMA ObserveFacts ==
  ASSUME NEW known, Held(known), NEW reason \in DOMAIN Weight, NEW tenths \in Tenths
  PROVE  /\ Held(Observe(known, reason, tenths))
         /\ \A r \in DOMAIN Weight, t \in Tenths :
              Count(Fresh(r, t), Observe(known, reason, tenths))
                = Count(Fresh(r, t), known) + IF r = reason /\ t = tenths THEN 1 ELSE 0
<1> DEFINE new == Fresh(reason, tenths)
           kept == {d \in DOMAIN known : d.age <= Retained}
           more == Observe(known, reason, tenths)
<1>1. new \in Claims /\ new.age = 0
  BY DEF Fresh, Claims, MaxAge
<1>2. DOMAIN more = kept \cup {new} /\ \A c \in kept \cup {new} : more[c] = Count(c, known) + IF c = new THEN 1 ELSE 0
  BY DEF Observe
<1>3. \A c : Count(c, known) \in Nat /\ (c \in DOMAIN known => Count(c, known) # 0)
  BY DEF Count, Held
<1>4. \A c \in kept \cup {new} : more[c] \in Nat \ {0}
  BY <1>2, <1>3
<1>5. more = [c \in DOMAIN more |-> more[c]]
  BY DEF Observe
<1> HIDE DEF more
<1>6. more \in [DOMAIN more -> Nat \ {0}]
  BY <1>2, <1>4, <1>5
<1>7. Held(more)
  BY <1>1, <1>2, <1>6 DEF Held
<1>8. ASSUME NEW r \in DOMAIN Weight, NEW t \in Tenths
      PROVE  Count(Fresh(r, t), more) = Count(Fresh(r, t), known) + IF r = reason /\ t = tenths THEN 1 ELSE 0
  <2> DEFINE c == Fresh(r, t)
  <2>1. c.age = 0 /\ (c = new <=> r = reason /\ t = tenths)
    BY DEF Fresh
  <2>2. c \in DOMAIN known => c \in kept
    BY <2>1 DEF Retained
  <2> HIDE DEF c, new, kept
  <2>3. CASE c \in kept \cup {new}
    <3>1. Count(c, more) = Count(c, known) + IF c = new THEN 1 ELSE 0
      BY <1>2, <2>3 DEF Count
    <3> QED BY <2>1, <3>1 DEF c
  <2>4. CASE c \notin kept \cup {new}
    <3>1. Count(c, more) = 0 /\ Count(c, known) = 0
      BY <1>2, <2>2, <2>4 DEF Count
    <3> QED BY <2>1, <2>4, <3>1 DEF c
  <2> QED BY <2>3, <2>4
<1> QED BY <1>7, <1>8 DEF more

(* After a week no claim is fresh, and none is lost.                       *)
LEMMA AgedFacts ==
  ASSUME NEW known, Held(known), NEW c \in {Aged(d) : d \in DOMAIN known}
  PROVE  /\ c \in Claims /\ c.age # 0
         /\ Count([c EXCEPT !.age = @ - 1], known) + (IF c.age = MaxAge THEN Count(c, known) ELSE 0) \in Nat \ {0}
<1>1. PICK d \in DOMAIN known : c = Aged(d)
  OBVIOUS
<1>2. d \in Claims /\ d.age \in 0..MaxAge
  BY DEF Held, Claims
<1>3. \A e : Count(e, known) \in Nat
  BY DEF Count, Held
<1>4. Count(d, known) # 0
  BY DEF Count, Held
<1>5. CASE d.age = MaxAge
  <2>1. c = d
    BY <1>1, <1>2, <1>5 DEF Aged, Claims
  <2>2. c.age = MaxAge /\ Count(c, known) # 0
    BY <1>4, <1>5, <2>1
  <2> DEFINE younger == [c EXCEPT !.age = @ - 1]
  <2>3. Count(younger, known) \in Nat /\ Count(c, known) \in Nat
    BY <1>3
  <2> HIDE DEF younger
  <2>4. Count(younger, known) + (IF c.age = MaxAge THEN Count(c, known) ELSE 0) \in Nat \ {0}
    BY <2>2, <2>3
  <2> QED BY <1>2, <2>1, <2>2, <2>4 DEF MaxAge, younger
<1>6. CASE d.age # MaxAge
  <2>1. c = [d EXCEPT !.age = d.age + 1]
    BY <1>1, <1>6 DEF Aged
  <2>2. c \in Claims /\ c.age = d.age + 1
    BY <1>2, <1>6, <2>1 DEF Claims, MaxAge
  <2>3. [c EXCEPT !.age = @ - 1] = d
    <3>1. c.age - 1 = d.age
      BY <1>2, <2>2
    <3>2. [c EXCEPT !.age = d.age] = d
      BY <1>2, <2>1 DEF Claims
    <3> QED BY <3>1, <3>2
  <2> DEFINE aged == IF c.age = MaxAge THEN Count(c, known) ELSE 0
  <2>4. aged \in Nat
    BY <1>3
  <2> HIDE DEF aged
  <2>5. Count(d, known) + aged \in Nat \ {0}
    BY <1>3, <1>4, <2>4
  <2> QED BY <1>2, <2>2, <2>3, <2>5 DEF aged
<1> QED BY <1>5, <1>6

-----------------------------------------------------------------------------
(* What a charge weighs is one of five.                                    *)
LEMMA SeverityType ==
  ASSUME TrustTypeOK
  PROVE  Severity \in Tenths
BY DEF Severity, RatioMagnitude, Tenths

(* What a round of the auditor leaves: what self-dealing adds, if anything.*)
LEMMA RoundFacts ==
  ASSUME TrustTypeOK, NEW others \in BOOLEAN, AuditRound(others)
  PROVE  /\ Held(claims')
         /\ \A t \in Tenths :
              Count(Fresh("overclaim", t), claims')
                = Count(Fresh("overclaim", t), claims) + IF Overclaims(others) /\ t = Severity THEN 1 ELSE 0
         /\ \A t \in Tenths : Count(Fresh("blind_watch", t), claims') = Count(Fresh("blind_watch", t), claims)
<1> DEFINE judged == IF Overclaims(others) THEN Observe(claims, "overclaim", Severity) ELSE claims
<1>1. Held(claims) /\ {"overclaim", "blind_watch", "self_dealing"} \subseteq DOMAIN Weight
  BY DEF TrustTypeOK, Held, Weight
<1>2. \A r \in DOMAIN Weight, t \in Tenths : Count(Fresh(r, t), claims) \in Nat
  BY <1>1 DEF Count, Held
<1>3. /\ Held(judged)
      /\ \A r \in DOMAIN Weight, t \in Tenths :
           Count(Fresh(r, t), judged)
             = Count(Fresh(r, t), claims) + IF Overclaims(others) /\ r = "overclaim" /\ t = Severity THEN 1 ELSE 0
  <2>1. CASE Overclaims(others)
    BY <1>1, <2>1, ObserveFacts, SeverityType
  <2>2. CASE ~Overclaims(others)
    BY <1>1, <1>2, <2>2
  <2> QED BY <2>1, <2>2
<1>4. claims' \in JudgeSelfDealing(judged)
  BY DEF AuditRound
<1> HIDE DEF judged
<1>5. CASE claims' = judged
  BY <1>1, <1>3, <1>5, <1>2
<1>6. CASE claims' # judged
  <2>1. PICK e \in Excess : claims' = Observe(judged, "self_dealing", e)
    BY <1>4, <1>6 DEF JudgeSelfDealing
  <2>2. e \in Tenths
    BY TrustAssumption
  <2>3. /\ Held(claims')
        /\ \A r \in DOMAIN Weight, t \in Tenths :
             Count(Fresh(r, t), claims')
               = Count(Fresh(r, t), judged) + IF r = "self_dealing" /\ t = e THEN 1 ELSE 0
    BY <1>1, <1>3, <2>1, <2>2, ObserveFacts
  <2>4. \A r \in DOMAIN Weight, t \in Tenths : Count(Fresh(r, t), judged) \in Nat
    BY <1>3 DEF Count, Held
  <2>5. \A r \in {"overclaim", "blind_watch"}, t \in Tenths : Count(Fresh(r, t), claims') = Count(Fresh(r, t), judged)
    BY <1>1, <2>3, <2>4
  <2> QED BY <1>1, <1>2, <1>3, <2>3, <2>5
<1> QED BY <1>5, <1>6

(* What is left only gets less.                                            *)
Budgets == [bytes : 0..MaxBytes, hours : 0..MaxHours, faults : 0..MaxFaults]

LEMMA BoundsAreNaturals == MaxBytes \in Nat /\ MaxHours \in Nat /\ MaxFaults \in Nat /\ Window \in Nat
BY TrustAssumption

LEMMA LessLeft ==
  ASSUME NEW budget \in Budgets
  PROVE  /\ \A b \in Nat : b <= budget.bytes => [budget EXCEPT !.bytes = @ - b] \in Budgets
         /\ budget.hours > 0 => [budget EXCEPT !.hours = @ - 1] \in Budgets
         /\ budget.faults > 0 => [budget EXCEPT !.faults = @ - 1] \in Budgets
<1>1. budget.bytes \in 0..MaxBytes /\ budget.hours \in 0..MaxHours /\ budget.faults \in 0..MaxFaults
  BY DEF Budgets
<1>2. ASSUME NEW b \in Nat, b <= budget.bytes PROVE [budget EXCEPT !.bytes = @ - b] \in Budgets
  <2>1. budget.bytes - b \in 0..MaxBytes
    BY <1>1, <1>2, BoundsAreNaturals
  <2> QED BY <2>1 DEF Budgets
<1>3. ASSUME budget.hours > 0 PROVE [budget EXCEPT !.hours = @ - 1] \in Budgets
  <2>1. budget.hours - 1 \in 0..MaxHours
    BY <1>1, <1>3, BoundsAreNaturals
  <2> QED BY <2>1 DEF Budgets
<1>4. ASSUME budget.faults > 0 PROVE [budget EXCEPT !.faults = @ - 1] \in Budgets
  <2>1. budget.faults - 1 \in 0..MaxFaults
    BY <1>1, <1>4, BoundsAreNaturals
  <2> QED BY <2>1 DEF Budgets
<1> QED BY <1>2, <1>3, <1>4

LEMMA FaultType == TrustTypeOK /\ Fault => left' \in Budgets
<1>1. TrustTypeOK => left \in Budgets
  BY DEF TrustTypeOK, Budgets
<1> QED BY <1>1, LessLeft DEF Fault

(* More carried, more signed.                                              *)
LEMMA SinceType ==
  ASSUME NEW past \in [carried : Nat, signed : Nat], NEW b \in Nat
  PROVE  /\ [past EXCEPT !.carried = @ + b] \in [carried : Nat, signed : Nat]
         /\ [past EXCEPT !.signed = @ + b] \in [carried : Nat, signed : Nat]
         /\ past.carried \in Nat /\ past.signed \in Nat
OBVIOUS

LEMMA TrustTypeStep == TrustTypeOK /\ [TrustNext]_trustVars => TrustTypeOK'
<1> SUFFICES ASSUME TrustTypeOK, [TrustNext]_trustVars
             PROVE  TrustTypeOK'
  OBVIOUS
<1> USE DEF auditor, watch, world, histories
<1>0. /\ Held(claims) /\ receipts \in [1..Window -> Nat] /\ left \in Budgets
      /\ since \in [carried : Nat, signed : Nat] /\ total \in Nat /\ unsigned \in Nat /\ unheard \in Nat
  BY DEF TrustTypeOK, Held, Budgets
<1>1. ASSUME NEW b \in Loads, Carry(b) PROVE TrustTypeOK'
  <2>1. b \in Nat
    BY TrustAssumption
  <2>2. left' \in Budgets /\ since' \in [carried : Nat, signed : Nat]
    BY <1>0, <1>1, <2>1, LessLeft, SinceType DEF Carry
  <2>3. total' \in Nat /\ unsigned' \in Nat /\ unheard' \in Nat
    BY <1>0, <1>1, <2>1 DEF Carry
  <2> QED BY <1>1, <2>2, <2>3 DEF TrustTypeOK, Carry, Budgets
<1>2. ASSUME NEW b \in Loads, Forget(b) PROVE TrustTypeOK'
  <2>1. b \in Nat
    BY TrustAssumption
  <2>2. total' \in Nat
    BY <1>0, <1>2, <2>1 DEF Forget
  <2> QED BY <1>2, <2>2, FaultType DEF TrustTypeOK, Forget, Budgets
<1>3. ASSUME NEW b \in Loads, NEW h \in 1..Window, Sign(b, h) PROVE TrustTypeOK'
  <2>1. b \in Nat
    BY TrustAssumption
  <2>2. unsigned' \in Nat /\ since' \in [carried : Nat, signed : Nat]
    BY <1>0, <1>3, <2>1, SinceType DEF Sign
  <2>3. receipts' \in [1..Window -> Nat]
    BY <1>0, <1>3, <2>1 DEF Sign
  <2> QED BY <1>3, <2>2, <2>3 DEF TrustTypeOK, Sign
<1>4. CASE Hour
  <2>1. receipts' \in [1..Window -> Nat]
    <3>1. \A h \in 1..Window : h # 1 => h - 1 \in 1..Window
      BY BoundsAreNaturals
    <3> QED BY <1>0, <1>4, <3>1 DEF Hour
  <2>2. left' \in Budgets
    BY <1>0, <1>4, LessLeft DEF Hour
  <2>3. quiet' \in {0, 1, Unknown} /\ due' \in BOOLEAN /\ slid' \in BOOLEAN /\ accused' \in BOOLEAN /\ unlocked' \in BOOLEAN
    BY <1>4 DEF TrustTypeOK, Hour, Budgets
  <2> QED BY <1>4, <2>1, <2>2, <2>3 DEF TrustTypeOK, Hour, Budgets
<1>5. CASE HalfLife
  <2>1. Held(claims')
    <3> DEFINE D == {Aged(d) : d \in DOMAIN claims}
    <3>1. DOMAIN claims' = D /\ claims' \in [D -> Nat \ {0}]
      BY <1>0, <1>5, AgedFacts DEF HalfLife
    <3>2. D \subseteq Claims
      BY <1>0, AgedFacts
    <3> HIDE DEF D
    <3> QED BY <3>1, <3>2 DEF Held
  <2>2. left' \in Budgets
    BY <1>5, BoundsAreNaturals DEF HalfLife, Budgets
  <2> QED BY <1>5, <2>1, <2>2 DEF TrustTypeOK, HalfLife, Budgets, Held
<1>6. ASSUME NEW others \in BOOLEAN, AuditRound(others) PROVE TrustTypeOK'
  <2>1. Held(claims')
    BY <1>6, RoundFacts
  <2>2. lastSigned' \in Nat
    BY <1>6, SumType DEF TrustTypeOK, AuditRound, Signed
  <2> QED BY <1>6, <2>1, <2>2 DEF TrustTypeOK, AuditRound, Held, Nothing
<1>7. CASE AuditSkipped
  BY <1>7, FaultType DEF TrustTypeOK, AuditSkipped, Budgets
<1>8. CASE ObserveDomains
  BY <1>8 DEF TrustTypeOK, ObserveDomains
<1>9. CASE Sweep
  <2>1. Held(claims')
    BY <1>0, <1>9, ObserveFacts DEF Sweep, Weight, Tenths
  <2>2. base' \in Nat \cup {Unknown} /\ quiet' \in {0, 1, Unknown}
    BY <1>9 DEF Sweep, TrustTypeOK
  <2>3. accused' \in BOOLEAN /\ rebase' \in BOOLEAN
    BY <1>9 DEF Sweep, TrustTypeOK
  <2> QED BY <1>9, <2>1, <2>2, <2>3 DEF TrustTypeOK, Sweep, Held
<1>10. CASE ObserveRelayMode
  <2>1. Held(claims')
    BY <1>0, <1>10, ObserveFacts DEF ObserveRelayMode, Weight, Tenths
  <2> QED BY <1>10, <2>1, FaultType DEF TrustTypeOK, ObserveRelayMode, Budgets, Held
<1>11. CASE HeadRestarts
  <2>1. Held(claims')
    BY <1>11 DEF HeadRestarts, NoClaims, Held
  <2> QED BY <1>11, <2>1, FaultType DEF TrustTypeOK, HeadRestarts, Budgets, Held, Nothing
<1>12. CASE UNCHANGED trustVars
  BY <1>12 DEF TrustTypeOK, trustVars
<1> QED BY <1>1, <1>2, <1>3, <1>4, <1>5, <1>6, <1>7, <1>8, <1>9, <1>10, <1>11, <1>12 DEF TrustNext

LEMMA TrustInitType == TrustInit => TrustTypeOK
<1> SUFFICES ASSUME TrustInit PROVE TrustTypeOK
  OBVIOUS
<1>1. left \in Budgets
  BY BoundsAreNaturals DEF TrustInit, Budgets
<1>2. Held(claims)
  BY DEF TrustInit, NoClaims, Held
<1>3. since \in [carried : Nat, signed : Nat] /\ receipts \in [1..Window -> Nat]
  BY DEF TrustInit, Nothing
<1>4. /\ total \in Nat /\ unsigned \in Nat /\ unheard \in Nat /\ lastSigned \in Nat
      /\ seen \in Nat \cup {Unknown} /\ base \in Nat \cup {Unknown} /\ quiet \in {0, 1, Unknown}
  BY DEF TrustInit
<1>5. due \in BOOLEAN /\ {accused, unlocked, rebase} \subseteq BOOLEAN /\ fell \in BOOLEAN /\ slid \in BOOLEAN
  BY DEF TrustInit
<1> QED BY <1>1, <1>2, <1>3, <1>4, <1>5 DEF TrustTypeOK, Budgets, Held

(* The types hold in every state: no claim weighs or costs anything but    *)
(* what the code's tables know, no count is negative.                      *)
THEOREM TrustTyped == TrustSpec => []TrustTypeOK
<1>1. TrustInit => TrustTypeOK
  BY TrustInitType
<1> QED BY <1>1, TrustTypeStep, PTL DEF TrustSpec

-----------------------------------------------------------------------------
(* What the auditor and the watch compare is what happened since they last *)
(* looked: the total rose by what was carried, unless it fell; the window's*)
(* receipts by what was signed, unless some left it; the base of the watch *)
(* is behind the total by no more than was carried since the last batch.   *)
Watched == left.hours > 0 \/ due

Remembered ==
  seen # Unknown =>
    /\ total <= seen + since.carried
    /\ ~fell => total = seen + since.carried
    /\ Signed <= lastSigned + since.signed
    /\ ~slid /\ Watched => Signed = lastSigned + since.signed

Based ==
  /\ base = Unknown => rebase \/ quiet = Unknown
  /\ base # Unknown /\ ~rebase /\ quiet # Unknown /\ total >= base => total - base <= unheard

TrustInv == Remembered /\ Based

LEMMA Numbers ==
  ASSUME TrustTypeOK
  PROVE  /\ total \in Nat /\ unsigned \in Nat /\ unheard \in Nat /\ lastSigned \in Nat
         /\ since.carried \in Nat /\ since.signed \in Nat /\ Signed \in Nat
         /\ (seen # Unknown => seen \in Nat) /\ (base # Unknown => base \in Nat)
         /\ left.hours \in Nat /\ receipts \in [1..Window -> Nat] /\ since \in [carried : Nat, signed : Nat]
<1>1. receipts \in [1..Window -> Nat] /\ since \in [carried : Nat, signed : Nat]
  BY DEF TrustTypeOK
<1>2. Signed \in Nat
  BY <1>1, SumType DEF Signed
<1>3. left.hours \in Nat
  BY BoundsAreNaturals DEF TrustTypeOK
<1> QED BY <1>1, <1>2, <1>3 DEF TrustTypeOK

LEMMA TrustInvStep == TrustTypeOK /\ TrustTypeOK' /\ TrustInv /\ [TrustNext]_trustVars => TrustInv'
<1> SUFFICES ASSUME TrustTypeOK, TrustTypeOK', Remembered, Based, [TrustNext]_trustVars
             PROVE  Remembered' /\ Based'
  BY DEF TrustInv
<1> USE DEF auditor, watch, world, histories
<1>0. /\ total \in Nat /\ unsigned \in Nat /\ unheard \in Nat /\ lastSigned \in Nat
      /\ since.carried \in Nat /\ since.signed \in Nat /\ Signed \in Nat
      /\ (seen # Unknown => seen \in Nat) /\ (base # Unknown => base \in Nat)
      /\ left.hours \in Nat /\ receipts \in [1..Window -> Nat] /\ since \in [carried : Nat, signed : Nat]
  BY Numbers
<1>s. receipts' = receipts => Signed' = Signed
  BY DEF Signed
<1>1. ASSUME NEW b \in Loads, Carry(b) PROVE Remembered' /\ Based'
  <2>1. b \in Nat
    BY TrustAssumption
  <2>2. /\ total' = total + b /\ since'.carried = since.carried + b /\ since'.signed = since.signed
        /\ unheard' = unheard + b /\ left'.hours = left.hours
        /\ UNCHANGED <<receipts, auditor, due, watch, fell, slid>>
    BY <1>0, <1>1 DEF Carry, TrustTypeOK
  <2>3. Watched' = Watched
    BY <2>2 DEF Watched
  <2>4. Remembered'
    BY <1>0, <1>s, <2>1, <2>2, <2>3 DEF Remembered
  <2>5. Based'
    BY <1>0, <2>1, <2>2 DEF Based
  <2> QED BY <2>4, <2>5
<1>2. ASSUME NEW b \in Loads, Forget(b) PROVE Remembered' /\ Based'
  <2>1. b \in Nat
    BY TrustAssumption
  <2>2. /\ total' = total - b /\ total' \in Nat /\ fell' = TRUE /\ left'.hours = left.hours
        /\ UNCHANGED <<receipts, auditor, due, watch, since, slid, unheard>>
    BY <1>0, <1>2, <2>1 DEF Forget, Fault, TrustTypeOK
  <2>3. Watched' = Watched
    BY <2>2 DEF Watched
  <2>4. Remembered'
    BY <1>0, <1>s, <2>1, <2>2, <2>3 DEF Remembered
  <2>5. Based'
    BY <1>0, <2>1, <2>2 DEF Based
  <2> QED BY <2>4, <2>5
<1>3. ASSUME NEW b \in Loads, NEW h \in 1..Window, Sign(b, h) PROVE Remembered' /\ Based'
  <2>1. b \in Nat
    BY TrustAssumption
  <2>2. /\ since'.carried = since.carried /\ since'.signed = since.signed + b
        /\ UNCHANGED <<total, auditor, due, watch, left, fell, slid, unheard>>
    BY <1>0, <1>3 DEF Sign
  <2>3. Signed' = Signed + b
    BY <1>0, <1>3, <2>1, SumGrows DEF Sign, Signed
  <2>4. Watched' = Watched
    BY <2>2 DEF Watched
  <2>5. Remembered'
    BY <1>0, <2>1, <2>2, <2>3, <2>4 DEF Remembered
  <2>6. Based'
    BY <2>2 DEF Based
  <2> QED BY <2>5, <2>6
<1>4. CASE Hour
  <2>1. /\ UNCHANGED <<total, auditor, base, rebase, since, fell, unheard>>
        /\ slid' = (slid \/ receipts[Window] > 0) /\ Watched
        /\ quiet = Unknown <=> quiet' = Unknown
    BY <1>4, TrustAssumption DEF Hour, Watched
  <2>2. Signed' = Signed - receipts[Window] /\ receipts[Window] \in Nat
    <3>1. Window \in 1..Window
      BY TrustAssumption
    <3> QED BY <1>0, <1>4, <3>1, SumShifts DEF Hour, Signed
  <2>3. Remembered'
    <3>0. receipts[Window] > 0 \/ receipts[Window] = 0
      BY <2>2
    <3>1. slid' \/ (~slid /\ receipts[Window] = 0)
      BY <2>1, <3>0, Zenon
    <3>2. seen # Unknown => /\ total <= seen + since.carried
                            /\ ~fell => total = seen + since.carried
                            /\ Signed <= lastSigned + since.signed
                            /\ ~slid => Signed = lastSigned + since.signed
      BY <2>1 DEF Remembered
    <3>3. seen # Unknown => Signed' <= lastSigned + since.signed
      BY <1>0, <2>2, <3>2
    <3>4. seen # Unknown /\ ~slid' => Signed' = lastSigned + since.signed
      BY <1>0, <2>2, <3>1, <3>2
    <3> QED BY <2>1, <3>2, <3>3, <3>4 DEF Remembered
  <2>4. Based'
    BY <2>1 DEF Based
  <2> QED BY <2>3, <2>4
<1>5. CASE HalfLife
  <2>1. /\ UNCHANGED <<total, auditor, due, watch, since, fell, slid, unheard>>
        /\ ~due /\ left'.hours = 0
    BY <1>5 DEF HalfLife
  <2>2. Signed' = 0
    BY <1>5, SumOfNothing DEF HalfLife, Signed
  <2>3. ~Watched'
    BY <2>1 DEF Watched
  <2>4. Remembered'
    BY <1>0, <2>1, <2>2, <2>3 DEF Remembered
  <2>5. Based'
    BY <2>1 DEF Based
  <2> QED BY <2>4, <2>5
<1>6. ASSUME NEW others \in BOOLEAN, AuditRound(others) PROVE Remembered' /\ Based'
  <2>1. /\ seen' = total /\ lastSigned' = Signed /\ since'.carried = 0 /\ since'.signed = 0
        /\ UNCHANGED <<total, receipts, watch, unheard>>
    BY <1>6 DEF AuditRound, Nothing
  <2>2. Remembered'
    BY <1>0, <1>s, <2>1 DEF Remembered
  <2>3. Based'
    BY <2>1 DEF Based
  <2> QED BY <2>2, <2>3
<1>7. CASE AuditSkipped
  <2>1. UNCHANGED <<world, auditor, watch, histories>> /\ left'.hours = left.hours /\ due
    BY <1>7 DEF AuditSkipped, Fault, TrustTypeOK
  <2>2. Watched
    BY <2>1 DEF Watched
  <2> QED BY <1>s, <2>1, <2>2 DEF Remembered, Based
<1>8. CASE ObserveDomains
  <2>1. UNCHANGED <<world, auditor, due, left, since, fell, slid>> /\ rebase' = TRUE
    BY <1>8 DEF ObserveDomains
  <2>2. Watched' = Watched
    BY <2>1 DEF Watched
  <2> QED BY <1>s, <2>1, <2>2 DEF Remembered, Based
<1>9. CASE Sweep
  <2>1. /\ UNCHANGED <<world, auditor, due, left, since, fell, slid, unheard>>
        /\ base' = IF Rebases THEN total ELSE base
        /\ quiet' # Unknown
    BY <1>9, TrustAssumption DEF Sweep
  <2>2. Watched' = Watched
    BY <2>1 DEF Watched
  <2>3. Remembered'
    BY <1>s, <2>1, <2>2 DEF Remembered
  <2>4. Based'
    <3>1. CASE Rebases
      BY <1>0, <2>1, <3>1, TrustAssumption DEF Based
    <3>2. CASE ~Rebases
      BY <2>1, <3>2 DEF Based, Rebases
    <3> QED BY <3>1, <3>2
  <2> QED BY <2>3, <2>4
<1>10. CASE ObserveRelayMode
  <2>1. UNCHANGED <<world, auditor, due, base, quiet, rebase, histories>> /\ left'.hours = left.hours
    BY <1>10 DEF ObserveRelayMode, Fault, TrustTypeOK
  <2>2. Watched' = Watched
    BY <2>1 DEF Watched
  <2> QED BY <1>s, <2>1, <2>2 DEF Remembered, Based
<1>11. CASE HeadRestarts
  BY <1>11 DEF HeadRestarts, Remembered, Based
<1>12. CASE UNCHANGED trustVars
  <2>1. UNCHANGED <<world, auditor, due, watch, left, histories>>
    BY <1>12 DEF trustVars
  <2>2. Watched' = Watched
    BY <2>1 DEF Watched
  <2> QED BY <1>s, <2>1, <2>2 DEF Remembered, Based
<1> QED BY <1>1, <1>2, <1>3, <1>4, <1>5, <1>6, <1>7, <1>8, <1>9, <1>10, <1>11, <1>12 DEF TrustNext

LEMMA TrustInvHolds == TrustSpec => [](TrustTypeOK /\ TrustInv)
<1>1. TrustInit => TrustInv
  BY DEF TrustInit, TrustInv, Remembered, Based
<1>2. TrustTypeOK /\ TrustTypeOK' /\ TrustInv /\ [TrustNext]_trustVars => TrustInv'
  BY TrustInvStep
<1> QED BY <1>1, <1>2, TrustTyped, PTL DEF TrustSpec

-----------------------------------------------------------------------------
(* Who claims as much as that is over the tolerance of what happened.      *)
LEMMA OverclaimsFacts ==
  ASSUME TrustTypeOK, TrustInv, due, NEW others \in BOOLEAN
  PROVE  /\ Overclaims(others) =>
              since.carried >= MinAudit /\ (20 * since.carried > 27 * since.signed \/ slid)
         /\ seen # Unknown /\ ~fell /\ since.carried >= MinAudit /\ 20 * since.carried > 27 * since.signed
              => Overclaims(TRUE)
<1>0. /\ total \in Nat /\ lastSigned \in Nat /\ Signed \in Nat
      /\ since.carried \in Nat /\ since.signed \in Nat /\ (seen # Unknown => seen \in Nat)
  BY Numbers
<1>1. MinAudit \in Nat /\ MinAudit > 0
  BY TrustAssumption
<1> DEFINE signed == Signed
<1>2. seen # Unknown => /\ total <= seen + since.carried
                        /\ ~fell => total = seen + since.carried
                        /\ signed <= lastSigned + since.signed
                        /\ ~slid => signed = lastSigned + since.signed
  BY DEF TrustInv, Remembered, Watched
<1>3. signed \in Nat /\ Confirmed = (IF signed > lastSigned THEN signed - lastSigned ELSE 0)
  BY <1>0 DEF Confirmed
<1>4. \A o \in BOOLEAN : Overclaims(o) <=> /\ Claimed >= MinAudit
                                        /\ IF Confirmed = 0 THEN o \/ signed > 0 ELSE 20 * Claimed > 27 * Confirmed
  BY DEF Overclaims
<1> HIDE DEF signed
<1>5. ASSUME Overclaims(others), ~slid
      PROVE  since.carried >= MinAudit /\ 20 * since.carried > 27 * since.signed
  <2>1. Claimed >= MinAudit
    BY <1>4, <1>5
  <2>2. seen # Unknown /\ total >= seen /\ Claimed = total - seen
    BY <1>0, <1>1, <2>1 DEF Claimed
  <2>3. Claimed \in Nat /\ Claimed <= since.carried
    BY <1>0, <1>2, <2>2
  <2>4. Confirmed = since.signed
    BY <1>0, <1>2, <1>3, <1>5, <2>2
  <2>5. since.signed = 0 \/ 20 * Claimed > 27 * since.signed
    BY <1>4, <1>5, <2>4
  <2> HIDE DEF Claimed, Confirmed
  <2> QED BY <1>0, <1>1, <2>1, <2>3, <2>5
<1>6. ASSUME Overclaims(others) PROVE since.carried >= MinAudit
  <2>1. Claimed >= MinAudit
    BY <1>4, <1>6
  <2>2. seen # Unknown /\ total >= seen /\ Claimed = total - seen
    BY <1>0, <1>1, <2>1 DEF Claimed
  <2> QED BY <1>0, <1>1, <1>2, <2>1, <2>2
<1>7. ASSUME seen # Unknown, ~fell, since.carried >= MinAudit, 20 * since.carried > 27 * since.signed
      PROVE  Overclaims(TRUE)
  <2>1. Claimed = since.carried
    BY <1>0, <1>2, <1>7 DEF Claimed
  <2>2. Confirmed \in Nat /\ Confirmed <= since.signed
    BY <1>0, <1>2, <1>3, <1>7
  <2>3. 20 * Claimed > 27 * Confirmed
    BY <1>0, <1>7, <2>1, <2>2
  <2> HIDE DEF Claimed, Confirmed
  <2> QED BY <1>4, <1>7, <2>1, <2>3
<1> QED BY <1>5, <1>6, <1>7

(* A sweep that finds a node blind.                                        *)
LEMMA BlindFacts ==
  ASSUME TrustTypeOK, TrustInv, Blind
  PROVE  unheard >= BlindBytes
<1>1. BlindBytes \in Nat
  BY TrustAssumption
<1>2. ~rebase /\ quiet # Unknown /\ ~(total < base) /\ total - base >= BlindBytes
  BY DEF Blind, Rebases
<1>3. base # Unknown
  BY <1>2 DEF TrustInv, Based
<1>4. base \in Nat /\ total \in Nat /\ unheard \in Nat
  BY <1>3, Numbers
<1>5. total - base <= unheard
  BY <1>2, <1>3, <1>4 DEF TrustInv, Based
<1> QED BY <1>1, <1>2, <1>4, <1>5

(* Whatever else is observed, no more claims of a kind are fresh.          *)
LEMMA NoNewClaims ==
  ASSUME TrustTypeOK, NEW reason \in {"overclaim", "blind_watch"},
         \/ claims' = claims
         \/ claims' = NoClaims
         \/ HalfLife
         \/ \E other \in DOMAIN Weight, tenths \in Tenths :
              other # reason /\ claims' = Observe(claims, other, tenths)
  PROVE  ~Charged(reason)
<1>0. Held(claims) /\ reason \in DOMAIN Weight
  BY DEF TrustTypeOK, Held, Weight
<1>n. \A t \in Tenths : Count(Fresh(reason, t), claims) \in Nat
  BY <1>0 DEF Count, Held
<1> SUFFICES ASSUME NEW t \in Tenths
             PROVE  ~(Count(Fresh(reason, t), claims) < Count(Fresh(reason, t), claims'))
  BY DEF Charged
<1> DEFINE before == Count(Fresh(reason, t), claims)
<1>b. before \in Nat
  BY <1>n
<1> HIDE DEF before
<1>1. CASE claims' = claims
  <2>1. Count(Fresh(reason, t), claims') = before
    BY <1>1 DEF before
  <2> QED BY <1>b, <2>1 DEF before
<1>2. CASE claims' = NoClaims \/ HalfLife
  <2>1. Fresh(reason, t) \notin DOMAIN claims'
    <3>1. CASE claims' = NoClaims
      BY <3>1 DEF NoClaims
    <3>2. CASE HalfLife
      <4>1. DOMAIN claims' = {Aged(d) : d \in DOMAIN claims}
        BY <3>2 DEF HalfLife
      <4>2. \A c \in DOMAIN claims' : c.age # 0
        BY <1>0, <4>1, AgedFacts
      <4>3. Fresh(reason, t).age = 0
        BY DEF Fresh
      <4> QED BY <4>2, <4>3
    <3> QED BY <1>2, <3>1, <3>2
  <2>2. Count(Fresh(reason, t), claims') = 0
    BY <2>1 DEF Count
  <2>3. ~(before < 0)
    BY <1>b
  <2> QED BY <2>2, <2>3 DEF before
<1>3. CASE \E other \in DOMAIN Weight, tenths \in Tenths :
             other # reason /\ claims' = Observe(claims, other, tenths)
  <2>1. PICK other \in DOMAIN Weight, tenths \in Tenths :
               other # reason /\ claims' = Observe(claims, other, tenths)
    BY <1>3
  <2>2. Count(Fresh(reason, t), claims') = Count(Fresh(reason, t), claims) + 0
    BY <1>0, <2>1, ObserveFacts
  <2>3. Count(Fresh(reason, t), claims') = before
    BY <1>b, <2>2 DEF before
  <2> QED BY <1>b, <2>3 DEF before
<1> QED BY <1>1, <1>2, <1>3

Earned ==
  /\ Charged("overclaim") =>
       /\ since.carried >= MinAudit
       /\ 20 * since.carried > 27 * since.signed \/ slid
  /\ Charged("blind_watch") => unheard >= BlindBytes

LEMMA EarnedStep == TrustTypeOK /\ TrustInv /\ [TrustNext]_trustVars => Earned
<1> SUFFICES ASSUME TrustTypeOK, TrustInv, [TrustNext]_trustVars
             PROVE  Earned
  OBVIOUS
<1>1. CASE claims' = claims \/ claims' = NoClaims \/ HalfLife
  BY <1>1, NoNewClaims DEF Earned
<1>2. ASSUME NEW others \in BOOLEAN, AuditRound(others) PROVE Earned
  <2>0. /\ \A t \in Tenths :
             Count(Fresh("overclaim", t), claims')
               = Count(Fresh("overclaim", t), claims) + IF Overclaims(others) /\ t = Severity THEN 1 ELSE 0
        /\ \A t \in Tenths : Count(Fresh("blind_watch", t), claims') = Count(Fresh("blind_watch", t), claims)
    BY <1>2, RoundFacts
  <2>1. \A r \in DOMAIN Weight, t \in Tenths : Count(Fresh(r, t), claims) \in Nat
    BY DEF TrustTypeOK, Count
  <2>2. \A t \in Tenths : Count(Fresh("overclaim", t), claims) \in Nat /\ Count(Fresh("blind_watch", t), claims) \in Nat
    BY <2>1 DEF Weight
  <2>3. ~Charged("blind_watch")
    BY <2>0, <2>2 DEF Charged
  <2>4. Charged("overclaim") => Overclaims(others)
    BY <2>0, <2>2 DEF Charged
  <2>5. due
    BY <1>2 DEF AuditRound
  <2> QED BY <2>3, <2>4, <2>5, OverclaimsFacts DEF Earned
<1>3. CASE Sweep
  <2>1. ~Charged("overclaim")
    BY <1>3, NoNewClaims DEF Sweep, Weight, Tenths
  <2>2. CASE Blind
    BY <2>1, <2>2, BlindFacts DEF Earned
  <2>3. CASE ~Blind
    BY <1>1, <1>3, <2>3 DEF Sweep
  <2> QED BY <2>2, <2>3
<1>4. CASE ObserveRelayMode
  BY <1>4, NoNewClaims DEF ObserveRelayMode, Earned, Weight, Tenths
<1>5. CASE UNCHANGED claims \/ HeadRestarts
  BY <1>1, <1>5 DEF HeadRestarts
<1> QED BY <1>1, <1>2, <1>3, <1>4, <1>5
    DEF TrustNext, Carry, Forget, Sign, Hour, AuditSkipped, ObserveDomains, trustVars

(* A node is charged with overclaiming only for bytes it counted since the *)
(* auditor's last round, beyond tolerance of what was signed since or with *)
(* receipts gone from the window, and with blindness only for bytes it     *)
(* carried since its last batch of domains (Once, Sweep).                  *)
THEOREM ChargesHaveCause == TrustSpec => ChargesAreEarned
<1>1. TrustTypeOK /\ TrustInv /\ [TrustNext]_trustVars
        => [/\ Charged("overclaim") =>
                 /\ since.carried >= MinAudit
                 /\ 20 * since.carried > 27 * since.signed \/ slid
            /\ Charged("blind_watch") => unheard >= BlindBytes]_trustVars
  BY EarnedStep DEF Earned
<1> QED BY <1>1, TrustInvHolds, PTL DEF TrustSpec, ChargesAreEarned

LEMMA CaughtStep ==
  ASSUME TrustTypeOK, TrustInv, AuditRound(TRUE), seen # Unknown, ~fell,
         since.carried >= MinAudit, 20 * since.carried > 27 * since.signed
  PROVE  Charged("overclaim")
<1>1. Overclaims(TRUE)
  BY OverclaimsFacts DEF AuditRound
<1>2. Severity \in Tenths
  BY SeverityType
<1>3. Count(Fresh("overclaim", Severity), claims') = Count(Fresh("overclaim", Severity), claims) + 1
  BY <1>1, <1>2, RoundFacts
<1>4. Count(Fresh("overclaim", Severity), claims) \in Nat
  BY DEF TrustTypeOK, Count
<1> DEFINE n == Count(Fresh("overclaim", Severity), claims)
<1>5. n < n + 1
  BY <1>4
<1> QED BY <1>2, <1>3, <1>5 DEF Charged

(* A node whose count did not fall and who counted more than tolerance     *)
(* allows for what was signed since the last round is charged in this one, *)
(* whatever the window held before (Once).                                 *)
THEOREM NoLiarIsMissed == TrustSpec => LiarsAreCaught
<1>1. TrustTypeOK /\ TrustInv /\ [TrustNext]_trustVars
        => [/\ AuditRound(TRUE)
            /\ seen # Unknown /\ ~fell
            /\ since.carried >= MinAudit /\ 20 * since.carried > 27 * since.signed
            => Charged("overclaim")]_trustVars
  BY CaughtStep
<1> QED BY <1>1, TrustInvHolds, PTL DEF TrustSpec, LiarsAreCaught
=============================================================================
