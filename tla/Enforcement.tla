----------------------------- MODULE Enforcement -----------------------------
(***************************************************************************)
(* What follows from a suspicion.  Nodes and the head itself report what a *)
(* client does; the judge keeps the signals, in memory and in the database,*)
(* and weighs them; once a minute the head that leads acts on the verdict; *)
(* the allocator sizes a request by what was acted on.  A receipt that     *)
(* comes late takes an accusation of silence back, in memory first and in  *)
(* the database after the lock is let go.                                  *)
(*                                                                         *)
(* The module follows one client, who has donated nothing: the passes of   *)
(* the enforcer take clients one by one and share nothing between them.  A *)
(* signal is a number, in the order of their times; ages are half-lives.   *)
(***************************************************************************)
EXTENDS Integers, Sequences, FiniteSets, FiniteSetsExt

CONSTANTS
  Heads, NoHead,
  Reports,      \* the signals that may be observed, and by whom
  MaxSignals,   \* bound on the signals
  MaxTroubles   \* bound on elections and restarts

(* DefaultWeights.                                                         *)
Weights ==
  [HIGH_FANOUT |-> 14, PORT_SCAN |-> 20, MAIL_PORT |-> 18, TORRENT |-> 8, MALWARE |-> 25,
   UPLOAD_HEAVY |-> 6, ADS |-> 1, GEO_SPREAD |-> 16, NO_DEVICE_ID |-> 22, NO_RECEIPTS |-> 20,
   ADDRESS_MISMATCH |-> 12, CLIENT_SPREAD |-> 18, FLAT_RHYTHM |-> 15]
MaxWeight == 100   \* bound on the weights that signals carry

ASSUME EnforcementAssumption ==
  /\ NoHead \notin Heads
  /\ Reports \subseteq [kind : DOMAIN Weights, count : Nat, weight : 0..MaxWeight,
                       from : {"node", "head"}]
  /\ MaxSignals \in Nat /\ MaxTroubles \in Nat

VARIABLES
  signals,    \* every signal ever observed, with its age
  rows,       \* AbuseSignal: the signals on record
  recall,     \* what the judge of each head remembers
  weighed,    \* of these, the signals it has with a weight of their own
  applied,    \* what the enforcer of each head last acted on
  pass,       \* where the pass of each head is: a verdict it has not yet applied
  recording,  \* a signal each head has stored and not yet remembered
  forgetting, \* signals each head took back and has not yet removed the rows of
  held,       \* whether the client has nodes, in the books of each head
  leader,
  pardoned,   \* history: signals taken back
  slipped,    \* history: signals whose write or removal the store refused
  cut,        \* history: signals whose removal a restart came before
  emptied,    \* history: heads that took back the last thing they remembered
  troubles

judgeVars == <<signals, rows, recall, weighed, recording, forgetting>>
actingVars == <<applied, pass>>
historyVars == <<pardoned, slipped, cut, emptied>>
vars == <<judgeVars, actingVars, held, leader, historyVars, troubles>>

Nobody == 0
Retain == 4        \* half-lives: thirty days, in weeks
Old == 5           \* no age beyond this is told apart
Bands == {"full", "reduced", "quarantine"}
Unseen == "unseen"
Idle == "idle"
Revoking == "revoking"

Ids == 1..Len(signals)

(* Mutant: the count itself.                                               *)
MutMagnitude(count) == 10 * count

(* magnitude, in tenths.                                                   *)
Magnitude(count) ==
  CASE count <= 1 -> 10 [] count <= 3 -> 13 [] count <= 8 -> 16 [] count <= 20 -> 20 [] OTHER -> 25

(* The weight a signal carries, if it does and the head still knows it.    *)
WeightOf(h, i) == IF i \in weighed[h] THEN signals[i].weight ELSE Weights[signals[i].kind]

(* Mutant: signals do not fade.                                            *)
MutCost(h, i) == WeightOf(h, i) * Magnitude(signals[i].count) * 32

(* What a signal costs, in 320ths of a point: tenths, and five halvings,   *)
(* after which two of the heaviest signals leave the client in peace.      *)
Faded == <<32, 16, 8, 4, 2, 1>>
Cost(h, i) == WeightOf(h, i) * Magnitude(signals[i].count) * Faded[signals[i].age + 1]

Penalty(h) == MapThenSumSet(LAMBDA i : Cost(h, i), recall[h]) \div 320

Score(h) == IF Penalty(h) > 100 THEN 0 ELSE 100 - Penalty(h)

BandFor(confidence) ==
  CASE confidence >= 60 -> "full" [] confidence >= 30 -> "reduced" [] OTHER -> "quarantine"

Verdict(h) == BandFor(Score(h))

Band(h) == IF applied[h] = Unseen THEN "full" ELSE applied[h]

NodesFor(band) == CASE band = "full" -> 2 [] band = "reduced" -> 1 [] OTHER -> 0

Recent == {i \in Ids : signals[i].age <= Retain}

Signals == [kind : DOMAIN Weights, count : Nat, weight : 0..MaxWeight, age : 0..Old]

TypeOK ==
  /\ signals \in Seq(Signals)
  /\ rows \subseteq Ids
  /\ recall \in [Heads -> SUBSET Ids] /\ weighed \in [Heads -> SUBSET Ids]
  /\ applied \in [Heads -> Bands \cup {Unseen}]
  /\ pass \in [Heads -> Bands \cup {Idle, Revoking}]
  /\ recording \in [Heads -> Ids \cup {Nobody}]
  /\ forgetting \in [Heads -> SUBSET Ids]
  /\ held \in [Heads -> BOOLEAN]
  /\ leader \in Heads \cup {NoHead}
  /\ pardoned \subseteq Ids /\ slipped \subseteq Ids /\ cut \subseteq Ids
  /\ emptied \subseteq Heads
  /\ troubles \in 0..MaxTroubles

Init ==
  /\ signals = <<>> /\ rows = {}
  /\ recall = [h \in Heads |-> {}] /\ weighed = [h \in Heads |-> {}]
  /\ applied = [h \in Heads |-> Unseen] /\ pass = [h \in Heads |-> Idle]
  /\ recording = [h \in Heads |-> Nobody] /\ forgetting = [h \in Heads |-> {}]
  /\ held = [h \in Heads |-> FALSE]
  /\ leader \in Heads
  /\ pardoned = {} /\ slipped = {} /\ cut = {} /\ emptied = {}
  /\ troubles = 0
-----------------------------------------------------------------------------
Trouble == troubles < MaxTroubles /\ troubles' = troubles + 1

(* Observe and ObserveSubject, first half: the row, which may be refused   *)
(* (bound: the store refuses once).  A node's signal counts only if        *)
(* somebody holds the profile it names; the head names the client itself.  *)
(* The row has no column for the weight.                                   *)
Store(h, report) ==
  /\ Len(signals) < MaxSignals
  /\ recording[h] = Nobody
  /\ report.from = "node" => held[h]
  /\ signals' = Append(signals, [kind |-> report.kind, count |-> report.count,
                                 weight |-> report.weight, age |-> 0])
  /\ recording' = [recording EXCEPT ![h] = Len(signals) + 1]
  /\ \/ rows' = rows \cup {Len(signals) + 1} /\ UNCHANGED slipped
     \/ slipped = {} /\ slipped' = {Len(signals) + 1} /\ UNCHANGED rows
  /\ UNCHANGED <<recall, weighed, forgetting, actingVars, held, leader, pardoned, cut, emptied,
                 troubles>>

(* Observe, second half: remembered, and what is too old let go.           *)
Remember(h) ==
  /\ recording[h] # Nobody
  /\ recall' = [recall EXCEPT ![h] = (@ \cup {recording[h]}) \cap Recent]
  /\ weighed' = [weighed EXCEPT ![h] =
       IF signals[recording[h]].weight = 0 THEN @ ELSE @ \cup {recording[h]}]
  /\ recording' = [recording EXCEPT ![h] = Nobody]
  /\ emptied' = emptied \ {h}
  /\ UNCHANGED <<signals, rows, forgetting, actingVars, held, leader, pardoned, slipped, cut,
                 troubles>>

(* The accusations of silence a window covers.                             *)
Silences(from, to) == {i \in from..to : signals[i].kind = "NO_RECEIPTS"}

(* Forgive, under the lock: a late receipt, at most a week old, covers a   *)
(* window.  Only a judge that had something to forget asks the store to    *)
(* forget too (bound: one amnesty of a head at a time).                    *)
Forgive(h, from, to) ==
  LET forgiven == Silences(from, to) \cap recall[h] IN
  /\ forgetting[h] = {}
  /\ \A i \in from..to : signals[i].age <= 1
  /\ forgiven # {}
  /\ recall' = [recall EXCEPT ![h] = @ \ forgiven]
  /\ forgetting' = [forgetting EXCEPT ![h] = Silences(from, to)]
  /\ pardoned' = pardoned \cup forgiven
  /\ emptied' = IF recall[h] = forgiven THEN emptied \cup {h} ELSE emptied
  /\ UNCHANGED <<signals, rows, weighed, recording, actingVars, held, leader, slipped, cut,
                 troubles>>

(* Mutant: what was forgiven stays on record.                              *)
MutForgetSignals(h) ==
  /\ forgetting[h] # {}
  /\ forgetting' = [forgetting EXCEPT ![h] = {}]
  /\ UNCHANGED <<signals, rows, recall, weighed, recording, actingVars, held, leader, historyVars,
                 troubles>>

(* ForgetSignals, without the lock: the rows go, or the store refuses.     *)
ForgetSignals(h) ==
  /\ forgetting[h] # {}
  /\ forgetting' = [forgetting EXCEPT ![h] = {}]
  /\ \/ /\ rows' = rows \ forgetting[h]
        /\ pardoned' = pardoned \cup (forgetting[h] \cap rows)
        /\ UNCHANGED slipped
     \/ slipped = {} /\ slipped' = forgetting[h] /\ UNCHANGED <<rows, pardoned>>
  /\ UNCHANGED <<signals, recall, weighed, recording, actingVars, held, leader, cut, emptied,
                 troubles>>
-----------------------------------------------------------------------------
(* Tick, one client: the verdict on whoever anything is held against.      *)
Judge(h) ==
  /\ leader = h /\ pass[h] = Idle
  /\ recall[h] # {}
  /\ Verdict(h) # applied[h]
  /\ pass' = [pass EXCEPT ![h] = Verdict(h)]
  /\ UNCHANGED <<judgeVars, applied, held, leader, historyVars, troubles>>

(* Mutant: the client is revoked on the first verdict only.                *)
MutApply(h) ==
  /\ pass[h] \in Bands
  /\ applied' = [applied EXCEPT ![h] = pass[h]]
  /\ pass' = [pass EXCEPT ![h] = IF @ = "quarantine" /\ applied[h] = Unseen THEN Revoking ELSE Idle]
  /\ UNCHANGED <<judgeVars, held, leader, historyVars, troubles>>

(* The verdict becomes what requests are sized by, before the revocation.  *)
Apply(h) ==
  /\ pass[h] \in Bands
  /\ applied' = [applied EXCEPT ![h] = pass[h]]
  /\ pass' = [pass EXCEPT ![h] = IF @ = "quarantine" THEN Revoking ELSE Idle]
  /\ UNCHANGED <<judgeVars, held, leader, historyVars, troubles>>

Revoke(h) ==
  /\ pass[h] = Revoking
  /\ pass' = [pass EXCEPT ![h] = Idle]
  /\ held' = [held EXCEPT ![h] = FALSE]
  /\ UNCHANGED <<judgeVars, applied, leader, historyVars, troubles>>

(* Allocator.Ensure, as far as the band goes.                              *)
Ensure(h) ==
  /\ held' = [held EXCEPT ![h] = NodesFor(Band(h)) > 0]
  /\ UNCHANGED <<judgeVars, actingVars, leader, historyVars, troubles>>
-----------------------------------------------------------------------------
Older(age) == IF age = Old THEN Old ELSE age + 1

(* No call of the store and no pass takes a week.                          *)
Week ==
  /\ \A h \in Heads : recording[h] = Nobody /\ forgetting[h] = {} /\ pass[h] = Idle
  /\ signals' = [i \in Ids |-> [signals[i] EXCEPT !.age = Older(@)]]
  /\ UNCHANGED <<rows, recall, weighed, recording, forgetting, actingVars, held, leader,
                 historyVars, troubles>>

Lead(h) ==
  /\ Trouble /\ leader # h /\ leader' = h
  /\ UNCHANGED <<judgeVars, actingVars, held, historyVars>>

(* runHead: the judge starts from the record, if it can be read, which has *)
(* no weights; the allocator from books that may be behind, the enforcer   *)
(* from nothing.                                                           *)
Restart(h) ==
  /\ Trouble
  /\ leader' \in IF leader = h THEN {h, NoHead} ELSE {leader}
  /\ \E known \in {rows \cap Recent, {}} : recall' = [recall EXCEPT ![h] = known]
  /\ weighed' = [weighed EXCEPT ![h] = {}]
  /\ recording' = [recording EXCEPT ![h] = Nobody]
  /\ forgetting' = [forgetting EXCEPT ![h] = {}] /\ cut' = cut \cup forgetting[h]
  /\ applied' = [applied EXCEPT ![h] = Unseen] /\ pass' = [pass EXCEPT ![h] = Idle]
  /\ \E has \in BOOLEAN : held' = [held EXCEPT ![h] = has]
  /\ emptied' = emptied \ {h}
  /\ UNCHANGED <<signals, rows, pardoned, slipped>>
-----------------------------------------------------------------------------
Proceed(h) == Judge(h) \/ Apply(h) \/ Revoke(h) \/ Remember(h) \/ ForgetSignals(h)

Next ==
  \/ \E h \in Heads :
       \/ Proceed(h) \/ Ensure(h) \/ Lead(h) \/ Restart(h)
       \/ \E report \in Reports : Store(h, report)
       \/ \E from \in Ids : \E to \in from..Len(signals) : Forgive(h, from, to)
  \/ Week

(* The loop of the head that leads ticks, and weeks go by.                 *)
Fairness == WF_vars(Week) /\ \A h \in Heads : WF_vars(Proceed(h))

Spec == Init /\ [][Next]_vars
FairSpec == Spec /\ Fairness
-----------------------------------------------------------------------------
(* Nobody is left with a node once the pass that quarantined them is over, *)
(* whatever requests came in between the verdict, the band and the         *)
(* revocation.                                                             *)
QuarantineHoldsNothing ==
  \A h \in Heads : applied[h] = "quarantine" /\ pass[h] # Revoking => ~held[h]

(* 28 is the heaviest weight at which the largest count leaves 30 points;  *)
(* no kind weighs more than 25.                                            *)
Bearable == 28

(* One signal moves trust and does not sink it (magnitude's comment): a    *)
(* quarantine rests on two, whatever their kinds and counts, unless a      *)
(* signal carried a weight of its own above Bearable.                      *)
OneSignalNeverSinks ==
  \A h \in Heads : applied[h] = "quarantine" =>
    Len(signals) >= 2 \/ \E i \in Ids : signals[i].weight > Bearable

(* A restart neither excuses nor accuses.  What a head holds against a     *)
(* client is on record, unless the store refused the row (slipped) or an   *)
(* amnesty took it off it: one of another head, or one that came while     *)
(* this head was filing the signal (pardoned).  What an amnesty took back  *)
(* is off the record, unless the removal is under way (forgetting), was    *)
(* refused (slipped) or cut off by a restart (cut).                        *)
RecordIsTrue ==
  /\ \A h \in Heads : recall[h] \subseteq rows \cup pardoned \cup slipped
  /\ pardoned \cap rows \subseteq slipped \cup cut \cup UNION {forgetting[h] : h \in Heads}

(* When nothing more is observed a penalty ends by itself, unless the last *)
(* thing held against the client was taken back.                           *)
PenaltiesEnd == <>[](\A h \in Heads : leader = h => Band(h) = "full" \/ h \in emptied)

=============================================================================
