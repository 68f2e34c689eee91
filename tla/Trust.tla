-------------------------------- MODULE Trust --------------------------------
(* What the head believes of a node, and what that does to its money: the  *)
(* hourly audit of what the node counted against what clients signed, the  *)
(* watch for nodes that carry traffic and report nothing of it, and the    *)
(* judge whose verdict scales the node's payout.                           *)
(*                                                                         *)
(* Every loop takes the nodes one by one; of the others, a node's audit    *)
(* only asks whether anybody signed for them.  Time goes by in hours, and  *)
(* by the week for the judge's half-life; all that happens in an hour      *)
(* happens at once.  Byte counts are in a unit of the model's own.  Who    *)
(* signed a receipt is left out, so a node that serves its own donor may   *)
(* be any that has enough of them.                                         *)
(***************************************************************************)
EXTENDS Integers, FiniteSetsExt

CONSTANTS
  Unknown,      \* no entry in a map
  Window,       \* auditWindow, in hours
  MinAudit,     \* minAuditBytes
  BlindBytes,   \* blindMinBytes
  SelfDealBytes,\* selfDealMinBytes
  Excess,       \* what self-dealing may weigh, in tenths
  Loads,        \* what the node may carry at once
  MaxBytes,     \* bound on what is carried
  MaxHours,     \* bound on the hours
  MaxFaults     \* bound on restarts, lost counts, skipped rounds, open relays

(* What a ratio may weigh.                                                 *)
Tenths == {10, 13, 16, 20, 25}

ASSUME TrustAssumption ==
  /\ Unknown \notin Int
  /\ {Window, MinAudit, BlindBytes, SelfDealBytes} \subseteq Nat \ {0}
  /\ {MaxBytes, MaxHours, MaxFaults} \subseteq Nat
  /\ Excess \subseteq Tenths
  /\ Loads \subseteq Nat \ {0}

VARIABLES
  total,        \* NodeTraffic: what the node counted, as the aggregator has it
  receipts,     \* those stored: bytes by the hour they end in, 1 the current
  unsigned,     \* what was carried and has no receipt yet
  seen,         \* Auditor: the total of its last round, and
  lastSigned,   \*   the signed bytes of its last round
  due,          \*   its ticker has fired
  base,         \* WatchAudit.bytes
  quiet,        \* WatchAudit.lastSeen, in hours since: 0, or 1 and more
  accused,      \* WatchAudit.accused: within the hour
  rebase,       \* WatchAudit.rebase
  unlocked,     \* WatchAudit.accused of the relay: within the hour
  claims,       \* the judge's claims: a bag, their order is nothing to it
  left,         \* what the bounds leave
  since,        \* history: carried and signed since the auditor's last round
  fell,         \* history: the total fell since
  slid,         \* history: receipts left the window since
  unheard       \* history: carried since the last batch of domains

auditor == <<seen, lastSigned>>
watch == <<base, quiet, accused, rebase, unlocked>>
world == <<total, receipts, unsigned>>
histories == <<since, fell, slid, unheard>>
trustVars == <<world, auditor, due, watch, claims, left, histories>>

(* What a charge costs while it is fresh.                                  *)
Weight == [overclaim |-> 30, self_dealing |-> 18, blind_watch |-> 25,
           unmanaged_relay |-> 30]

(* In half-lives: a claim older than 30 days is dropped when the next one  *)
(* comes; ages stop there, where a thirty-second of the cost is left.      *)
Retained == 4
MaxAge == 5

Claims == [reason : DOMAIN Weight, tenths : Tenths, age : 0..MaxAge]

TrustTypeOK ==
  /\ total \in Nat
  /\ receipts \in [1..Window -> Nat]
  /\ unsigned \in Nat
  /\ seen \in Nat \cup {Unknown} /\ lastSigned \in Nat
  /\ due \in BOOLEAN
  /\ base \in Nat \cup {Unknown}
  /\ quiet \in {0, 1, Unknown}
  /\ {accused, unlocked, rebase} \subseteq BOOLEAN
  /\ DOMAIN claims \subseteq Claims /\ claims \in [DOMAIN claims -> Nat \ {0}]
  /\ left \in [bytes : 0..MaxBytes, hours : 0..MaxHours, faults : 0..MaxFaults]
  /\ since \in [carried : Nat, signed : Nat]
  /\ fell \in BOOLEAN /\ slid \in BOOLEAN
  /\ unheard \in Nat

NoClaims == [c \in {} |-> 0]
Nothing == [carried |-> 0, signed |-> 0]

TrustInit ==
  /\ total = 0 /\ unsigned = 0
  /\ receipts = [h \in 1..Window |-> 0]
  /\ seen = Unknown /\ lastSigned = 0
  /\ due = TRUE
  /\ base = Unknown /\ quiet = Unknown
  /\ accused = FALSE /\ unlocked = FALSE /\ rebase = FALSE
  /\ claims = NoClaims
  /\ left = [bytes |-> MaxBytes, hours |-> MaxHours, faults |-> MaxFaults]
  /\ since = Nothing
  /\ fell = FALSE /\ slid = FALSE
  /\ unheard = 0

Fault == left.faults > 0 /\ left' = [left EXCEPT !.faults = @ - 1]

-----------------------------------------------------------------------------
(* The world: traffic, receipts, time.                                     *)

(* A sample reaches the aggregator.                                        *)
Carry(b) ==
  /\ b <= left.bytes
  /\ left' = [left EXCEPT !.bytes = @ - b]
  /\ total' = total + b
  /\ unsigned' = unsigned + b
  /\ since' = [since EXCEPT !.carried = @ + b]
  /\ unheard' = unheard + b
  /\ UNCHANGED <<receipts, auditor, due, watch, claims, fell, slid>>

(* A receipt is stored, of a window that ended within the audit's.         *)
Sign(b, h) ==
  /\ b <= unsigned
  /\ unsigned' = unsigned - b
  /\ receipts' = [receipts EXCEPT ![h] = @ + b]
  /\ since' = [since EXCEPT !.signed = @ + b]
  /\ UNCHANGED <<total, auditor, due, watch, claims, left, fell, slid, unheard>>

(* The aggregator starts again from what the replicas last shared, which   *)
(* may be behind what it had.                                              *)
Forget(b) ==
  /\ b <= total
  /\ Fault
  /\ total' = total - b
  /\ fell' = TRUE
  /\ UNCHANGED <<receipts, unsigned, auditor, due, watch, claims, since, slid, unheard>>

(* An hour goes by: the receipts of the window's first hour leave it.      *)
Hour ==
  /\ ~due
  /\ left.hours > 0
  /\ left' = [left EXCEPT !.hours = @ - 1]
  /\ receipts' = [h \in 1..Window |-> IF h = 1 THEN 0 ELSE receipts[h - 1]]
  /\ slid' = (slid \/ receipts[Window] > 0)
  /\ quiet' = IF quiet = Unknown THEN Unknown ELSE 1
  /\ accused' = FALSE /\ unlocked' = FALSE
  /\ due' = TRUE
  /\ UNCHANGED <<total, unsigned, auditor, base, rebase, claims, since, fell, unheard>>

(* How many such claims there are among those known.                       *)
Count(c, known) == IF c \in DOMAIN known THEN known[c] ELSE 0

Aged(c) == [c EXCEPT !.age = IF @ = MaxAge THEN @ ELSE @ + 1]

(* Weeks go by for the judge after the last hour, in which nothing is      *)
(* carried, signed or audited.                                             *)
HalfLife ==
  /\ ~due
  /\ left.hours = 0
  /\ \E c \in DOMAIN claims : c.age < MaxAge
  /\ claims' = [c \in {Aged(d) : d \in DOMAIN claims} |->
                 Count([c EXCEPT !.age = @ - 1], claims)
                 + IF c.age = MaxAge THEN Count(c, claims) ELSE 0]
  /\ left' = [bytes |-> 0, hours |-> 0, faults |-> 0]
  /\ receipts' = [h \in 1..Window |-> 0]
  /\ unsigned' = 0
  /\ UNCHANGED <<total, auditor, due, watch, histories>>

-----------------------------------------------------------------------------
(* Judge.                                                                  *)

Fresh(reason, tenths) == [reason |-> reason, tenths |-> tenths, age |-> 0]

(* Observe: what is too old goes when a new claim comes.                   *)
Observe(known, reason, tenths) ==
  [c \in {d \in DOMAIN known : d.age <= Retained} \cup {Fresh(reason, tenths)} |->
     Count(c, known) + IF c = Fresh(reason, tenths) THEN 1 ELSE 0]

(* Mutant: a claim weighs the same for ever.                               *)
MutClaimCost(c) == Weight[c.reason] * c.tenths * 2^MaxAge

(* What a claim still costs, in fractions of a point of trust.             *)
ClaimCost(c) == Weight[c.reason] * c.tenths * 2^(MaxAge - c.age)

TrustPenalty ==
  MapThenSumSet(LAMBDA c : claims[c] * ClaimCost(c), DOMAIN claims) \div (10 * 2^MaxAge)

TrustOf == IF TrustPenalty > 100 THEN 0 ELSE 100 - TrustPenalty

(* PayoutFactor, as FactorBps has it.                                      *)
FactorBps ==
  IF TrustOf >= 60 THEN 10000
  ELSE IF TrustOf >= 30 THEN ((TrustOf - 30) * 10000) \div 30
  ELSE 0

-----------------------------------------------------------------------------
(* Auditor.                                                                *)

(* SignedByNode, over the window that ends now.                            *)
SumOver(bytes) ==
  LET sum[h \in 0..Window] == IF h = 0 THEN 0 ELSE sum[h - 1] + bytes[h]
  IN  sum[Window]

Signed == SumOver(receipts)

(* Mutant: a node met for the first time is asked about its whole total.   *)
MutClaimed == IF seen = Unknown THEN total
              ELSE IF total < seen THEN 0 ELSE total - seen

(* What it counted since the last round; nothing if there was none, or if  *)
(* the count started over.                                                 *)
Claimed == IF seen = Unknown \/ total < seen THEN 0 ELSE total - seen

(* Mutant: all of the window's receipts speak for it.                      *)
MutConfirmed == Signed

(* By how much the window's receipts grew since the last round.            *)
Confirmed == IF Signed > lastSigned THEN Signed - lastSigned ELSE 0

(* Mutant: the excess is not saturated.                                    *)
MutRatioMagnitude(a, b) == (10 * a) \div b

(* magnitude, of a ratio a / b.                                            *)
RatioMagnitude(a, b) ==
  CASE a <= b -> 10 [] b < a /\ a <= 3 * b -> 13 [] 3 * b < a /\ a <= 8 * b -> 16
    [] 8 * b < a /\ a <= 20 * b -> 20 [] OTHER -> 25

(* No receipt speaks for the claim though clients do sign (others: for     *)
(* other nodes), or it is more than 1.35 times what was signed.            *)
Overclaims(others) ==
  /\ Claimed >= MinAudit
  /\ IF Confirmed = 0 THEN others \/ Signed > 0 ELSE 20 * Claimed > 27 * Confirmed

Severity == IF Confirmed = 0 THEN 10 ELSE RatioMagnitude(20 * Claimed, 27 * Confirmed)

(* JudgeSelfDealing: most of the receipts may be of two clients, or of     *)
(* those whom the donor invited.                                           *)
JudgeSelfDealing(known) ==
  {known} \cup {Observe(known, "self_dealing", e) :
               e \in {x \in Excess : Signed >= SelfDealBytes}}

(* Once, and JudgeSelfDealing after it.                                    *)
AuditRound(others) ==
  /\ due
  /\ due' = FALSE
  /\ claims' \in JudgeSelfDealing(
       IF Overclaims(others) THEN Observe(claims, "overclaim", Severity) ELSE claims)
  /\ seen' = total /\ lastSigned' = Signed
  /\ since' = Nothing
  /\ fell' = FALSE /\ slid' = FALSE
  /\ UNCHANGED <<world, watch, left, unheard>>

(* Another replica leads, or the totals or the receipts are unreadable.    *)
AuditSkipped ==
  /\ due
  /\ Fault
  /\ due' = FALSE
  /\ UNCHANGED <<world, auditor, watch, claims, histories>>

-----------------------------------------------------------------------------
(* WatchAudit.                                                             *)

(* A batch of domains arrives: the next sweep takes the base again.        *)
ObserveDomains ==
  /\ quiet' = 0
  /\ rebase' = TRUE
  /\ unheard' = 0
  /\ UNCHANGED <<world, auditor, due, base, accused, unlocked, claims, left, since, fell, slid>>

(* A node that reported, one met for the first time, and one whose count   *)
(* fell get a new base.                                                    *)
Rebases == rebase \/ quiet = Unknown \/ total < base

Blind ==
  /\ ~Rebases
  /\ total - base >= BlindBytes
  /\ quiet = 1
  /\ ~accused

(* Sweep.                                                                  *)
Sweep ==
  /\ base' = IF Rebases THEN total ELSE base
  /\ quiet' = IF quiet = Unknown THEN 0 ELSE quiet
  /\ rebase' = FALSE
  /\ accused' = (accused \/ Blind)
  /\ claims' = IF Blind THEN Observe(claims, "blind_watch", 10) ELSE claims
  /\ UNCHANGED <<world, auditor, due, unlocked, left, histories>>

(* The relay says that it is not locked to its own WireGuard.              *)
ObserveRelayMode ==
  /\ ~unlocked
  /\ Fault
  /\ unlocked' = TRUE
  /\ claims' = Observe(claims, "unmanaged_relay", 10)
  /\ UNCHANGED <<world, auditor, due, base, quiet, accused, rebase, histories>>

-----------------------------------------------------------------------------
(* The head starts again, or another one leads with a memory of its own:   *)
(* auditor, watch and judge keep nothing.                                  *)
HeadRestarts ==
  /\ Fault
  /\ seen' = Unknown /\ lastSigned' = 0
  /\ base' = Unknown /\ quiet' = Unknown
  /\ accused' = FALSE /\ unlocked' = FALSE /\ rebase' = FALSE
  /\ claims' = NoClaims
  /\ since' = Nothing
  /\ fell' = FALSE /\ slid' = FALSE
  /\ unheard' = 0
  /\ UNCHANGED <<world, due>>

TrustNext ==
  \/ \E b \in Loads : Carry(b) \/ Forget(b) \/ \E h \in 1..Window : Sign(b, h)
  \/ Hour
  \/ HalfLife
  \/ \E others \in BOOLEAN : AuditRound(others)
  \/ AuditSkipped
  \/ ObserveDomains
  \/ Sweep
  \/ ObserveRelayMode
  \/ HeadRestarts

TrustSpec == TrustInit /\ [][TrustNext]_trustVars

(* Time passes, and the ticker of Run brings the rounds.                   *)
FairTrustSpec ==
  /\ TrustSpec
  /\ WF_trustVars(Hour) /\ WF_trustVars(HalfLife)
  /\ WF_trustVars(\E others \in BOOLEAN : AuditRound(others))

-----------------------------------------------------------------------------
(* Properties.                                                             *)

Charged(reason) ==
  \E tenths \in Tenths :
    Count(Fresh(reason, tenths), claims) < Count(Fresh(reason, tenths), claims')

(* Nobody is charged for what the head itself forgot, restarted over or    *)
(* did not look at: a charge of overclaiming is for bytes carried since    *)
(* the auditor's last round, beyond tolerance of what was signed since,    *)
(* unless receipts left the window meanwhile; one of blindness for bytes   *)
(* carried since the node's last batch (Once, Sweep).                      *)
ChargesAreEarned ==
  [][/\ Charged("overclaim") =>
          /\ since.carried >= MinAudit
          /\ 20 * since.carried > 27 * since.signed \/ slid
     /\ Charged("blind_watch") => unheard >= BlindBytes]_trustVars

(* A node that counted more than clients signed is charged in the next     *)
(* round, whatever was signed before, if its count did not fall and there  *)
(* are receipts to compare with (Once).                                    *)
LiarsAreCaught ==
  [][/\ AuditRound(TRUE)
     /\ seen # Unknown /\ ~fell
     /\ since.carried >= MinAudit /\ 20 * since.carried > 27 * since.signed
     => Charged("overclaim")]_trustVars

(* A node that is charged no more is paid in full again: "a node could     *)
(* have been repaired, and there is no reason to carry an old sin for      *)
(* ever" (Judge, halfLife).                                                *)
TrustReturns == <>[](FactorBps = 10000)

=============================================================================
