------------------------------- MODULE Payouts -------------------------------
(***************************************************************************)
(* How donors are paid.  The leading head closes a period into an epoch:   *)
(* what every node carried by its own count since the last close, but no   *)
(* more than clients signed for in that period.  It saves the epoch, then  *)
(* the counts it closed at, then the end of the period: three writes, and  *)
(* it may stop between any two.  It publishes the root, pays every leaf,   *)
(* and goes back over what did not make it.  The chain may do what it is   *)
(* asked and not answer, or answer and not do it.                          *)
(*                                                                         *)
(* The money for a byte is not modelled: the amount of a leaf is the bytes *)
(* it pays for, node by node.  Which nodes a period is due for is open:    *)
(* probes, receipts' addresses, trust and stakes decide it elsewhere.      *)
(***************************************************************************)
EXTENDS Integers, Sequences, FiniteSets, Merkle

CONSTANTS
  Nodes, Donors,
  Owner,        \* the donor of each node
  Wallets,      \* addresses, in the order of their bytes
  NoWallet,     \* a donor who has named none
  MayName,      \* bound on the wallets each donor names
  RetryBatch,   \* retryBatch: epochs gone back over at a time
  MaxCarried,   \* bound on the bytes a node carries
  MaxPeriods,   \* bound on the periods
  MaxEpochs,    \* bound on the epochs
  MaxFaults     \* bound on what fails without leaving things as they were

ASSUME PayoutsAssumption ==
  /\ IsFiniteSet(Nodes) /\ Owner \in [Nodes -> Donors]
  /\ MayName \in [Donors -> SUBSET Wallets]
  /\ Wallets \subseteq Nat /\ NoWallet \notin Wallets /\ NoWallet \notin Nat
  /\ RetryBatch \in Nat \ {0}
  /\ MaxCarried \in Nat /\ MaxPeriods \in Nat /\ MaxEpochs \in Nat /\ MaxFaults \in Nat

VARIABLES
  now,        \* the current period
  counter,    \* what each node has counted, as the aggregator sums it up
  signed,     \* receipts: bytes signed for, by node and period
  wallet,     \* PayoutAddressRow of each donor
  mark,       \* PayoutMarkRow: the period to close next
  epochs,     \* EpochRow and its leaves; the epoch numbered n - 1 is the n-th
  baseline,   \* NodeBaselineRow of each node
  txs,        \* PayoutTxRow: the epochs each donor is recorded as paid for
  step,       \* where the loop is
  closing,    \* the epoch it works on
  counts,     \* the counts the period was closed at
  todo,       \* the leaves it has yet to pay
  roots,      \* on chain: the roots by epoch
  claimed,    \* on chain: the payments made
  carried,    \* history: what each node ever carried
  billed,     \* history: what each node was ever paid for
  slips,      \* history: the writes of a close that were missed
  faults

dbVars == <<mark, epochs, baseline, txs>>
loopVars == <<step, closing, counts, todo>>
chainVars == <<roots, claimed>>
worldVars == <<now, counter, signed, wallet, carried>>
vars == <<worldVars, dbVars, loopVars, chainVars, billed, slips, faults>>

Never == -1
NoEpoch == 0
Steps == {"idle", "saved", "based", "marked", "paying"}

(* What an epoch says: the period, the bytes paid for, and to whom.        *)
Epochs == [period : 0..MaxPeriods, bill : [Nodes -> Nat],
           to : [Nodes -> Wallets \cup {NoWallet}], published : BOOLEAN]

(* The leaves of an epoch: one to a wallet, in the order of the wallets.   *)
LeafWallets(epoch) == {epoch.to[n] : n \in {m \in Nodes : epoch.bill[m] > 0}} \ {NoWallet}

Amount(epoch, w) ==
  [n \in {m \in Nodes : epoch.bill[m] > 0 /\ epoch.to[m] = w} |-> epoch.bill[n]]

(* Leaves are sorted by address: as many come before one as sort before.   *)
IndexOf(epoch, w) == Cardinality({v \in LeafWallets(epoch) : v < w})

Leaf(n, epoch, w) == LeafHash(n, IndexOf(epoch, w), w, Amount(epoch, w))

LeafAt(epoch, i) == CHOOSE w \in LeafWallets(epoch) : IndexOf(epoch, w) = i

Tree(n, epoch) ==
  [i \in 1..Cardinality(LeafWallets(epoch)) |-> Leaf(n, epoch, LeafAt(epoch, i - 1))]

Payment(n, epoch, w) ==
  [epoch |-> n, index |-> IndexOf(epoch, w), wallet |-> w, amount |-> Amount(epoch, w)]

BookedRoots == {Root(Tree(n, epochs[n])) : n \in 1..Len(epochs)}

TypeOK ==
  /\ now \in 0..MaxPeriods
  /\ counter \in [Nodes -> Nat] /\ signed \in [Nodes -> [0..MaxPeriods -> Nat]]
  /\ wallet \in [Donors -> Wallets \cup {NoWallet}]
  /\ mark \in (0..MaxPeriods) \cup {Never}
  /\ epochs \in Seq(Epochs)
  /\ baseline \in [Nodes -> Nat]
  /\ txs \subseteq (1..Len(epochs)) \X Donors
  /\ step \in Steps
  /\ closing \in 0..Len(epochs)
  /\ counts \in [Nodes -> Nat]
  /\ todo \subseteq Wallets
  /\ Len(roots) <= Len(epochs) /\ roots \in Seq(BookedRoots)
  /\ carried \in [Nodes -> Nat] /\ billed \in [Nodes -> Nat]
  /\ slips \subseteq {"baseline", "mark"}
  /\ faults \in Nat

NoCounts == [n \in Nodes |-> 0]

Init ==
  /\ now = 0 /\ mark = Never
  /\ counter = [n \in Nodes |-> 0] /\ signed = [n \in Nodes |-> [p \in 0..MaxPeriods |-> 0]]
  /\ wallet = [d \in Donors |-> NoWallet]
  /\ epochs = <<>> /\ baseline = [n \in Nodes |-> 0] /\ txs = {}
  /\ step = "idle" /\ closing = NoEpoch /\ counts = NoCounts /\ todo = {}
  /\ roots = <<>> /\ claimed = {}
  /\ carried = [n \in Nodes |-> 0] /\ billed = [n \in Nodes |-> 0]
  /\ slips = {} /\ faults = 0
-----------------------------------------------------------------------------
(* Mutants: the base is forgotten; receipts do not bound what is billed.   *)
MutGrownWhole(base, current) == current
MutBillable(self, receipts) == self

Grown(base, current) == IF current < base THEN current ELSE current - base
Billable(self, receipts) == IF receipts < self THEN receipts ELSE self

(* Unpublished and Unpaid, each cut to its first few.                      *)
Unpublished == {n \in 1..Len(epochs) : ~epochs[n].published}

Unpaid ==
  {n \in 1..Len(epochs) :
     /\ epochs[n].published
     /\ Cardinality(LeafWallets(epochs[n])) > Cardinality({d \in Donors : <<n, d>> \in txs})}

Batch(S) == {n \in S : Cardinality({m \in S : m < n}) < RetryBatch}

Idle == step' = "idle" /\ closing' = NoEpoch /\ todo' = {} /\ counts' = NoCounts
Fault == faults < MaxFaults /\ faults' = faults + 1
-----------------------------------------------------------------------------
(* What goes on around the loop: nodes carry and their counts arrive, a    *)
(* node is forgotten and counts from nothing, clients sign for the window  *)
(* they are in, a donor names a wallet or another one.                     *)
UnchangedLoop == UNCHANGED <<dbVars, loopVars, chainVars, billed, slips, faults>>

Carry(n) ==
  /\ carried[n] < MaxCarried /\ now < MaxPeriods
  /\ carried' = [carried EXCEPT ![n] = @ + 1]
  /\ counter' = [counter EXCEPT ![n] = @ + 1]
  /\ UNCHANGED <<now, signed, wallet>> /\ UnchangedLoop

Forget(n) ==
  /\ counter[n] > 0 /\ now < MaxPeriods /\ Fault
  /\ counter' = [counter EXCEPT ![n] = 0]
  /\ UNCHANGED <<now, signed, wallet, carried, dbVars, loopVars, chainVars, billed, slips>>

Sign(n) ==
  /\ signed[n][now] < MaxCarried /\ now < MaxPeriods
  /\ signed' = [signed EXCEPT ![n][now] = @ + 1]
  /\ UNCHANGED <<now, counter, wallet, carried>> /\ UnchangedLoop

NextPeriod ==
  /\ now < MaxPeriods
  /\ now' = now + 1
  /\ UNCHANGED <<counter, signed, wallet, carried>> /\ UnchangedLoop

(* Mutant: the donor's past leaves move to the new wallet.                 *)
MutSetWallet(d, w) ==
  /\ wallet' = [wallet EXCEPT ![d] = w]
  /\ epochs' = [n \in 1..Len(epochs) |->
                  [epochs[n] EXCEPT !.to = [m \in Nodes |-> IF Owner[m] = d THEN w ELSE @[m]]]]
  /\ UNCHANGED <<now, counter, signed, carried, mark, baseline, txs, loopVars, chainVars,
                 billed, slips, faults>>

SetWallet(d, w) ==
  /\ wallet[d] # w
  /\ wallet' = [wallet EXCEPT ![d] = w]
  /\ UNCHANGED <<now, counter, signed, carried>> /\ UnchangedLoop
-----------------------------------------------------------------------------
(* Once: the very first time only the mark is set.                         *)
FirstMark ==
  /\ step = "idle" /\ mark = Never
  /\ mark' = now
  /\ UNCHANGED <<worldVars, epochs, baseline, txs, loopVars, chainVars, billed, slips, faults>>

(* The period is over: Close reads the counts, the receipts and the        *)
(* wallets and, if anything is due, saves the epoch.                       *)
EpochFor(due) ==
  [period |-> mark,
   bill |-> [n \in Nodes |->
               IF n \in due THEN Billable(Grown(baseline[n], counter[n]), signed[n][mark]) ELSE 0],
   to |-> [n \in Nodes |-> wallet[Owner[n]]],
   published |-> FALSE]

Paying(epoch, n) == IF epoch.to[n] \in Wallets THEN epoch.bill[n] ELSE 0

Close ==
  /\ step = "idle" /\ mark # Never /\ mark < now
  /\ \E due \in SUBSET Nodes :
       LET epoch == EpochFor(due) IN
       \/ /\ LeafWallets(epoch) # {} /\ Len(epochs) < MaxEpochs
          /\ epochs' = Append(epochs, epoch)
          /\ billed' = [n \in Nodes |-> billed[n] + Paying(epoch, n)]
          /\ closing' = Len(epochs) + 1 /\ step' = "saved" /\ counts' = counter
          /\ UNCHANGED baseline
       \/ /\ LeafWallets(epoch) = {}
          /\ baseline' = counter
          /\ closing' = NoEpoch /\ step' = "based"
          /\ UNCHANGED <<epochs, billed, counts>>
  /\ UNCHANGED <<worldVars, mark, txs, todo, chainVars, slips, faults>>

SaveBaselines ==
  /\ step = "saved"
  /\ baseline' = counts /\ step' = "based" /\ counts' = NoCounts
  /\ UNCHANGED <<worldVars, mark, epochs, txs, closing, todo, chainVars, billed, slips, faults>>

(* Close returns an error and the mark is not moved either.                *)
SaveBaselinesFails ==
  /\ step = "saved" /\ Fault
  /\ Idle
  /\ slips' = slips \cup {"baseline", "mark"}
  /\ UNCHANGED <<worldVars, dbVars, chainVars, billed>>

SetPeriodEnd ==
  /\ step = "based"
  /\ mark' = mark + 1 /\ step' = "marked"
  /\ UNCHANGED <<worldVars, epochs, baseline, txs, closing, counts, todo, chainVars, billed, slips, faults>>

(* Logged, and the epoch is published all the same.                        *)
SetPeriodEndFails ==
  /\ step = "based" /\ Fault
  /\ step' = "marked"
  /\ slips' = IF closing = NoEpoch THEN slips ELSE slips \cup {"mark"}
  /\ UNCHANGED <<worldVars, dbVars, closing, counts, todo, chainVars, billed>>
-----------------------------------------------------------------------------
(* publish: of the epoch just closed, or of one that did not make it.  The *)
(* program on chain takes the roots in order, each number once.            *)
Publishing(n) ==
  \/ step = "marked" /\ closing = n
  \/ step = "idle" /\ n \in Batch(Unpublished)

Lands(n) == n = Len(roots) + 1 /\ roots' = Append(roots, Root(Tree(n, epochs[n])))

Publish(n) ==
  /\ Publishing(n) /\ Lands(n)
  /\ \/ /\ epochs' = [epochs EXCEPT ![n].published = TRUE] /\ UNCHANGED faults
     \/ UNCHANGED epochs /\ Fault       \* MarkPublished fails and is only logged
  /\ step' = "paying" /\ closing' = n /\ todo' = LeafWallets(epochs[n])
  /\ UNCHANGED <<worldVars, mark, baseline, txs, counts, claimed, billed, slips>>

(* The root lands, and waiting for that to be final ends in an error.      *)
PublishUnheard(n) ==
  /\ Publishing(n) /\ Lands(n) /\ Fault
  /\ Idle
  /\ UNCHANGED <<worldVars, dbVars, claimed, billed, slips>>

(* Mutant: the epoch is marked whether or not it was published.            *)
MutPublishFails(n) ==
  /\ step = "marked" /\ Publishing(n)
  /\ epochs' = [epochs EXCEPT ![n].published = TRUE]
  /\ Idle
  /\ UNCHANGED <<worldVars, mark, baseline, txs, chainVars, billed, slips, faults>>

PublishFails(n) ==
  /\ step = "marked" /\ Publishing(n)
  /\ Idle
  /\ UNCHANGED <<worldVars, dbVars, chainVars, billed, slips, faults>>

NothingToPublish ==
  /\ step = "marked" /\ closing = NoEpoch
  /\ Idle
  /\ UNCHANGED <<worldVars, dbVars, chainVars, billed, slips, faults>>
-----------------------------------------------------------------------------
(* PayEveryone: one claim after another, and no claim stops the rest.      *)
RetryUnpaid(n) ==
  /\ step = "idle" /\ n \in Batch(Unpaid)
  /\ step' = "paying" /\ closing' = n /\ todo' = LeafWallets(epochs[n])
  /\ UNCHANGED <<worldVars, dbVars, counts, chainVars, billed, slips, faults>>

(* The program on chain pays a leaf once, against a path to its root.      *)
CanClaim(payment) ==
  /\ payment.epoch \in 1..Len(roots)
  /\ \A p \in claimed : ~(p.epoch = payment.epoch /\ p.index = payment.index)
  /\ VerifyProof(roots[payment.epoch],
                 LeafHash(payment.epoch, payment.index, payment.wallet, payment.amount),
                 Proof(Tree(payment.epoch, epochs[payment.epoch]), payment.index))

Pays(w) ==
  LET payment == Payment(closing, epochs[closing], w) IN
  CanClaim(payment) /\ claimed' = claimed \cup {payment}

(* paidSink: the payment goes into the statement of whoever has the wallet *)
(* now; with nobody to it, or when the write fails, nowhere.               *)
Record(w) ==
  \/ \E d \in Donors : wallet[d] = w /\ txs' = txs \cup {<<closing, d>>}
  \/ (\A d \in Donors : wallet[d] # w) /\ UNCHANGED txs

Attempt(w) ==
  /\ step = "paying" /\ w \in todo /\ \A v \in todo : w <= v
  /\ todo' = todo \ {w}
  /\ UNCHANGED <<worldVars, mark, epochs, baseline, step, closing, counts, roots, billed, slips>>

Claim(w) == Attempt(w) /\ Pays(w) /\ Record(w) /\ UNCHANGED faults

(* Paid, but the answer or the record of it is lost.                       *)
ClaimUnheard(w) == Attempt(w) /\ Pays(w) /\ Fault /\ UNCHANGED txs

(* Accepted for sending, recorded, and never landed: nobody waits for it.  *)
ClaimNeverLands(w) == Attempt(w) /\ Record(w) /\ Fault /\ UNCHANGED claimed

(* No account for the token, or the chain refused: left out of this round. *)
ClaimFails(w) == Attempt(w) /\ UNCHANGED <<txs, claimed, faults>>

PaidEveryone ==
  /\ step = "paying" /\ todo = {}
  /\ Idle
  /\ UNCHANGED <<worldVars, dbVars, chainVars, billed, slips, faults>>

(* The head stops; the next one starts the loop anew.                      *)
Crash ==
  /\ step # "idle" /\ Fault
  /\ Idle
  /\ slips' = slips \cup (IF closing = NoEpoch THEN {}
                          ELSE CASE step = "saved" -> {"baseline", "mark"}
                                 [] step = "based" -> {"mark"}
                                 [] OTHER -> {})
  /\ UNCHANGED <<worldVars, dbVars, chainVars, billed>>
-----------------------------------------------------------------------------
World ==
  \/ \E n \in Nodes : Carry(n) \/ Forget(n) \/ Sign(n)
  \/ NextPeriod
  \/ \E d \in Donors : \E w \in MayName[d] : SetWallet(d, w)

Loop ==
  \/ FirstMark \/ Close \/ SaveBaselines \/ SaveBaselinesFails \/ SetPeriodEnd \/ SetPeriodEndFails
  \/ \E n \in 1..Len(epochs) : Publish(n) \/ PublishUnheard(n) \/ PublishFails(n) \/ RetryUnpaid(n)
  \/ NothingToPublish
  \/ \E w \in todo : Claim(w) \/ ClaimUnheard(w) \/ ClaimNeverLands(w) \/ ClaimFails(w)
  \/ PaidEveryone
  \/ Crash

Next == World \/ Loop

Spec == Init /\ [][Next]_vars

(* Once, begun, gets to its end: no call to the chain waits longer than    *)
(* publishTimeout.  And a chain that is asked often enough answers.        *)
Proceed ==
  \/ SaveBaselines \/ SetPeriodEnd \/ NothingToPublish \/ PaidEveryone
  \/ \E n \in 1..Len(epochs) : PublishFails(n)
  \/ \E w \in todo : ClaimFails(w)

Fairness ==
  /\ WF_vars(Proceed)
  /\ \A n \in 1..MaxEpochs : SF_vars(n <= Len(epochs) /\ Publish(n))

PaymentFairness ==
  /\ \A n \in 1..MaxEpochs : SF_vars(n <= Len(epochs) /\ RetryUnpaid(n))
  /\ \A w \in Wallets : SF_vars(w \in todo /\ Claim(w))

FairSpec == Spec /\ Fairness
PayingSpec == FairSpec /\ PaymentFairness
-----------------------------------------------------------------------------
(* A donor is not paid for more than the node carried, whatever else went  *)
(* wrong, as long as no close stopped between its epoch and its baselines. *)
PaidWithinCounter ==
  "baseline" \notin slips => \A n \in Nodes : billed[n] <= carried[n]

(* A period is closed into one epoch, for no more than clients signed for, *)
(* as long as no close stopped before it moved the mark.                   *)
PeriodsPaidOnce ==
  "mark" \notin slips =>
    /\ \A i, j \in 1..Len(epochs) : epochs[i].period = epochs[j].period => i = j
    /\ \A i \in 1..Len(epochs) : \A n \in Nodes :
         epochs[i].bill[n] <= signed[n][epochs[i].period]

(* What is on chain is what the book says, rebuilt from its rows at any    *)
(* later time.                                                             *)
ChainHoldsTheBook == \A n \in 1..Len(roots) : roots[n] = Root(Tree(n, epochs[n]))

(* Every leaf of an epoch on chain can prove itself to the program, in     *)
(* trees with odd ends at any level too.                                   *)
EveryLeafProves ==
  /\ TreesProve
  /\ \A n \in 1..Len(roots) : \A w \in LeafWallets(epochs[n]) :
       VerifyProof(roots[n], Leaf(n, epochs[n], w), Proof(Tree(n, epochs[n]), IndexOf(epochs[n], w)))

(* What the federation promises its donors.                                *)
Leaves(epoch) == {[wallet |-> w, amount |-> Amount(epoch, w)] : w \in LeafWallets(epoch)}

Book == [n \in 1..Len(epochs) |-> Leaves(epochs[n])]

PaidOut == {[epoch |-> p.epoch, wallet |-> p.wallet, amount |-> p.amount] : p \in claimed}

Promise == INSTANCE Settlement WITH booked <- Book, rooted <- Len(roots), paid <- PaidOut

KeepsThePromise == Promise!Spec

(* An epoch that was saved gets its root on chain, whatever failed on the  *)
(* way, with fewer failures than epochs gone back over at a time.          *)
SavedReachesTheChain ==
  \A n \in 1..MaxEpochs : (Len(epochs) >= n) ~> (Len(roots) >= n)

(* Unpaid is there so that no donor is left with a root on chain and an    *)
(* empty wallet.                                                           *)
Settled(n) ==
  /\ n <= Len(epochs)
  /\ \A w \in LeafWallets(epochs[n]) : \E p \in claimed : p.epoch = n /\ p.wallet = w

RootOnChainIsPaid == \A n \in 1..MaxEpochs : (Len(roots) >= n) ~> Settled(n)
=============================================================================
