------------------------------ MODULE Metering ------------------------------
(***************************************************************************)
(* How a donor is charged for what a node carries.  The core counts bytes  *)
(* since it started; the supervisor carries the counts of earlier runs of  *)
(* the core and reports totals since the agent started; the head bills the *)
(* difference to the last total it saw, unless the totals started over.    *)
(*                                                                         *)
(* A Sample is two steps: what the core answers is folded in later, under  *)
(* the supervisor's mutex, and the core may be restarted in between.       *)
(* Samples wait in a queue that drops the oldest one, are lost with the    *)
(* stream, and one the handler of a broken session already has is applied  *)
(* whenever that handler comes to it.                                      *)
(*                                                                         *)
(* Uplink and downlink are one count, and so is the relay's traffic, which *)
(* the agent adds to the core's.  A byte is a unit.                        *)
(***************************************************************************)
EXTENDS Integers, Sequences

CONSTANTS
  StatsDepth,   \* statsQueueDepth, and what the stream buffers
  Nothing,      \* no reading, or no sample
  MaxTurns      \* bound on everything that is not reporting: see Turn

ASSUME MeteringAssumption ==
  /\ StatsDepth \in Nat \ {0}
  /\ MaxTurns \in Nat

VARIABLES
  boot,       \* BootID of the agent's run
  up,         \* the core runs
  counter,    \* what the core has counted since it started
  last,       \* xrayLast, probeLast: its counts as last read
  carry,      \* xrayCarry, probeCarry: those of its earlier runs
  reading,    \* the core's answer to a Sample under way
  wired,      \* the agent has a session
  queue,      \* samples for the head
  inHand,     \* the sample the handler of a broken session has
  base,       \* BootID and Last* of the node in the registry
  used,       \* UsedBytes
  period,     \* PeriodStart, in months
  stored,     \* the row the registry saved last
  unsaved,    \* the last save failed
  month,      \* the month on the calendar
  carried,    \* history: what clients had the node carry
  billed,     \* history: what was ever added to UsedBytes
  torn,       \* history: the core restarted under a Sample
  steppedBack,\* history: a sample behind the one before was handled
  forgone,    \* history: something carried can no longer be billed
  turns

nodeVars == <<boot, up, counter, last, carry, reading>>
linkVars == <<wired, queue, inHand>>
headVars == <<base, used, period, stored, unsaved>>
historyVars == <<carried, billed, torn, steppedBack, forgone>>
vars == <<nodeVars, linkVars, headVars, month, historyVars, turns>>

(* Bytes of clients and bytes of the federation's own probes.              *)
Counts == [client : Nat, probe : Nat]
Zero == [client |-> 0, probe |-> 0]
Plus(a, b) == [client |-> a.client + b.client, probe |-> a.probe + b.probe]
Total(c) == c.client + c.probe

Samples == [boot : Nat, count : Counts]
Rows == [base : Samples, used : Nat, period : Nat, billed : Nat]

ASSUME MarkerAssumption == Nothing \notin Samples /\ Nothing \notin Counts

TypeOK ==
  /\ boot \in Nat
  /\ up \in BOOLEAN
  /\ counter \in Counts /\ last \in Counts /\ carry \in Counts
  /\ reading \in Counts \cup {Nothing}
  /\ wired \in BOOLEAN
  /\ queue \in Seq(Samples) /\ Len(queue) <= StatsDepth
  /\ inHand \in Samples \cup {Nothing}
  /\ base \in Samples
  /\ used \in Nat /\ period \in Nat /\ month \in Nat
  /\ stored \in Rows
  /\ unsaved \in BOOLEAN
  /\ carried \in Nat /\ billed \in Nat
  /\ torn \in BOOLEAN /\ steppedBack \in BOOLEAN /\ forgone \in BOOLEAN
  /\ turns \in Nat

(* A node that has just joined: boot 0 is the empty BootID of its row.     *)
Init ==
  /\ boot = 1
  /\ up = FALSE
  /\ counter = Zero /\ last = Zero /\ carry = Zero
  /\ reading = Nothing
  /\ wired = FALSE
  /\ queue = <<>>
  /\ inHand = Nothing
  /\ base = [boot |-> 0, count |-> Zero]
  /\ used = 0 /\ period = 0 /\ month = 0
  /\ stored = [base |-> base, used |-> 0, period |-> 0, billed |-> 0]
  /\ unsaved = FALSE
  /\ carried = 0 /\ billed = 0
  /\ torn = FALSE /\ steppedBack = FALSE /\ forgone = FALSE
  /\ turns = MaxTurns

(* An event takes one of MaxTurns turns; reporting does not.               *)
Turn == turns > 0 /\ turns' = turns - 1

-----------------------------------------------------------------------------
(* The core and the supervisor.                                            *)

Carry(c) ==
  /\ up
  /\ counter' = Plus(counter, c)
  /\ carried' = carried + c.client
  /\ UNCHANGED <<boot, up, last, carry, reading, linkVars, headVars, month, billed, torn,
                 steppedBack, forgone>>

(* A core that goes takes along what was counted since it was last read.   *)
Unread == up /\ counter.client # last.client

(* Mutant: the last reading is carried, and kept as well.                  *)
MutRestartCore(works) ==
  /\ up' = works
  /\ counter' = Zero
  /\ carry' = Plus(carry, last)
  /\ torn' = (torn \/ reading # Nothing)
  /\ forgone' = (forgone \/ Unread)
  /\ UNCHANGED <<boot, last, reading, linkVars, headVars, month, carried, billed,
                 steppedBack>>

(* restartXray, for a config or on an operator's command.  The new core    *)
(* may not start.                                                          *)
RestartCore(works) ==
  /\ up' = works
  /\ counter' = Zero
  /\ carry' = Plus(carry, last)
  /\ last' = Zero
  /\ torn' = (torn \/ reading # Nothing)
  /\ forgone' = (forgone \/ Unread)
  /\ UNCHANGED <<boot, reading, linkVars, headVars, month, carried, billed, steppedBack>>

(* The core is parked, or dies.                                            *)
StopCore ==
  /\ up
  /\ up' = FALSE
  /\ counter' = Zero
  /\ forgone' = (forgone \/ Unread)
  /\ UNCHANGED <<boot, last, carry, reading, linkVars, headVars, month, carried, billed,
                 torn, steppedBack>>

(* The agent starts again under a new BootID, its counts at zero, and so   *)
(* does the core it brings along.                                          *)
AgentRestarts ==
  /\ boot' = boot + 1
  /\ up' = FALSE
  /\ counter' = Zero /\ last' = Zero /\ carry' = Zero
  /\ reading' = Nothing
  /\ wired' = FALSE
  /\ queue' = <<>>
  /\ forgone' = (forgone \/ billed # carried)
  /\ UNCHANGED <<inHand, headVars, month, carried, billed, torn, steppedBack>>

(* collectStats: when the queue is full, the oldest sample makes room.     *)
Collect(c) ==
  LET kept == IF Len(queue) < StatsDepth THEN queue ELSE Tail(queue) IN
    queue' = Append(kept, [boot |-> boot, count |-> c])

(* Sample asks the core.  When the core does not run, or its API does not  *)
(* answer, as just after a start, the sample has no count of the core,     *)
(* neither of this run nor carried, and is sent all the same.              *)
AskCore(answers) ==
  /\ wired
  /\ reading = Nothing
  /\ IF up /\ answers THEN reading' = counter /\ UNCHANGED queue
                      ELSE Collect(Zero) /\ UNCHANGED reading
  /\ UNCHANGED <<boot, up, counter, last, carry, wired, inHand, headVars, month,
                 historyVars>>

(* The answer is folded in.                                                *)
Fold ==
  /\ reading # Nothing
  /\ last' = reading
  /\ Collect(Plus(carry, reading))
  /\ reading' = Nothing
  /\ UNCHANGED <<boot, up, counter, carry, wired, inHand, headVars, month, historyVars>>

Connect ==
  /\ ~wired
  /\ wired' = TRUE
  /\ UNCHANGED <<nodeVars, queue, inHand, headVars, month, historyVars>>

(* The stream breaks, and the queue and a Sample under way go with it; the *)
(* handler at the head may have received a sample it has yet to apply.     *)
Break ==
  /\ wired
  /\ wired' = FALSE
  /\ queue' = <<>>
  /\ reading' = Nothing
  /\ inHand' \in {inHand} \cup (IF queue # <<>> THEN {Head(queue)} ELSE {})
  /\ UNCHANGED <<boot, up, counter, last, carry, headVars, month, historyVars>>

-----------------------------------------------------------------------------
(* The registry.                                                           *)

(* persistLocked: the whole fleet or, with an error that is logged, no row.*)
Persist(works) ==
  IF works
    THEN /\ stored' = [base |-> base', used |-> used', period |-> period', billed |-> billed']
         /\ unsaved' = FALSE
    ELSE UNCHANGED stored /\ unsaved' = TRUE

(* The totals started over: another run of the agent, or a lower total.    *)
StartedOver(s) == s.boot # base.boot \/ Total(s.count) < Total(base.count)

(* The sample is behind the last one: of an earlier run, or lower.         *)
StepsBack(s) == s.boot < base.boot \/ (s.boot = base.boot /\ StartedOver(s))

(* What a sample adds to the bill: the difference, less what the probes    *)
(* did in between.                                                         *)
Bill(s) ==
  LET gross == Total(s.count) - Total(base.count)
      probed == IF s.count.probe >= base.count.probe
                  THEN s.count.probe - base.count.probe ELSE 0
  IN IF ~StartedOver(s) /\ gross > probed THEN gross - probed ELSE 0

(* Mutant: totals that start over start the month's bill over.             *)
MutSpent(s) ==
  (IF period < month \/ StartedOver(s) THEN 0 ELSE used) + Bill(s)

(* UsedBytes after the sample, with the month rolled first if it is time.  *)
Spent(s) == (IF period < month THEN 0 ELSE used) + Bill(s)

(* Mutant: the sample that rolls the month is not billed.                  *)
MutApplySample(s, works) ==
  LET bill == IF period < month THEN 0 ELSE Bill(s) IN
    /\ used' = (IF period < month THEN 0 ELSE used) + bill
    /\ period' = month
    /\ base' = s
    /\ billed' = billed + bill
    /\ steppedBack' = (steppedBack \/ StepsBack(s))
    /\ forgone' = (forgone \/ (s.boot # base.boot /\ s.count.client > 0))
    /\ IF bill > 0 THEN Persist(works) ELSE UNCHANGED <<stored, unsaved>>

(* ApplySample.  The row is saved only when something was billed.          *)
ApplySample(s, works) ==
  /\ used' = Spent(s)
  /\ period' = month
  /\ base' = s
  /\ billed' = billed + Bill(s)
  /\ steppedBack' = (steppedBack \/ StepsBack(s))
  /\ forgone' = (forgone \/ (s.boot # base.boot /\ s.count.client > 0))
  /\ IF Bill(s) > 0 THEN Persist(works) ELSE UNCHANGED <<stored, unsaved>>

Deliver(works) ==
  /\ wired
  /\ queue # <<>>
  /\ ApplySample(Head(queue), works)
  /\ queue' = Tail(queue)
  /\ UNCHANGED <<nodeVars, wired, inHand, month, carried, torn>>

DeliverLate(works) ==
  /\ inHand # Nothing
  /\ ApplySample(inHand, works)
  /\ inHand' = Nothing
  /\ UNCHANGED <<nodeVars, wired, queue, month, carried, torn>>

(* RollPeriods, on the rotation's tick.                                    *)
RollPeriods(works) ==
  /\ period < month
  /\ period' = month
  /\ used' = 0
  /\ UNCHANGED <<nodeVars, linkVars, base, month, historyVars>>
  /\ Persist(works)

(* Any other change of any node saves this row as well.                    *)
SaveFleet(works) ==
  /\ UNCHANGED <<nodeVars, linkVars, base, used, period, month, historyVars>>
  /\ Persist(works)

(* The head starts again on the rows it saved.                             *)
HeadRestarts ==
  /\ base' = stored.base
  /\ used' = stored.used
  /\ period' = stored.period
  /\ billed' = stored.billed
  /\ unsaved' = FALSE
  /\ wired' = FALSE
  /\ queue' = <<>>
  /\ reading' = Nothing
  /\ inHand' = Nothing
  /\ forgone' = (forgone \/ (stored.base.boot # boot /\ stored.billed # billed))
  /\ UNCHANGED <<boot, up, counter, last, carry, stored, month, carried, torn, steppedBack>>

MonthTurns ==
  /\ month' = month + 1
  /\ UNCHANGED <<nodeVars, linkVars, headVars, historyVars>>

-----------------------------------------------------------------------------
Events ==
  \/ Carry([client |-> 1, probe |-> 0])
  \/ Carry([client |-> 0, probe |-> 1])
  \/ \E works \in BOOLEAN : RestartCore(works)
  \/ StopCore
  \/ AgentRestarts
  \/ AskCore(FALSE)
  \/ Break
  \/ Deliver(FALSE)
  \/ DeliverLate(FALSE)
  \/ RollPeriods(FALSE)
  \/ \E works \in BOOLEAN : SaveFleet(works)
  \/ HeadRestarts
  \/ MonthTurns

Reports == (AskCore(TRUE) \/ Fold) /\ UNCHANGED turns
Arrives == (Deliver(TRUE) \/ DeliverLate(TRUE)) /\ UNCHANGED turns
Rolls == RollPeriods(TRUE) /\ UNCHANGED turns
Dials == Connect /\ UNCHANGED turns

Next == (Events /\ Turn) \/ Reports \/ Arrives \/ Rolls \/ Dials

(* The stats ticker fires every second, Run redials, the session's handler *)
(* reads on, and the rotation ticks every ten seconds.                     *)
Fairness ==
  WF_vars(Reports) /\ WF_vars(Arrives) /\ WF_vars(Rolls) /\ WF_vars(Dials)

Spec == Init /\ [][Next]_vars /\ Fairness

-----------------------------------------------------------------------------
(* Properties.                                                             *)

(* A donor is not billed more than clients had the node carry, probes      *)
(* excluded, through lost samples, restarts of the core, of the agent and  *)
(* of the head, and saves that fail, as long as the totals of one run of   *)
(* the agent did not step back and no core restarted under a Sample        *)
(* (ApplySample, restartXray).                                             *)
NeverOverbilled == ~torn /\ ~steppedBack => billed <= carried

(* What a donor has spent this month is not refunded, by a reboot of the   *)
(* node or by a restart of the head that had saved it: "otherwise a reboot *)
(* silently refunds the traffic the donor already spent" (BootID).         *)
SpentStaysSpent == [][used' < used => period' > period \/ unsaved]_vars

(* "The head derives deltas, so a dropped sample is a gap and not lost     *)
(* traffic" (Sample): all that was carried is billed in the end, unless a  *)
(* core went before it was read, a run of the agent before it reported (or *)
(* before the report was saved), or the core is down, which hides what it  *)
(* has carried.                                                            *)
EverythingIsBilled == <>[](billed = carried \/ ~up \/ torn \/ steppedBack \/ forgone)

=============================================================================
