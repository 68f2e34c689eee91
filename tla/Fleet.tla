-------------------------------- MODULE Fleet --------------------------------
(***************************************************************************)
(* Who is in the fleet and in which rotation state.  A donor's installer   *)
(* redeems a token and joins; the registry keeps the nodes in memory and   *)
(* writes all of them out after each change; every ten seconds the rotator *)
(* compares the state of each node with what it spent and how it reports;  *)
(* the operator sets states by hand.  The head may die at any step.        *)
(*                                                                         *)
(* One head and its database: Leadership and Failover are about several.   *)
(* Fingerprints are machines, ids are numbers in order of enrolment; the   *)
(* marks a node gets from heartbeats and probes are one value per node.    *)
(***************************************************************************)
EXTENDS Integers, FiniteSets

CONSTANTS
  Machines, Tokens, NoToken, Absent, Nothing,
  Calls,       \* Join handlers that may run at once
  Uses,        \* how many joins a token is minted for
  Pledges,     \* monthly budgets
  Amounts,     \* what a sample bills
  MaxNodes,    \* bound on enrolments
  MaxUsed,     \* bound on what a node carries in a month
  MaxMonth,    \* bound on months
  MaxTroubles  \* bound on refused writes and restarts

Ids == 1..MaxNodes
States == {"ACTIVE", "DRAINING", "PARKED", "QUARANTINED"}
Marks == {"silent", "poor", "good"}
Node == [machine : Machines, state : States, used : 0..MaxUsed, pledge : Pledges, period : 1..MaxMonth]

ASSUME FleetAssumption ==
  /\ IsFiniteSet(Calls)
  /\ NoToken \notin Tokens
  /\ Absent \notin Node
  /\ Nothing \notin [id : Ids, state : States]
  /\ Uses \subseteq Nat \ {0} /\ Pledges \subseteq Nat /\ Amounts \subseteq Nat
  /\ MaxNodes \in Nat /\ MaxUsed \in Nat /\ MaxMonth \in Nat \ {0} /\ MaxTroubles \in Nat

VARIABLES
  minted,    \* what each token was minted for, 0 before it is
  left,      \* EnrollToken.Remaining
  joining,   \* the token each Join under way has redeemed
  nodes,     \* Registry.nodes
  disk,      \* the rows of the registry's store
  marks,     \* how each node reports: not at all, badly, well
  month,
  todo,      \* nodes the rotator's pass has yet to look at
  verdict,   \* what the pass has decided and not yet set
  by,        \* history: the token each node joined with
  gone,      \* history: nodes removed, or replaced by a later enrolment
  barred,    \* history: nodes the operator quarantined and has not let back
  slipped,   \* history: nodes whose row the store refused, or whose
             \* quarantine came when the pass had decided already
  troubles

tokenVars == <<minted, left>>
passVars == <<todo, verdict>>
vars == <<tokenVars, joining, nodes, disk, marks, month, passVars, by, gone, barred, slipped, troubles>>

TheFleet == {id \in Ids : nodes[id] # Absent}
Enrolled == {id \in Ids : by[id] # NoToken}

TypeOK ==
  /\ minted \in [Tokens -> Nat] /\ left \in [Tokens -> Nat]
  /\ joining \in [Calls -> Tokens \cup {NoToken}]
  /\ nodes \in [Ids -> Node \cup {Absent}] /\ disk \in [Ids -> Node \cup {Absent}]
  /\ marks \in [Ids -> Marks]
  /\ month \in 1..MaxMonth
  /\ todo \subseteq Ids /\ verdict \in [id : Ids, state : States] \cup {Nothing}
  /\ by \in [Ids -> Tokens \cup {NoToken}]
  /\ gone \subseteq Ids /\ barred \subseteq Ids /\ slipped \subseteq Ids
  /\ troubles \in 0..MaxTroubles

Init ==
  /\ minted = [t \in Tokens |-> 0] /\ left = [t \in Tokens |-> 0]
  /\ joining = [c \in Calls |-> NoToken]
  /\ nodes = [id \in Ids |-> Absent] /\ disk = [id \in Ids |-> Absent]
  /\ marks = [id \in Ids |-> "silent"]
  /\ month = 1
  /\ todo = {} /\ verdict = Nothing
  /\ by = [id \in Ids |-> NoToken]
  /\ gone = {} /\ barred = {} /\ slipped = {}
  /\ troubles = 0
-----------------------------------------------------------------------------
Trouble == troubles < MaxTroubles /\ troubles' = troubles + 1

(* persistLocked: the whole fleet replaces what is stored; a refusal is    *)
(* logged and nothing else.                                                *)
Persist(fleet, overtaken) ==
  /\ nodes' = fleet
  /\ \/ disk' = fleet /\ slipped' = slipped \cup overtaken /\ UNCHANGED troubles
     \/ /\ Trouble /\ UNCHANGED disk
        /\ slipped' = slipped \cup overtaken \cup {id \in Ids : fleet[id] # disk[id]}

(* MintFor.                                                                *)
Mint(t, uses) ==
  /\ minted[t] = 0
  /\ minted' = [minted EXCEPT ![t] = uses] /\ left' = [left EXCEPT ![t] = uses]
  /\ UNCHANGED <<joining, nodes, disk, marks, month, passVars, by, gone, barred, slipped, troubles>>

(* Mutant: a token is looked up and not written off.                       *)
MutTakeNothing(t) ==
  /\ left[t] > 0
  /\ UNCHANGED left

(* Take: one conditional update; what has expired is not taken.            *)
Take(t) ==
  /\ left[t] > 0
  /\ left' = [left EXCEPT ![t] = @ - 1]

(* Join, first half.                                                       *)
Redeem(c, t) ==
  /\ joining[c] = NoToken
  /\ Take(t)
  /\ joining' = [joining EXCEPT ![c] = t]
  /\ UNCHANGED <<minted, nodes, disk, marks, month, passVars, by, gone, barred, slipped, troubles>>

(* The use is written off and the row cannot be read: the join is refused. *)
RedeemUnread(t) ==
  /\ Trouble /\ Take(t)
  /\ UNCHANGED <<minted, joining, nodes, disk, marks, month, passVars, by, gone, barred, slipped>>

(* Earlier enrolments of the same machine.                                 *)
Replaced(m) == {id \in TheFleet : nodes[id].machine = m}

(* Mutant: earlier enrolments stay.                                        *)
MutAdd(id, node) == [nodes EXCEPT ![id] = node]

(* Registry.Add.                                                           *)
Add(id, node) ==
  [k \in Ids |-> IF k = id THEN node ELSE IF k \in Replaced(node.machine) THEN Absent ELSE nodes[k]]

Joined(m, pledge) ==
  [machine |-> m, state |-> "PARKED", used |-> 0, pledge |-> pledge, period |-> month]

(* Join, second half, and the answer.                                      *)
Enrol(c, m, pledge, id) ==
  /\ joining[c] # NoToken
  /\ by[id] = NoToken /\ \A earlier \in 1..(id - 1) : by[earlier] # NoToken
  /\ Persist(Add(id, Joined(m, pledge)), {})
  /\ by' = [by EXCEPT ![id] = joining[c]]
  /\ gone' = gone \cup Replaced(m)
  /\ joining' = [joining EXCEPT ![c] = NoToken]
  /\ marks' = [k \in Ids |-> IF k \in Replaced(m) THEN "silent" ELSE marks[k]]
  /\ UNCHANGED <<tokenVars, month, passVars, barred>>

(* RemoveNode, as far as the registry goes: the donor takes it back.       *)
Remove(id) ==
  /\ id \in TheFleet
  /\ Persist([nodes EXCEPT ![id] = Absent], {})
  /\ gone' = gone \cup {id}
  /\ marks' = [marks EXCEPT ![id] = "silent"]
  /\ UNCHANGED <<tokenVars, joining, month, passVars, by, barred>>
-----------------------------------------------------------------------------
(* Mutant: the comparison of the months is the wrong way round.            *)
MutRolled(node) == IF node.period <= month THEN node ELSE [node EXCEPT !.period = month, !.used = 0]

(* rollPeriodLocked.  The first call only anchors the month: nothing is    *)
(* spent before it, so the month of the Join does as well.                 *)
Rolled(node) == IF node.period = month THEN node ELSE [node EXCEPT !.period = month, !.used = 0]

(* ApplyHeartbeat and ApplyProbeReport, or fifteen seconds without either. *)
Report(id, mark) ==
  /\ id \in TheFleet
  /\ marks[id] # mark /\ marks' = [marks EXCEPT ![id] = mark]
  /\ UNCHANGED <<tokenVars, joining, nodes, disk, month, passVars, by, gone, barred, slipped, troubles>>

(* ApplySample: only what is billed is written out.                        *)
ApplySample(id, billed) ==
  LET node == Rolled(nodes[id]) IN
  /\ id \in TheFleet
  /\ node.used + billed <= MaxUsed
  /\ marks' \in {[marks EXCEPT ![id] = mark] : mark \in IF marks[id] = "silent" THEN {"poor", "good"} ELSE {marks[id]}}
  /\ IF billed > 0
     THEN Persist([nodes EXCEPT ![id] = [node EXCEPT !.used = @ + billed]], {})
     ELSE nodes' = [nodes EXCEPT ![id] = node] /\ UNCHANGED <<disk, slipped, troubles>>
  /\ UNCHANGED <<tokenVars, joining, month, passVars, by, gone, barred>>

SetBudget(id, pledge) ==
  /\ id \in TheFleet
  /\ pledge # 0 /\ nodes[id].pledge # pledge
  /\ Persist([nodes EXCEPT ![id].pledge = pledge], {})
  /\ UNCHANGED <<tokenVars, joining, marks, month, passVars, by, gone, barred>>

(* SetNodeState: the operator's word, with whatever the rotator is doing.  *)
SetNodeState(id, state) ==
  /\ id \in TheFleet
  /\ nodes[id].state # state
  /\ Persist([nodes EXCEPT ![id].state = state],
             IF state = "QUARANTINED" /\ verdict # Nothing /\ verdict.id = id THEN {id} ELSE {})
  /\ barred' = IF state = "QUARANTINED" THEN barred \cup {id} ELSE barred \ {id}
  /\ UNCHANGED <<tokenVars, joining, marks, month, passVars, by, gone>>
-----------------------------------------------------------------------------
(* BudgetUsedFraction: no pledge is never spent.                           *)
SpentAtLeast(node, percent) == node.pledge # 0 /\ 100 * node.used >= percent * node.pledge

(* Mutant: quarantine is a state like the others.                          *)
MutNextState(node, mark) ==
  IF mark = "silent" \/ SpentAtLeast(node, 97) THEN "PARKED"
  ELSE IF SpentAtLeast(node, 85) \/ mark = "poor" THEN "DRAINING"
  ELSE "ACTIVE"

NextState(node, mark) ==
  IF node.state = "QUARANTINED" THEN "QUARANTINED"
  ELSE IF mark = "silent" \/ SpentAtLeast(node, 97) THEN "PARKED"
  ELSE IF SpentAtLeast(node, 85) \/ mark = "poor" THEN "DRAINING"
  ELSE "ACTIVE"

Turned == {id \in TheFleet : nodes[id].period # month}

(* Tick: RollPeriods, and the list of the nodes.                           *)
StartTick ==
  LET rolled == [id \in Ids |-> IF id \in TheFleet THEN Rolled(nodes[id]) ELSE Absent] IN
  /\ todo = {} /\ verdict = Nothing
  /\ todo' = TheFleet
  /\ IF Turned # {} THEN Persist(rolled, {})
     ELSE nodes' = rolled /\ UNCHANGED <<disk, slipped, troubles>>
  /\ UNCHANGED <<tokenVars, joining, marks, month, verdict, by, gone, barred>>

(* Tick, one node: ScoreNode and NextState, without the mutex.             *)
Consider(id) ==
  /\ id \in todo /\ verdict = Nothing
  /\ todo' = todo \ {id}
  /\ IF id \in TheFleet /\ NextState(nodes[id], marks[id]) # nodes[id].state
     THEN verdict' = [id |-> id, state |-> NextState(nodes[id], marks[id])]
     ELSE UNCHANGED verdict
  /\ UNCHANGED <<tokenVars, joining, nodes, disk, marks, month, by, gone, barred, slipped, troubles>>

(* Tick, one node: SetState; a node that has gone meanwhile is skipped.    *)
Decide ==
  /\ verdict # Nothing
  /\ verdict' = Nothing
  /\ IF verdict.id \in TheFleet
     THEN Persist([nodes EXCEPT ![verdict.id].state = verdict.state], {})
     ELSE UNCHANGED <<nodes, disk, slipped, troubles>>
  /\ UNCHANGED <<tokenVars, joining, marks, month, todo, by, gone, barred>>

MonthTurns ==
  /\ month < MaxMonth /\ month' = month + 1
  /\ UNCHANGED <<tokenVars, joining, nodes, disk, marks, passVars, by, gone, barred, slipped, troubles>>

(* registry.Open: the rows, and nothing heard from anybody.                *)
Restart ==
  /\ Trouble
  /\ nodes' = disk
  /\ marks' = [id \in Ids |-> "silent"]
  /\ joining' = [c \in Calls |-> NoToken]
  /\ todo' = {} /\ verdict' = Nothing
  /\ UNCHANGED <<tokenVars, disk, month, by, gone, barred, slipped>>
-----------------------------------------------------------------------------
Tick == StartTick \/ Decide \/ \E id \in Ids : Consider(id)

Donors ==
  \/ \E t \in Tokens : \/ RedeemUnread(t)
                       \/ \E uses \in Uses : Mint(t, uses)
                       \/ \E c \in Calls : Redeem(c, t)
  \/ \E id \in Ids : \/ Remove(id)
                     \/ \E pledge \in Pledges : SetBudget(id, pledge)
                     \/ \E c \in Calls, m \in Machines, pledge \in Pledges : Enrol(c, m, pledge, id)

Reports ==
  \E id \in Ids : \/ \E mark \in Marks : Report(id, mark)
                  \/ \E billed \in Amounts : ApplySample(id, billed)

Operator == \E id \in Ids, state \in States : SetNodeState(id, state)

Next == Tick \/ Donors \/ Reports \/ Operator \/ MonthTurns \/ Restart

Spec == Init /\ [][Next]_vars

(* The rotator's ticker.                                                   *)
FairSpec == Spec /\ WF_vars(Tick)
-----------------------------------------------------------------------------
(* A token good for n joins brings in n nodes at most, counting those that *)
(* are on their way, whatever fails in between.                            *)
EnrolmentsWithinUses ==
  \A t \in Tokens :
    Cardinality({id \in Ids : by[id] = t}) + Cardinality({c \in Calls : joining[c] = t})
      + left[t] <= minted[t]

(* store.go: a restart must not de-enrol the fleet.  Whoever was answered  *)
(* is in it until removed or replaced, and not after, but for nodes whose  *)
(* row the store refused.                                                  *)
RosterIsTrue == \A id \in Enrolled \ slipped : id \in TheFleet <=> id \notin gone

(* score.go: quarantine is never left by arithmetic, nor by a restart; the *)
(* exceptions are refused rows and the pass that had read the node before. *)
QuarantineHolds == \A id \in (barred \cap TheFleet) \ slipped : nodes[id].state = "QUARANTINED"

(* Spent in this month, of the pledge as it is now.                        *)
SpentNow(id, percent) == nodes[id].period = month /\ SpentAtLeast(nodes[id], percent)

Free(id) == id \in TheFleet /\ nodes[id].state # "QUARANTINED"

(* rotation.go: a node that reports well and is within its pledge comes    *)
(* back by itself, after its month has turned too, and one that has spent  *)
(* it, or is not heard of, leaves.                                         *)
RotationFollows ==
  \A id \in Ids :
    /\ <>[](Free(id) /\ marks[id] = "good" /\ ~SpentNow(id, 85)) => []<>(Free(id) /\ nodes[id].state = "ACTIVE")
    /\ <>[](Free(id) /\ (marks[id] = "silent" \/ SpentNow(id, 97))) => []<>(Free(id) /\ nodes[id].state = "PARKED")
=============================================================================
