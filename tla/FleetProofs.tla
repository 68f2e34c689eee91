----------------------------- MODULE FleetProofs -----------------------------
(* Theorems about Fleet, for any machines, tokens, pledges and months, any *)
(* number of Joins at once, and any number of restarts and refused writes. *)
EXTENDS Fleet, FiniteSetTheorems, TLAPS

(* What Persist leaves behind has its types.                               *)
LEMMA PersistType ==
  ASSUME TypeOK, NEW fleet \in [Ids -> Node \cup {Absent}], NEW overtaken \in SUBSET Ids,
         Persist(fleet, overtaken)
  PROVE  /\ nodes' \in [Ids -> Node \cup {Absent}] /\ disk' \in [Ids -> Node \cup {Absent}]
         /\ slipped' \subseteq Ids /\ troubles' \in 0..MaxTroubles
BY FleetAssumption DEF TypeOK, Persist, Trouble

(* The store holds what memory holds of every node that has not slipped.   *)
LEMMA PersistAgrees ==
  ASSUME NEW fleet, NEW overtaken, Persist(fleet, overtaken)
  PROVE  /\ nodes' = fleet
         /\ slipped \subseteq slipped' /\ overtaken \subseteq slipped'
         /\ disk' \in {fleet, disk}
         /\ \A id \in Ids \ slipped' : disk'[id] = fleet[id]
BY DEF Persist

(* A node that has been rolled is a node, in the same state.               *)
LEMMA RolledFacts ==
  ASSUME TypeOK, NEW node \in Node
  PROVE  Rolled(node) \in Node /\ Rolled(node).state = node.state
<1>1. 0 \in 0..MaxUsed /\ month \in 1..MaxMonth
  BY FleetAssumption DEF TypeOK
<1>2. [node EXCEPT !.period = month, !.used = 0] \in Node
  BY <1>1 DEF Node
<1>3. [node EXCEPT !.period = month, !.used = 0].state = node.state
  BY DEF Node
<1> QED BY <1>2, <1>3 DEF Rolled

LEMMA NextStateFacts ==
  ASSUME NEW node, NEW mark
  PROVE  /\ NextState(node, mark) \in States
         /\ node.state = "QUARANTINED" => NextState(node, mark) = "QUARANTINED"
BY DEF NextState, States

LEMMA FleetNodes == ASSUME TypeOK, NEW id \in TheFleet PROVE id \in Ids /\ nodes[id] \in Node
BY DEF TypeOK, TheFleet

(* A new row leaves the others alone or takes them away.                   *)
LEMMA AddFacts ==
  ASSUME TypeOK, NEW id \in Ids, NEW node \in Node
  PROVE  /\ Add(id, node) \in [Ids -> Node \cup {Absent}]
         /\ Add(id, node)[id] = node
         /\ \A k \in Ids \ {id} :
              Add(id, node)[k] = IF k \in Replaced(node.machine) THEN Absent ELSE nodes[k]
BY DEF TypeOK, Add
-----------------------------------------------------------------------------
LEMMA TypesInit == Init => TypeOK
BY FleetAssumption DEF Init, TypeOK, Marks

LEMMA TypesStep == TypeOK /\ [Next]_vars => TypeOK'
<1> SUFFICES ASSUME TypeOK, [Next]_vars PROVE TypeOK'
  OBVIOUS
<1> USE FleetAssumption
<1>1. ASSUME NEW t \in Tokens, NEW uses \in Uses, Mint(t, uses) PROVE TypeOK'
  BY <1>1 DEF TypeOK, Mint, tokenVars, passVars
<1>2. ASSUME NEW t \in Tokens, NEW c \in Calls, Redeem(c, t) PROVE TypeOK'
  BY <1>2 DEF TypeOK, Redeem, Take, passVars
<1>3. ASSUME NEW t \in Tokens, RedeemUnread(t) PROVE TypeOK'
  BY <1>3 DEF TypeOK, RedeemUnread, Take, Trouble, passVars
<1>4. ASSUME NEW c \in Calls, NEW m \in Machines, NEW pledge \in Pledges, NEW id \in Ids, Enrol(c, m, pledge, id)
      PROVE TypeOK'
  <2>1. Joined(m, pledge) \in Node
    BY DEF TypeOK, Joined, Node, States
  <2>2. Add(id, Joined(m, pledge)) \in [Ids -> Node \cup {Absent}]
    BY <2>1, AddFacts
  <2>3. Persist(Add(id, Joined(m, pledge)), {})
    BY <1>4 DEF Enrol
  <2>4. /\ nodes' \in [Ids -> Node \cup {Absent}] /\ disk' \in [Ids -> Node \cup {Absent}]
        /\ slipped' \subseteq Ids /\ troubles' \in 0..MaxTroubles
    BY <2>2, <2>3, PersistType
  <2>5. by' \in [Ids -> Tokens \cup {NoToken}] /\ joining' \in [Calls -> Tokens \cup {NoToken}]
    BY <1>4 DEF TypeOK, Enrol
  <2>6. gone' \subseteq Ids /\ marks' \in [Ids -> Marks]
    BY <1>4 DEF TypeOK, Enrol, Replaced, TheFleet, Marks
  <2> QED BY <1>4, <2>4, <2>5, <2>6 DEF TypeOK, Enrol, tokenVars, passVars
<1>5. ASSUME NEW id \in Ids, Remove(id) PROVE TypeOK'
  <2> DEFINE fleet == [nodes EXCEPT ![id] = Absent]
  <2>1. fleet \in [Ids -> Node \cup {Absent}] /\ Persist(fleet, {})
    BY <1>5 DEF TypeOK, Remove
  <2> HIDE DEF fleet
  <2>2. /\ nodes' \in [Ids -> Node \cup {Absent}] /\ disk' \in [Ids -> Node \cup {Absent}]
        /\ slipped' \subseteq Ids /\ troubles' \in 0..MaxTroubles
    BY <2>1, PersistType
  <2> QED BY <1>5, <2>2 DEF TypeOK, Remove, Marks, tokenVars, passVars
<1>6. ASSUME NEW id \in Ids, NEW mark \in Marks, Report(id, mark) PROVE TypeOK'
  BY <1>6 DEF TypeOK, Report, tokenVars, passVars
<1>7. ASSUME NEW id \in Ids, NEW billed \in Amounts, ApplySample(id, billed) PROVE TypeOK'
  <2> DEFINE node == Rolled(nodes[id])
             more == [node EXCEPT !.used = @ + billed]
  <2>1. node \in Node /\ node.used + billed <= MaxUsed /\ billed \in Nat
    BY <1>7, FleetNodes, RolledFacts DEF ApplySample
  <2>2. more \in Node
    BY <2>1 DEF Node
  <2> DEFINE fleet == [nodes EXCEPT ![id] = more]
  <2>3. fleet \in [Ids -> Node \cup {Absent}] /\ (billed > 0 => Persist(fleet, {}))
    BY <1>7, <2>2 DEF TypeOK, ApplySample
  <2>4. [nodes EXCEPT ![id] = node] \in [Ids -> Node \cup {Absent}]
    BY <2>1 DEF TypeOK
  <2>5. /\ nodes' \in [Ids -> Node \cup {Absent}] /\ disk' \in [Ids -> Node \cup {Absent}]
        /\ slipped' \subseteq Ids /\ troubles' \in 0..MaxTroubles
    <3>1. CASE billed > 0
      <4> HIDE DEF fleet
      <4> QED BY <2>3, <3>1, PersistType
    <3>2. CASE ~(billed > 0)
      BY <1>7, <2>4, <3>2 DEF ApplySample, TypeOK
    <3> QED BY <3>1, <3>2
  <2>6. marks' \in [Ids -> Marks]
    BY <1>7 DEF ApplySample, TypeOK, Marks
  <2> QED BY <1>7, <2>5, <2>6 DEF TypeOK, ApplySample, tokenVars, passVars
<1>8. ASSUME NEW id \in Ids, NEW pledge \in Pledges, SetBudget(id, pledge) PROVE TypeOK'
  <2>1. nodes[id] \in Node
    BY <1>8, FleetNodes DEF SetBudget
  <2> DEFINE fleet == [nodes EXCEPT ![id].pledge = pledge]
  <2>2. fleet \in [Ids -> Node \cup {Absent}] /\ Persist(fleet, {})
    BY <1>8, <2>1 DEF TypeOK, Node, SetBudget
  <2> HIDE DEF fleet
  <2>3. /\ nodes' \in [Ids -> Node \cup {Absent}] /\ disk' \in [Ids -> Node \cup {Absent}]
        /\ slipped' \subseteq Ids /\ troubles' \in 0..MaxTroubles
    BY <2>2, PersistType
  <2> QED BY <1>8, <2>3 DEF TypeOK, SetBudget, tokenVars, passVars
<1>9. ASSUME NEW id \in Ids, NEW state \in States, SetNodeState(id, state) PROVE TypeOK'
  <2>1. nodes[id] \in Node
    BY <1>9, FleetNodes DEF SetNodeState
  <2> DEFINE fleet == [nodes EXCEPT ![id].state = state]
             overtaken == IF state = "QUARANTINED" /\ verdict # Nothing /\ verdict.id = id THEN {id} ELSE {}
  <2>2. fleet \in [Ids -> Node \cup {Absent}] /\ overtaken \in SUBSET Ids
    BY <2>1 DEF TypeOK, Node
  <2>4. Persist(fleet, overtaken)
    BY <1>9 DEF SetNodeState
  <2> HIDE DEF fleet, overtaken
  <2>3. /\ nodes' \in [Ids -> Node \cup {Absent}] /\ disk' \in [Ids -> Node \cup {Absent}]
        /\ slipped' \subseteq Ids /\ troubles' \in 0..MaxTroubles
    BY <2>2, <2>4, PersistType
  <2> QED BY <1>9, <2>3 DEF TypeOK, SetNodeState, tokenVars, passVars
<1>10. CASE StartTick
  <2> DEFINE rolled == [id \in Ids |-> IF id \in TheFleet THEN Rolled(nodes[id]) ELSE Absent]
  <2>1. rolled \in [Ids -> Node \cup {Absent}]
    BY FleetNodes, RolledFacts
  <2>2. /\ nodes' \in [Ids -> Node \cup {Absent}] /\ disk' \in [Ids -> Node \cup {Absent}]
        /\ slipped' \subseteq Ids /\ troubles' \in 0..MaxTroubles
    <3>1. CASE Turned # {}
      BY <1>10, <2>1, <3>1, PersistType DEF StartTick
    <3>2. CASE Turned = {}
      BY <1>10, <2>1, <3>2 DEF StartTick, TypeOK
    <3> QED BY <3>1, <3>2
  <2> QED BY <1>10, <2>2 DEF TypeOK, StartTick, TheFleet, tokenVars
<1>11. CASE Decide
  <2>1. CASE verdict.id \in TheFleet
    <3>1. verdict.id \in Ids /\ verdict.state \in States /\ nodes[verdict.id] \in Node
      BY <1>11, <2>1, FleetNodes DEF Decide, TypeOK
    <3> DEFINE fleet == [nodes EXCEPT ![verdict.id].state = verdict.state]
    <3>2. fleet \in [Ids -> Node \cup {Absent}] /\ Persist(fleet, {})
      BY <1>11, <2>1, <3>1 DEF TypeOK, Node, Decide
    <3> HIDE DEF fleet
    <3>3. /\ nodes' \in [Ids -> Node \cup {Absent}] /\ disk' \in [Ids -> Node \cup {Absent}]
          /\ slipped' \subseteq Ids /\ troubles' \in 0..MaxTroubles
      BY <3>2, PersistType
    <3> QED BY <1>11, <3>3 DEF TypeOK, Decide, tokenVars
  <2>2. CASE verdict.id \notin TheFleet
    BY <1>11, <2>2 DEF TypeOK, Decide, tokenVars
  <2> QED BY <2>1, <2>2
<1>12. ASSUME NEW id \in Ids, Consider(id) PROVE TypeOK'
  <2>1. verdict' \in [id : Ids, state : States] \cup {Nothing}
    BY <1>12, NextStateFacts DEF Consider, TypeOK
  <2> QED BY <1>12, <2>1 DEF TypeOK, Consider, tokenVars
<1>13. CASE MonthTurns
  BY <1>13 DEF TypeOK, MonthTurns, tokenVars, passVars
<1>14. CASE Restart
  BY <1>14 DEF TypeOK, Restart, Trouble, Marks, tokenVars
<1>15. CASE UNCHANGED vars
  BY <1>15 DEF TypeOK, vars, tokenVars, passVars
<1> QED BY <1>1, <1>2, <1>3, <1>4, <1>5, <1>6, <1>7, <1>8, <1>9, <1>10, <1>11, <1>12, <1>13, <1>14, <1>15
        DEF Next, Tick, Donors, Reports, Operator

(* Every reachable state of Fleet has the types TypeOK gives it.           *)
THEOREM FleetTyped == Spec => []TypeOK
<1> QED BY TypesInit, TypesStep, PTL DEF Spec
-----------------------------------------------------------------------------
(* Membership, in memory and in the store: whoever has not slipped is in   *)
(* both or in neither, so that a restart changes nothing.                  *)
RosterInv ==
  /\ \A id \in Ids \ Enrolled : nodes[id] = Absent /\ disk[id] = Absent
  /\ gone \subseteq Enrolled /\ barred \subseteq Enrolled
  /\ \A id \in Enrolled \ slipped : /\ nodes[id] # Absent <=> id \notin gone
                                    /\ disk[id] # Absent <=> id \notin gone

(* A write of the same people leaves the roster true.                      *)
LEMMA SamePeople ==
  ASSUME RosterInv, NEW fleet, NEW overtaken,
         \A id \in Ids : fleet[id] = Absent <=> nodes[id] = Absent,
         Persist(fleet, overtaken) \/ (nodes' = fleet /\ UNCHANGED <<disk, slipped>>),
         UNCHANGED <<by, gone>>, barred' \subseteq Enrolled
  PROVE  RosterInv'
<1>1. CASE Persist(fleet, overtaken)
  <2>1. /\ nodes' = fleet /\ slipped \subseteq slipped' /\ disk' \in {fleet, disk}
        /\ \A id \in Ids \ slipped' : disk'[id] = fleet[id]
    BY <1>1, PersistAgrees
  <2> QED BY <2>1 DEF RosterInv, Enrolled
<1>2. CASE nodes' = fleet /\ UNCHANGED <<disk, slipped>>
  BY <1>2 DEF RosterInv, Enrolled
<1> QED BY <1>1, <1>2

LEMMA RosterStep == TypeOK /\ RosterInv /\ [Next]_vars => RosterInv'
<1> SUFFICES ASSUME TypeOK, RosterInv, [Next]_vars PROVE RosterInv'
  OBVIOUS
<1> USE FleetAssumption
<1>1. ASSUME NEW t \in Tokens, NEW uses \in Uses, Mint(t, uses) PROVE RosterInv'
  BY <1>1 DEF RosterInv, Enrolled, Mint
<1>2. ASSUME NEW t \in Tokens, NEW c \in Calls, Redeem(c, t) PROVE RosterInv'
  BY <1>2 DEF RosterInv, Enrolled, Redeem
<1>3. ASSUME NEW t \in Tokens, RedeemUnread(t) PROVE RosterInv'
  BY <1>3 DEF RosterInv, Enrolled, RedeemUnread
<1>4. ASSUME NEW c \in Calls, NEW m \in Machines, NEW pledge \in Pledges, NEW id \in Ids, Enrol(c, m, pledge, id)
      PROVE RosterInv'
  <2>1. Joined(m, pledge) \in Node /\ Joined(m, pledge).machine = m
    BY DEF TypeOK, Joined, Node, States
  <2>2. /\ Add(id, Joined(m, pledge))[id] # Absent
        /\ \A k \in Ids \ {id} :
             Add(id, Joined(m, pledge))[k] = IF k \in Replaced(m) THEN Absent ELSE nodes[k]
    BY <2>1, AddFacts
  <2>3. Persist(Add(id, Joined(m, pledge)), {})
    BY <1>4 DEF Enrol
  <2>4. /\ nodes' = Add(id, Joined(m, pledge)) /\ slipped \subseteq slipped'
        /\ disk' \in {Add(id, Joined(m, pledge)), disk}
        /\ \A k \in Ids \ slipped' : disk'[k] = Add(id, Joined(m, pledge))[k]
    BY <2>3, PersistAgrees
  <2>5. id \notin Enrolled /\ Enrolled' = Enrolled \cup {id}
    BY <1>4 DEF Enrol, Enrolled, TypeOK
  <2>6. Replaced(m) \subseteq Enrolled /\ gone' = gone \cup Replaced(m) /\ barred' = barred
    BY <1>4 DEF Enrol, Replaced, TheFleet, RosterInv
  <2>7. \A k \in Ids \ Enrolled' : nodes'[k] = Absent /\ disk'[k] = Absent
    BY <2>2, <2>4, <2>5, <2>6 DEF RosterInv
  <2>8. \A k \in Enrolled' \ slipped' : nodes'[k] # Absent <=> k \notin gone'
    <3>1. id \notin gone'
      BY <2>5, <2>6 DEF RosterInv
    <3>2. ASSUME NEW k \in Enrolled \ slipped' PROVE nodes'[k] # Absent <=> k \notin gone'
      BY <2>2, <2>4, <2>5, <2>6 DEF RosterInv, Enrolled
    <3> QED BY <2>2, <2>4, <2>5, <3>1, <3>2
  <2>9. \A k \in Enrolled' \ slipped' : disk'[k] = nodes'[k]
    BY <2>4 DEF Enrolled
  <2>10. gone' \subseteq Enrolled' /\ barred' \subseteq Enrolled'
    BY <2>5, <2>6 DEF RosterInv
  <2>11. \A k \in Enrolled' \ slipped' : disk'[k] # Absent <=> k \notin gone'
    BY <2>8, <2>9
  <2>12. (Ids \ Enrolled)' = Ids \ Enrolled'
    BY DEF Ids
  <2> QED BY <2>7, <2>8, <2>10, <2>11, <2>12 DEF RosterInv
<1>5. ASSUME NEW id \in Ids, Remove(id) PROVE RosterInv'
  <2> DEFINE fleet == [nodes EXCEPT ![id] = Absent]
  <2>1. fleet[id] = Absent /\ \A k \in Ids \ {id} : fleet[k] = nodes[k]
    BY DEF TypeOK
  <2>2. Persist(fleet, {}) /\ gone' = gone \cup {id} /\ barred' = barred /\ by' = by
    BY <1>5 DEF Remove
  <2> HIDE DEF fleet
  <2>3. /\ nodes' = fleet /\ slipped \subseteq slipped' /\ disk' \in {fleet, disk}
        /\ \A k \in Ids \ slipped' : disk'[k] = fleet[k]
    BY <2>2, PersistAgrees
  <2>4. id \in Enrolled
    BY <1>5 DEF Remove, TheFleet, RosterInv
  <2> QED BY <2>1, <2>2, <2>3, <2>4 DEF RosterInv, Enrolled
<1>6. ASSUME NEW id \in Ids, NEW mark \in Marks, Report(id, mark) PROVE RosterInv'
  BY <1>6 DEF RosterInv, Enrolled, Report
<1>7. ASSUME NEW id \in Ids, NEW billed \in Amounts, ApplySample(id, billed) PROVE RosterInv'
  <2> DEFINE node == Rolled(nodes[id])
             more == [node EXCEPT !.used = @ + billed]
             fleet == [nodes EXCEPT ![id] = IF billed > 0 THEN more ELSE node]
  <2>1. id \in TheFleet /\ node \in Node /\ node.used + billed <= MaxUsed /\ billed \in Nat
    BY <1>7, FleetNodes, RolledFacts DEF ApplySample
  <2>2. more \in Node
    BY <2>1 DEF Node
  <2>3. \A k \in Ids : fleet[k] = Absent <=> nodes[k] = Absent
    BY <2>1, <2>2 DEF TypeOK, TheFleet
  <2>4. Persist(fleet, {}) \/ (nodes' = fleet /\ UNCHANGED <<disk, slipped>>)
    BY <1>7 DEF ApplySample
  <2>5. UNCHANGED <<by, gone>> /\ barred' \subseteq Enrolled
    BY <1>7 DEF ApplySample, RosterInv
  <2> HIDE DEF fleet
  <2> QED BY <2>3, <2>4, <2>5, SamePeople
<1>8. ASSUME NEW id \in Ids, NEW pledge \in Pledges, SetBudget(id, pledge) PROVE RosterInv'
  <2> DEFINE fleet == [nodes EXCEPT ![id].pledge = pledge]
  <2>1. nodes[id] \in Node
    BY <1>8, FleetNodes DEF SetBudget
  <2>2. [nodes[id] EXCEPT !.pledge = pledge] \in Node
    BY <2>1 DEF Node
  <2>3. \A k \in Ids : fleet[k] = Absent <=> nodes[k] = Absent
    BY <2>1, <2>2 DEF TypeOK
  <2>4. Persist(fleet, {}) /\ UNCHANGED <<by, gone>> /\ barred' \subseteq Enrolled
    BY <1>8 DEF SetBudget, RosterInv
  <2> HIDE DEF fleet
  <2> QED BY <2>3, <2>4, SamePeople
<1>9. ASSUME NEW id \in Ids, NEW state \in States, SetNodeState(id, state) PROVE RosterInv'
  <2> DEFINE fleet == [nodes EXCEPT ![id].state = state]
             overtaken == IF state = "QUARANTINED" /\ verdict # Nothing /\ verdict.id = id THEN {id} ELSE {}
  <2>1. id \in TheFleet /\ nodes[id] \in Node
    BY <1>9, FleetNodes DEF SetNodeState
  <2>2. [nodes[id] EXCEPT !.state = state] \in Node
    BY <2>1 DEF Node
  <2>3. \A k \in Ids : fleet[k] = Absent <=> nodes[k] = Absent
    BY <2>1, <2>2 DEF TypeOK
  <2>4. Persist(fleet, overtaken) /\ UNCHANGED <<by, gone>>
    BY <1>9 DEF SetNodeState
  <2>5. barred' \subseteq Enrolled
    BY <1>9, <2>1 DEF SetNodeState, RosterInv, TheFleet
  <2> HIDE DEF fleet, overtaken
  <2> QED BY <2>3, <2>4, <2>5, SamePeople
<1>10. CASE StartTick
  <2> DEFINE fleet == [id \in Ids |-> IF id \in TheFleet THEN Rolled(nodes[id]) ELSE Absent]
  <2>1. \A id \in TheFleet : id \in Ids /\ Rolled(nodes[id]) \in Node
    BY FleetNodes, RolledFacts
  <2>2. \A k \in Ids : fleet[k] = Absent <=> nodes[k] = Absent
    BY <2>1 DEF TheFleet
  <2>3. Persist(fleet, {}) \/ (nodes' = fleet /\ UNCHANGED <<disk, slipped>>)
    BY <1>10 DEF StartTick
  <2>4. UNCHANGED <<by, gone>> /\ barred' \subseteq Enrolled
    BY <1>10 DEF StartTick, RosterInv
  <2> HIDE DEF fleet
  <2> QED BY <2>2, <2>3, <2>4, SamePeople
<1>11. CASE Decide
  <2>1. CASE verdict.id \in TheFleet
    <3> DEFINE fleet == [nodes EXCEPT ![verdict.id].state = verdict.state]
    <3>1. verdict.id \in Ids /\ verdict.state \in States /\ nodes[verdict.id] \in Node
      BY <1>11, <2>1, FleetNodes DEF Decide, TypeOK
    <3>2. [nodes[verdict.id] EXCEPT !.state = verdict.state] \in Node
      BY <3>1 DEF Node
    <3>3. \A k \in Ids : fleet[k] = Absent <=> nodes[k] = Absent
      BY <3>1, <3>2 DEF TypeOK
    <3>4. Persist(fleet, {}) /\ UNCHANGED <<by, gone>> /\ barred' \subseteq Enrolled
      BY <1>11, <2>1 DEF Decide, RosterInv
    <3> HIDE DEF fleet
    <3> QED BY <3>3, <3>4, SamePeople
  <2>2. CASE verdict.id \notin TheFleet
    BY <1>11, <2>2 DEF Decide, RosterInv, Enrolled
  <2> QED BY <2>1, <2>2
<1>12. ASSUME NEW id \in Ids, Consider(id) PROVE RosterInv'
  BY <1>12 DEF Consider, RosterInv, Enrolled
<1>13. CASE MonthTurns
  BY <1>13 DEF MonthTurns, RosterInv, Enrolled
<1>14. CASE Restart
  BY <1>14 DEF Restart, RosterInv, Enrolled
<1>15. CASE UNCHANGED vars
  BY <1>15 DEF vars, RosterInv, Enrolled
<1> QED BY <1>1, <1>2, <1>3, <1>4, <1>5, <1>6, <1>7, <1>8, <1>9, <1>10, <1>11, <1>12, <1>13, <1>14, <1>15
        DEF Next, Tick, Donors, Reports, Operator

(* store.go: a restart does not de-enrol the fleet, whatever was joining,  *)
(* leaving or being rescored when it came.                                 *)
THEOREM RestartsKeepTheFleet == Spec => []RosterIsTrue
<1>1. Init => RosterInv
  BY DEF Init, RosterInv, Enrolled
<1>2. RosterInv => RosterIsTrue
  BY DEF RosterInv, RosterIsTrue, TheFleet, Enrolled
<1> QED BY <1>1, <1>2, RosterStep, FleetTyped, PTL DEF Spec
-----------------------------------------------------------------------------
(* Quarantine, in memory, in the store and in the pass under way: the      *)
(* three places an old state could come back from.                         *)
Held(row) == row # Absent => row.state = "QUARANTINED"

BarredInv ==
  \A id \in (barred \cap Ids) \ slipped :
    Held(nodes[id]) /\ Held(disk[id]) /\ (verdict # Nothing => verdict.id # id)

(* A write that leaves what is barred barred.                              *)
LEMMA SameStates ==
  ASSUME BarredInv, NEW fleet, NEW overtaken,
         Persist(fleet, overtaken) \/ (nodes' = fleet /\ UNCHANGED <<disk, slipped>>),
         \A id \in (barred \cap Ids) \ slipped : Held(fleet[id]),
         barred' \subseteq barred, verdict' \in {verdict, Nothing}
  PROVE  BarredInv'
<1>1. CASE Persist(fleet, overtaken)
  <2>1. /\ nodes' = fleet /\ slipped \subseteq slipped'
        /\ \A id \in Ids \ slipped' : disk'[id] = fleet[id]
    BY <1>1, PersistAgrees
  <2> QED BY <2>1 DEF BarredInv
<1>2. CASE nodes' = fleet /\ UNCHANGED <<disk, slipped>>
  BY <1>2 DEF BarredInv
<1> QED BY <1>1, <1>2

LEMMA BarredStep == TypeOK /\ RosterInv /\ BarredInv /\ [Next]_vars => BarredInv'
<1> SUFFICES ASSUME TypeOK, RosterInv, BarredInv, [Next]_vars PROVE BarredInv'
  OBVIOUS
<1> USE FleetAssumption
<1>1. ASSUME NEW t \in Tokens, NEW uses \in Uses, Mint(t, uses) PROVE BarredInv'
  BY <1>1 DEF BarredInv, Mint, passVars
<1>2. ASSUME NEW t \in Tokens, NEW c \in Calls, Redeem(c, t) PROVE BarredInv'
  BY <1>2 DEF BarredInv, Redeem, passVars
<1>3. ASSUME NEW t \in Tokens, RedeemUnread(t) PROVE BarredInv'
  BY <1>3 DEF BarredInv, RedeemUnread, passVars
<1>4. ASSUME NEW c \in Calls, NEW m \in Machines, NEW pledge \in Pledges, NEW id \in Ids, Enrol(c, m, pledge, id)
      PROVE BarredInv'
  <2> DEFINE fleet == Add(id, Joined(m, pledge))
  <2>1. Joined(m, pledge) \in Node
    BY DEF TypeOK, Joined, Node, States
  <2>2. \A k \in Ids \ {id} : fleet[k] \in {Absent, nodes[k]}
    BY <2>1, AddFacts
  <2>3. id \notin barred
    BY <1>4 DEF Enrol, RosterInv, Enrolled
  <2>4. \A k \in (barred \cap Ids) \ slipped : Held(fleet[k])
    BY <2>2, <2>3 DEF BarredInv, Held
  <2>5. Persist(fleet, {}) /\ barred' \subseteq barred /\ verdict' \in {verdict, Nothing}
    BY <1>4 DEF Enrol, passVars
  <2> HIDE DEF fleet
  <2> QED BY <2>4, <2>5, SameStates
<1>5. ASSUME NEW id \in Ids, Remove(id) PROVE BarredInv'
  <2> DEFINE fleet == [nodes EXCEPT ![id] = Absent]
  <2>1. \A k \in Ids : fleet[k] \in {Absent, nodes[k]}
    BY DEF TypeOK
  <2>2. \A k \in (barred \cap Ids) \ slipped : Held(fleet[k])
    BY <2>1 DEF BarredInv, Held
  <2>3. Persist(fleet, {}) /\ barred' \subseteq barred /\ verdict' \in {verdict, Nothing}
    BY <1>5 DEF Remove, passVars
  <2> HIDE DEF fleet
  <2> QED BY <2>2, <2>3, SameStates
<1>6. ASSUME NEW id \in Ids, NEW mark \in Marks, Report(id, mark) PROVE BarredInv'
  BY <1>6 DEF BarredInv, Report, passVars
<1>7. ASSUME NEW id \in Ids, NEW billed \in Amounts, ApplySample(id, billed) PROVE BarredInv'
  <2> DEFINE node == Rolled(nodes[id])
             more == [node EXCEPT !.used = @ + billed]
             fleet == [nodes EXCEPT ![id] = IF billed > 0 THEN more ELSE node]
  <2>1. nodes[id] # Absent /\ node \in Node /\ node.state = nodes[id].state
    BY <1>7, FleetNodes, RolledFacts DEF ApplySample, TheFleet
  <2>2. more.state = nodes[id].state
    BY <2>1 DEF Node
  <2>3. fleet[id].state = nodes[id].state /\ \A k \in Ids \ {id} : fleet[k] = nodes[k]
    BY <2>1, <2>2 DEF TypeOK
  <2>4. \A k \in (barred \cap Ids) \ slipped : Held(fleet[k])
    BY <2>1, <2>3 DEF BarredInv, Held
  <2>5. /\ Persist(fleet, {}) \/ (nodes' = fleet /\ UNCHANGED <<disk, slipped>>)
        /\ barred' \subseteq barred /\ verdict' \in {verdict, Nothing}
    BY <1>7 DEF ApplySample, passVars
  <2> HIDE DEF fleet
  <2> QED BY <2>4, <2>5, SameStates
<1>8. ASSUME NEW id \in Ids, NEW pledge \in Pledges, SetBudget(id, pledge) PROVE BarredInv'
  <2> DEFINE fleet == [nodes EXCEPT ![id].pledge = pledge]
  <2>1. nodes[id] \in Node /\ nodes[id] # Absent
    BY <1>8, FleetNodes DEF SetBudget, TheFleet
  <2>2. [nodes[id] EXCEPT !.pledge = pledge].state = nodes[id].state
    BY <2>1 DEF Node
  <2>3. fleet[id].state = nodes[id].state /\ \A k \in Ids \ {id} : fleet[k] = nodes[k]
    BY <2>2 DEF TypeOK
  <2>4. \A k \in (barred \cap Ids) \ slipped : Held(fleet[k])
    BY <2>1, <2>3 DEF BarredInv, Held
  <2>5. Persist(fleet, {}) /\ barred' \subseteq barred /\ verdict' \in {verdict, Nothing}
    BY <1>8 DEF SetBudget, passVars
  <2> HIDE DEF fleet
  <2> QED BY <2>4, <2>5, SameStates
<1>9. ASSUME NEW id \in Ids, NEW state \in States, SetNodeState(id, state) PROVE BarredInv'
  <2> DEFINE fleet == [nodes EXCEPT ![id].state = state]
             overtaken == IF state = "QUARANTINED" /\ verdict # Nothing /\ verdict.id = id THEN {id} ELSE {}
  <2>1. nodes[id] \in Node
    BY <1>9, FleetNodes DEF SetNodeState
  <2>2. [nodes[id] EXCEPT !.state = state].state = state
    BY <2>1 DEF Node
  <2>3. fleet[id].state = state /\ \A k \in Ids \ {id} : fleet[k] = nodes[k]
    BY <2>2 DEF TypeOK
  <2>4. Persist(fleet, overtaken) /\ verdict' = verdict
    BY <1>9 DEF SetNodeState, passVars
  <2>5. id \in barred' => state = "QUARANTINED"
    BY <1>9 DEF SetNodeState
  <2>6. barred' \subseteq barred \cup {id}
    BY <1>9 DEF SetNodeState
  <2>7. state = "QUARANTINED" /\ verdict # Nothing /\ verdict.id = id => id \in overtaken
    OBVIOUS
  <2> HIDE DEF fleet, overtaken
  <2>8. /\ nodes' = fleet /\ slipped \subseteq slipped' /\ overtaken \subseteq slipped'
        /\ \A k \in Ids \ slipped' : disk'[k] = fleet[k]
    BY <2>4, PersistAgrees
  <2> QED BY <2>3, <2>4, <2>5, <2>6, <2>7, <2>8 DEF BarredInv, Held
<1>10. CASE StartTick
  <2> DEFINE fleet == [id \in Ids |-> IF id \in TheFleet THEN Rolled(nodes[id]) ELSE Absent]
  <2>1. \A k \in TheFleet : Rolled(nodes[k]).state = nodes[k].state
    BY FleetNodes, RolledFacts
  <2>2. \A k \in (barred \cap Ids) \ slipped : Held(fleet[k])
    BY <2>1 DEF BarredInv, Held, TheFleet
  <2>3. /\ Persist(fleet, {}) \/ (nodes' = fleet /\ UNCHANGED <<disk, slipped>>)
        /\ barred' \subseteq barred /\ verdict' \in {verdict, Nothing}
    BY <1>10 DEF StartTick
  <2> HIDE DEF fleet
  <2> QED BY <2>2, <2>3, SameStates
<1>11. CASE Decide
  <2>1. CASE verdict.id \in TheFleet
    <3> DEFINE fleet == [nodes EXCEPT ![verdict.id].state = verdict.state]
    <3>1. \A k \in Ids \ {verdict.id} : fleet[k] = nodes[k]
      BY DEF TypeOK
    <3>2. \A k \in (barred \cap Ids) \ slipped : Held(fleet[k])
      BY <1>11, <3>1 DEF BarredInv, Decide
    <3>3. Persist(fleet, {}) /\ barred' \subseteq barred /\ verdict' \in {verdict, Nothing}
      BY <1>11, <2>1 DEF Decide
    <3> HIDE DEF fleet
    <3> QED BY <3>2, <3>3, SameStates
  <2>2. CASE verdict.id \notin TheFleet
    BY <1>11, <2>2 DEF Decide, BarredInv
  <2> QED BY <2>1, <2>2
<1>12. ASSUME NEW id \in Ids, Consider(id) PROVE BarredInv'
  <2>1. UNCHANGED <<nodes, disk, barred, slipped>>
    BY <1>12 DEF Consider
  <2>2. CASE id \in TheFleet /\ NextState(nodes[id], marks[id]) # nodes[id].state
    <3>1. id \notin (barred \cap Ids) \ slipped
      BY <2>2, NextStateFacts DEF BarredInv, Held, TheFleet
    <3>2. verdict'.id = id
      BY <1>12, <2>2 DEF Consider
    <3> QED BY <2>1, <3>1, <3>2 DEF BarredInv, Held
  <2>3. CASE ~(id \in TheFleet /\ NextState(nodes[id], marks[id]) # nodes[id].state)
    BY <1>12, <2>1, <2>3 DEF Consider, BarredInv
  <2> QED BY <2>2, <2>3
<1>13. CASE MonthTurns
  BY <1>13 DEF MonthTurns, BarredInv, passVars
<1>14. CASE Restart
  BY <1>14 DEF Restart, BarredInv
<1>15. CASE UNCHANGED vars
  BY <1>15 DEF vars, BarredInv, passVars
<1> QED BY <1>1, <1>2, <1>3, <1>4, <1>5, <1>6, <1>7, <1>8, <1>9, <1>10, <1>11, <1>12, <1>13, <1>14, <1>15
        DEF Next, Tick, Donors, Reports, Operator

(* score.go: a quarantine set by hand is left by hand.                     *)
THEOREM QuarantineIsLeftByHand == Spec => []QuarantineHolds
<1>1. Init => RosterInv /\ BarredInv
  BY DEF Init, RosterInv, Enrolled, BarredInv
<1>2. BarredInv => QuarantineHolds
  BY DEF BarredInv, QuarantineHolds, Held, TheFleet
<1> QED BY <1>1, <1>2, RosterStep, BarredStep, FleetTyped, PTL DEF Spec
-----------------------------------------------------------------------------
JoinedBy(t) == {id \in Ids : by[id] = t}
Carrying(t) == {c \in Calls : joining[c] = t}

(* The uses of one token: spent, on their way and left.                    *)
Accounted(t) == Cardinality(JoinedBy(t)) + Cardinality(Carrying(t)) + left[t] <= minted[t]

LEMMA CountFacts ==
  ASSUME NEW t
  PROVE  /\ IsFiniteSet(JoinedBy(t)) /\ Cardinality(JoinedBy(t)) \in Nat
         /\ IsFiniteSet(Carrying(t)) /\ Cardinality(Carrying(t)) \in Nat
<1>1. IsFiniteSet(Ids) /\ IsFiniteSet(Calls)
  BY FS_Interval, FleetAssumption DEF Ids
<1>2. JoinedBy(t) \subseteq Ids /\ Carrying(t) \subseteq Calls
  BY DEF JoinedBy, Carrying
<1>3. IsFiniteSet(JoinedBy(t)) /\ IsFiniteSet(Carrying(t))
  BY <1>1, <1>2, FS_Subset
<1> QED BY <1>3, FS_CardinalityType

LEMMA TokensStep ==
  ASSUME TypeOK, [Next]_vars, NEW t \in Tokens, Accounted(t)
  PROVE  Accounted(t)'
<1> USE FleetAssumption
<1>1. left[t] \in Nat /\ minted[t] \in Nat
  BY DEF TypeOK
<1>2. ASSUME NEW u \in Tokens, NEW uses \in Uses, Mint(u, uses) PROVE Accounted(t)'
  <2>1. JoinedBy(t)' = JoinedBy(t) /\ Carrying(t)' = Carrying(t)
    BY <1>2 DEF Mint, JoinedBy, Carrying
  <2>2. CASE u = t
    <3>1. minted[t] = 0 /\ minted'[t] = uses /\ left'[t] = uses /\ uses \in Nat
      BY <1>2, <2>2 DEF Mint, TypeOK
    <3>2. Cardinality(JoinedBy(t)) = 0 /\ Cardinality(Carrying(t)) = 0
      BY <1>1, <3>1, CountFacts DEF Accounted
    <3> QED BY <2>1, <3>1, <3>2 DEF Accounted
  <2>3. CASE u # t
    BY <1>2, <2>1, <2>3 DEF Mint, TypeOK, Accounted
  <2> QED BY <2>2, <2>3
<1>3. ASSUME NEW u \in Tokens, NEW c \in Calls, Redeem(c, u) PROVE Accounted(t)'
  <2>1. JoinedBy(t)' = JoinedBy(t) /\ minted' = minted
    BY <1>3 DEF Redeem, JoinedBy
  <2>2. CASE u = t
    <3>1. c \notin Carrying(t) /\ Carrying(t)' = Carrying(t) \cup {c}
      BY <1>3, <2>2 DEF Redeem, Carrying, TypeOK
    <3>2. Cardinality(Carrying(t)') = Cardinality(Carrying(t)) + 1
      BY <3>1, CountFacts, FS_AddElement
    <3>3. left'[t] = left[t] - 1
      BY <1>3, <2>2 DEF Redeem, Take, TypeOK
    <3> QED BY <1>1, <2>1, <3>2, <3>3, CountFacts DEF Accounted
  <2>3. CASE u # t
    <3>1. Carrying(t)' = Carrying(t) /\ left'[t] = left[t]
      BY <1>3, <2>3 DEF Redeem, Take, Carrying, TypeOK
    <3> QED BY <2>1, <3>1 DEF Accounted
  <2> QED BY <2>2, <2>3
<1>4. ASSUME NEW u \in Tokens, RedeemUnread(u) PROVE Accounted(t)'
  <2>1. JoinedBy(t)' = JoinedBy(t) /\ Carrying(t)' = Carrying(t) /\ minted' = minted
    BY <1>4 DEF RedeemUnread, JoinedBy, Carrying
  <2>2. left'[t] \in {left[t], left[t] - 1}
    BY <1>4 DEF RedeemUnread, Take, TypeOK
  <2> QED BY <1>1, <2>1, <2>2, CountFacts DEF Accounted
<1>5. ASSUME NEW c \in Calls, NEW m \in Machines, NEW pledge \in Pledges, NEW id \in Ids, Enrol(c, m, pledge, id)
      PROVE Accounted(t)'
  <2>1. left' = left /\ minted' = minted
    BY <1>5 DEF Enrol, tokenVars
  <2>2. CASE joining[c] = t
    <3>1. id \notin JoinedBy(t) /\ JoinedBy(t)' = JoinedBy(t) \cup {id}
      BY <1>5, <2>2 DEF Enrol, JoinedBy, TypeOK
    <3>2. Cardinality(JoinedBy(t)') = Cardinality(JoinedBy(t)) + 1
      BY <3>1, CountFacts, FS_AddElement
    <3>3. c \in Carrying(t) /\ Carrying(t)' = Carrying(t) \ {c}
      BY <1>5, <2>2 DEF Enrol, Carrying, TypeOK
    <3>4. Cardinality(Carrying(t)') = Cardinality(Carrying(t)) - 1
      BY <3>3, CountFacts, FS_RemoveElement
    <3> QED BY <1>1, <2>1, <3>2, <3>4, CountFacts DEF Accounted
  <2>3. CASE joining[c] # t
    <3>1. JoinedBy(t)' = JoinedBy(t) /\ Carrying(t)' = Carrying(t)
      BY <1>5, <2>3 DEF Enrol, JoinedBy, Carrying, TypeOK
    <3> QED BY <2>1, <3>1 DEF Accounted
  <2> QED BY <2>2, <2>3
<1>6. CASE Restart
  <2>1. JoinedBy(t)' = JoinedBy(t) /\ left' = left /\ minted' = minted
    BY <1>6 DEF Restart, JoinedBy, tokenVars
  <2>2. Carrying(t)' = {}
    BY <1>6 DEF Restart, Carrying
  <2>3. Cardinality(Carrying(t)') = 0
    BY <2>2, FS_EmptySet
  <2> QED BY <1>1, <2>1, <2>3, CountFacts DEF Accounted
<1>7. ASSUME UNCHANGED <<by, joining, left, minted>> PROVE Accounted(t)'
  BY <1>7 DEF Accounted, JoinedBy, Carrying
<1>8. CASE Tick
  BY <1>7, <1>8 DEF Tick, StartTick, Consider, Decide, tokenVars
<1>9. CASE Reports
  BY <1>7, <1>9 DEF Reports, Report, ApplySample, tokenVars
<1>10. CASE Operator \/ MonthTurns \/ UNCHANGED vars
  BY <1>7, <1>10 DEF Operator, SetNodeState, MonthTurns, vars, tokenVars
<1>11. ASSUME NEW id \in Ids, Remove(id) \/ \E pledge \in Pledges : SetBudget(id, pledge) PROVE Accounted(t)'
  BY <1>7, <1>11 DEF Remove, SetBudget, tokenVars
<1> QED BY <1>2, <1>3, <1>4, <1>5, <1>6, <1>8, <1>9, <1>10, <1>11 DEF Next, Donors

(* tokens.go: a token good for n joins admits n nodes and no more, however *)
(* many Joins present it at once and whatever becomes of them.             *)
THEOREM TokensAdmitNoMore == Spec => []EnrolmentsWithinUses
<1> DEFINE Inv == \A t \in Tokens : Accounted(t)
<1>1. Init => Inv
  <2> SUFFICES ASSUME Init, NEW t \in Tokens PROVE Accounted(t)
    OBVIOUS
  <2>1. JoinedBy(t) = {} /\ Carrying(t) = {} /\ left[t] = 0 /\ minted[t] = 0
    BY FleetAssumption DEF Init, JoinedBy, Carrying
  <2> QED BY <2>1, FS_EmptySet DEF Accounted
<1>2. TypeOK /\ Inv /\ [Next]_vars => Inv'
  BY TokensStep
<1>3. Inv => EnrolmentsWithinUses
  BY DEF EnrolmentsWithinUses, Accounted, JoinedBy, Carrying
<1> QED BY <1>1, <1>2, <1>3, FleetTyped, PTL DEF Spec
=============================================================================
