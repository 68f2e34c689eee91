--------------------------- MODULE MeteringProofs ---------------------------
(* A donor's bill: its types, that nothing spent is refunded, and that it  *)
(* stays within what clients had the node carry, for any queue and however *)
(* much happens.                                                           *)
EXTENDS Metering, SequenceTheorems, TLAPS

-----------------------------------------------------------------------------
(* The inductive invariants.                                               *)

AtMost(a, b) == a.client <= b.client /\ a.probe <= b.probe

(* The last row saved has spent at least what the registry has now.        *)
SavedIsSpent == ~unsaved => stored.used >= used

(* The totals the supervisor has read, this run of the agent.              *)
Read == Plus(carry, last)

(* The most clients' bytes it may still come to report without another     *)
(* byte carried: what a running core has counted, or what was read of it.  *)
Reach ==
  carry.client + (IF up THEN counter.client
                  ELSE IF reading # Nothing THEN reading.client ELSE last.client)

(* Every sample that the registry has, or may come to have.                *)
Queued == {queue[i] : i \in 1..Len(queue)}
Reported == Queued \cup ({inHand} \ {Nothing}) \cup {base, stored.base}

(* A core is read in order.                                                *)
ReadInOrder ==
  /\ up => AtMost(last, counter)
  /\ reading # Nothing => AtMost(last, reading)
  /\ up /\ reading # Nothing => AtMost(reading, counter)

(* Samples are of runs there were; those of this one are behind what was   *)
(* read, and those of one run follow one another.                          *)
ReportsInOrder ==
  /\ \A s \in Queued : s.boot = boot
  /\ \A s \in Reported : s.boot <= boot /\ (s.boot = boot => AtMost(s.count, Read))
  /\ \A s, t \in Reported :
       s.boot = t.boot => AtMost(s.count, t.count) \/ AtMost(t.count, s.count)

(* A bill and its baseline leave room for what may still be reported.      *)
LeavesRoom(bill, from) ==
  bill + Reach - (IF from.boot = boot THEN from.count.client ELSE 0) <= carried

(* So they do after the sample in hand, if it is of the baseline's run and *)
(* that run is over.                                                       *)
LateLeavesRoom ==
  inHand # Nothing /\ inHand.boot = base.boot /\ base.boot # boot
    => billed + (inHand.count.client - base.count.client) + Reach <= carried

(* The bill and its baseline, the last saved ones included, leave room.    *)
Fair ==
  ~steppedBack => LeavesRoom(billed, base) /\ LateLeavesRoom
                  /\ LeavesRoom(stored.billed, stored.base)

FairInv == ~torn => ReadInOrder /\ ReportsInOrder /\ Fair

-----------------------------------------------------------------------------
(* Types.                                                                  *)

LEMMA CountsAdd ==
  ASSUME NEW a \in Counts, NEW b \in Counts
  PROVE  /\ Plus(a, b) \in Counts /\ Zero \in Counts
         /\ Plus(a, b).client = a.client + b.client
         /\ Plus(a, b).probe = a.probe + b.probe
         /\ Zero.client = 0 /\ Zero.probe = 0
         /\ a.client \in Nat /\ a.probe \in Nat
BY DEF Counts, Plus, Zero

(* A full queue loses its head, and the sample is the last.                *)
LEMMA CollectFacts ==
  ASSUME TypeOK, NEW c \in Counts, Collect(c)
  PROVE  /\ queue' \in Seq(Samples) /\ Len(queue') <= StatsDepth
         /\ {queue'[i] : i \in 1..Len(queue')}
              \subseteq Queued \cup {[boot |-> boot, count |-> c]}
<1> DEFINE kept == IF Len(queue) < StatsDepth THEN queue ELSE Tail(queue)
           s == [boot |-> boot, count |-> c]
<1>1. /\ StatsDepth \in Nat \ {0} /\ queue \in Seq(Samples)
      /\ Len(queue) \in Nat /\ Len(queue) <= StatsDepth
  BY MeteringAssumption DEF TypeOK
<1>2. s \in Samples
  BY DEF TypeOK, Samples
<1>3. /\ kept \in Seq(Samples) /\ Len(kept) < StatsDepth
      /\ \A i \in 1..Len(kept) : kept[i] \in Queued
  <2>1. CASE Len(queue) < StatsDepth
    BY <1>1, <2>1 DEF Queued
  <2>2. CASE Len(queue) >= StatsDepth
    <3>1. queue # <<>>
      BY <1>1, <2>2
    <3>2. /\ kept = Tail(queue) /\ kept \in Seq(Samples) /\ Len(kept) = Len(queue) - 1
          /\ \A i \in 1..Len(kept) : kept[i] = queue[i + 1]
      BY <1>1, <2>2, <3>1, HeadTailProperties
    <3>3. \A i \in 1..Len(kept) : i + 1 \in 1..Len(queue)
      BY <1>1, <3>2
    <3> QED BY <1>1, <2>2, <3>2, <3>3 DEF Queued
  <2> QED BY <1>1, <2>1, <2>2
<1>4. queue' = Append(kept, s)
  BY DEF Collect
<1> HIDE DEF kept, s
<1>5. /\ queue' \in Seq(Samples) /\ Len(queue') = Len(kept) + 1
      /\ \A i \in 1..Len(kept) : queue'[i] = kept[i]
      /\ queue'[Len(kept) + 1] = s
  BY <1>2, <1>3, <1>4, AppendProperties
<1>6. \A i \in 1..Len(queue') : queue'[i] \in Queued \cup {s}
  <2> TAKE i \in 1..Len(queue')
  <2>1. i \in 1..Len(kept) \/ i = Len(kept) + 1
    BY <1>3, <1>5
  <2> QED BY <2>1, <1>3, <1>5
<1> QED BY <1>1, <1>3, <1>5, <1>6 DEF s

(* What is delivered was queued, and so is what is left.                   *)
LEMMA DeliverFacts ==
  ASSUME TypeOK, queue # <<>>
  PROVE  /\ Head(queue) \in Samples /\ Head(queue) \in Queued
         /\ Tail(queue) \in Seq(Samples) /\ Len(Tail(queue)) <= StatsDepth
         /\ {Tail(queue)[i] : i \in 1..Len(Tail(queue))} \subseteq Queued
<1>1. StatsDepth \in Nat \ {0} /\ queue \in Seq(Samples) /\ Len(queue) <= StatsDepth
  BY MeteringAssumption DEF TypeOK
<1>2. Len(queue) \in Nat \ {0}
  BY <1>1, EmptySeq
<1>3. /\ Head(queue) = queue[1] /\ Head(queue) \in Samples
      /\ Tail(queue) \in Seq(Samples) /\ Len(Tail(queue)) = Len(queue) - 1
      /\ \A i \in 1..Len(Tail(queue)) : Tail(queue)[i] = queue[i + 1]
  BY <1>1, HeadTailProperties
<1>4. \A i \in 1..Len(Tail(queue)) : i + 1 \in 1..Len(queue)
  BY <1>2, <1>3
<1> QED BY <1>1, <1>2, <1>3, <1>4 DEF Queued

LEMMA BillType ==
  ASSUME TypeOK, NEW s \in Samples
  PROVE  Bill(s) \in Nat /\ Spent(s) \in Nat
<1>1. /\ Total(s.count) \in Nat /\ Total(base.count) \in Nat
      /\ s.count.probe \in Nat /\ base.count.probe \in Nat
  BY DEF TypeOK, Samples, Counts, Total
<1>2. Bill(s) \in Nat
  BY <1>1 DEF Bill
<1> QED BY <1>2 DEF TypeOK, Spent

LEMMA PersistType ==
  ASSUME TypeOK, NEW works, Persist(works), base' \in Samples,
         used' \in Nat, period' \in Nat, billed' \in Nat
  PROVE  stored' \in Rows /\ unsaved' \in BOOLEAN
<1>1. CASE works
  <2>1. /\ stored' = [base |-> base', used |-> used', period |-> period', billed |-> billed']
        /\ unsaved' = FALSE
    BY <1>1 DEF Persist
  <2> QED BY <2>1 DEF Rows
<1>2. CASE ~works
  BY <1>2 DEF TypeOK, Persist
<1> QED BY <1>1, <1>2

LEMMA ApplyType ==
  ASSUME TypeOK, NEW s \in Samples, NEW works, ApplySample(s, works)
  PROVE  /\ base' \in Samples /\ used' \in Nat /\ period' \in Nat /\ billed' \in Nat
         /\ stored' \in Rows /\ unsaved' \in BOOLEAN
         /\ steppedBack' \in BOOLEAN /\ forgone' \in BOOLEAN
<1>1. base' \in Samples /\ used' \in Nat /\ period' \in Nat /\ billed' \in Nat
  BY BillType DEF ApplySample, TypeOK
<1>2. stored' \in Rows /\ unsaved' \in BOOLEAN
  BY <1>1, PersistType DEF ApplySample, TypeOK
<1>3. steppedBack' \in BOOLEAN /\ forgone' \in BOOLEAN
  BY DEF ApplySample
<1> QED BY <1>1, <1>2, <1>3

LEMMA TypesInitial == Init => TypeOK
<1> SUFFICES ASSUME Init PROVE TypeOK
  OBVIOUS
<1>1. Zero \in Counts
  BY DEF Zero, Counts
<1>2. base \in Samples /\ stored \in Rows
  BY <1>1 DEF Init, Samples, Rows
<1>3. queue \in Seq(Samples) /\ Len(queue) = 0
  BY EmptySeq DEF Init
<1>4. boot \in Nat /\ used \in Nat /\ period \in Nat /\ month \in Nat /\ carried \in Nat /\ billed \in Nat
  BY DEF Init
<1>5. Len(queue) <= StatsDepth /\ turns \in Nat
  BY <1>3, MeteringAssumption DEF Init
<1> QED BY <1>1, <1>2, <1>3, <1>4, <1>5 DEF Init, TypeOK

LEMMA TypesKept == TypeOK /\ [Next]_vars => TypeOK'
<1> SUFFICES ASSUME TypeOK, [Next]_vars PROVE TypeOK'
  OBVIOUS
<1> USE DEF nodeVars, linkVars, headVars, historyVars
<1>0. /\ <<>> \in Seq(Samples) /\ Len(<<>>) = 0 /\ 0 <= StatsDepth
      /\ Zero \in Counts
      /\ turns' \in Nat
  <2>1. CASE UNCHANGED vars
    BY <2>1, MeteringAssumption, EmptySeq DEF vars, TypeOK, Zero, Counts
  <2>2. CASE Next
    <3>1. turns' = turns \/ (turns > 0 /\ turns' = turns - 1)
      BY <2>2 DEF Next, Reports, Arrives, Rolls, Dials, Turn
    <3> QED BY <3>1, MeteringAssumption, EmptySeq DEF TypeOK, Zero, Counts
  <2> QED BY <2>1, <2>2
<1>1. ASSUME NEW c \in Counts, Carry(c) PROVE TypeOK'
  <2>1. counter \in Counts /\ carried \in Nat /\ c.client \in Nat
    BY DEF TypeOK, Counts
  <2>2. counter' \in Counts
    BY <1>1, <2>1, CountsAdd DEF Carry
  <2>3. carried' \in Nat
    BY <1>1, <2>1 DEF Carry
  <2> QED BY <1>0, <1>1, <2>2, <2>3 DEF Carry, TypeOK
<1>2. ASSUME NEW works \in BOOLEAN, RestartCore(works) PROVE TypeOK'
  BY <1>0, <1>2, CountsAdd DEF RestartCore, TypeOK
<1>3. ASSUME StopCore PROVE TypeOK'
  BY <1>0, <1>3 DEF StopCore, TypeOK
<1>4. ASSUME AgentRestarts PROVE TypeOK'
  <2>1. boot' \in Nat /\ forgone' \in BOOLEAN
    BY <1>4 DEF AgentRestarts, TypeOK
  <2> QED BY <1>0, <1>4, <2>1 DEF AgentRestarts, TypeOK
<1>5. ASSUME NEW answers \in BOOLEAN, AskCore(answers) PROVE TypeOK'
  BY <1>0, <1>5, CollectFacts DEF AskCore, TypeOK
<1>6. ASSUME Fold PROVE TypeOK'
  <2>1. reading \in Counts /\ Plus(carry, reading) \in Counts
    BY <1>6, CountsAdd DEF Fold, TypeOK
  <2> QED BY <1>0, <1>6, <2>1, CollectFacts DEF Fold, TypeOK
<1>7. ASSUME Connect PROVE TypeOK'
  BY <1>0, <1>7 DEF Connect, TypeOK
<1>8. ASSUME Break PROVE TypeOK'
  BY <1>0, <1>8, DeliverFacts DEF Break, TypeOK
<1>9. ASSUME NEW works \in BOOLEAN, Deliver(works) PROVE TypeOK'
  BY <1>0, <1>9, DeliverFacts, ApplyType DEF Deliver, TypeOK
<1>10. ASSUME NEW works \in BOOLEAN, DeliverLate(works) PROVE TypeOK'
  <2>1. inHand \in Samples
    BY <1>10 DEF DeliverLate, TypeOK
  <2> QED BY <1>0, <1>10, <2>1, ApplyType DEF DeliverLate, TypeOK
<1>11. ASSUME NEW works \in BOOLEAN, RollPeriods(works) \/ SaveFleet(works) PROVE TypeOK'
  <2>1. base' \in Samples /\ used' \in Nat /\ period' \in Nat /\ billed' \in Nat /\ Persist(works)
    BY <1>11 DEF RollPeriods, SaveFleet, TypeOK
  <2>2. stored' \in Rows /\ unsaved' \in BOOLEAN
    BY <2>1, PersistType
  <2> QED BY <1>0, <1>11, <2>1, <2>2 DEF RollPeriods, SaveFleet, TypeOK
<1>12. ASSUME HeadRestarts PROVE TypeOK'
  BY <1>0, <1>12 DEF HeadRestarts, TypeOK, Rows
<1>13. ASSUME MonthTurns PROVE TypeOK'
  BY <1>0, <1>13 DEF MonthTurns, TypeOK
<1>14. CASE UNCHANGED vars
  BY <1>14 DEF vars, TypeOK
<1>15. [client |-> 1, probe |-> 0] \in Counts /\ [client |-> 0, probe |-> 1] \in Counts
  BY DEF Counts
<1> QED
  BY <1>1, <1>2, <1>3, <1>4, <1>5, <1>6, <1>7, <1>8, <1>9, <1>10, <1>11, <1>12, <1>13, <1>14,
     <1>15 DEF Next, Events, Reports, Arrives, Rolls, Dials

(* Every value stays within its type (Metering).                           *)
THEOREM MeteringTyped == Spec => []TypeOK
BY TypesInitial, TypesKept, PTL DEF Spec


-----------------------------------------------------------------------------
(* Nothing spent is refunded.                                              *)

LEMMA SavedInitial == Init => SavedIsSpent
BY DEF Init, SavedIsSpent

(* A row saved has spent what the registry has.                            *)
LEMMA PersistSaves ==
  ASSUME TypeOK, TypeOK', NEW works \in BOOLEAN, Persist(works)
  PROVE  SavedIsSpent'
<1>1. CASE works
  <2>1. stored'.used = used'
    BY <1>1 DEF Persist
  <2> QED BY <2>1 DEF SavedIsSpent, TypeOK
<1>2. CASE ~works
  BY <1>2 DEF Persist, SavedIsSpent
<1> QED BY <1>1, <1>2

(* A sample adds to the bill, but for the month that is over.              *)
LEMMA ApplySpends ==
  ASSUME TypeOK, TypeOK', SavedIsSpent, NEW s \in Samples, NEW works \in BOOLEAN,
         ApplySample(s, works)
  PROVE  SavedIsSpent' /\ (used' < used => period' > period)
<1>1. Bill(s) \in Nat /\ used \in Nat /\ period \in Nat /\ month \in Nat
  BY BillType DEF TypeOK
<1>2. used' = (IF period < month THEN 0 ELSE used) + Bill(s) /\ period' = month
  BY DEF ApplySample, Spent
<1>3. used' < used => period' > period
  BY <1>1, <1>2
<1>4. CASE Bill(s) > 0
  BY <1>4, <1>3, PersistSaves DEF ApplySample
<1>5. CASE ~(Bill(s) > 0)
  <2>1. UNCHANGED <<stored, unsaved>>
    BY <1>5 DEF ApplySample
  <2>2. used' <= used
    BY <1>1, <1>2, <1>5
  <2>3. stored.used \in Nat
    BY DEF TypeOK, Rows
  <2> QED BY <1>1, <1>3, <2>1, <2>2, <2>3 DEF SavedIsSpent, TypeOK
<1> QED BY <1>4, <1>5

LEMMA SpendingKept ==
  ASSUME TypeOK, TypeOK', SavedIsSpent, [Next]_vars
  PROVE  SavedIsSpent' /\ (used' < used => period' > period \/ unsaved)
<1> DEFINE Goal == SavedIsSpent' /\ (used' < used => period' > period \/ unsaved)
<1>0. used \in Nat /\ ~(used < used) /\ stored.used \in Nat
  BY DEF TypeOK, Rows
<1>1. ASSUME UNCHANGED <<used, stored, unsaved>> PROVE Goal
  BY <1>0, <1>1 DEF SavedIsSpent
<1>2. ASSUME NEW works \in BOOLEAN, Deliver(works) PROVE Goal
  BY <1>2, DeliverFacts, ApplySpends DEF Deliver
<1>3. ASSUME NEW works \in BOOLEAN, DeliverLate(works) PROVE Goal
  <2>1. inHand \in Samples
    BY <1>3 DEF DeliverLate, TypeOK
  <2> QED BY <1>3, <2>1, ApplySpends DEF DeliverLate
<1>4. ASSUME NEW works \in BOOLEAN, RollPeriods(works) PROVE Goal
  <2>1. period' > period
    BY <1>4 DEF RollPeriods, TypeOK
  <2> QED BY <1>4, <2>1, PersistSaves DEF RollPeriods
<1>5. ASSUME NEW works \in BOOLEAN, SaveFleet(works) PROVE Goal
  BY <1>0, <1>5, PersistSaves DEF SaveFleet
<1>6. ASSUME HeadRestarts PROVE Goal
  <2>1. used' = stored.used /\ stored' = stored
    BY <1>6 DEF HeadRestarts
  <2> QED BY <1>0, <2>1 DEF SavedIsSpent
<1>7. CASE UNCHANGED vars
  BY <1>7, <1>1 DEF vars, headVars
<1>8. CASE Next
  BY <1>8, <1>1, <1>2, <1>3, <1>4, <1>5, <1>6
  DEF Next, Events, Reports, Arrives, Rolls, Dials, Carry, RestartCore, StopCore,
      AgentRestarts, AskCore, Fold, Connect, Break, MonthTurns, headVars
<1> QED BY <1>7, <1>8

(* What a donor has spent in a month is only lost to a restart of the head *)
(* that could not save it: neither a reboot of the node nor a sample out   *)
(* of order refunds it (ApplySample, RollPeriods, Open).                   *)
THEOREM SpendingStays == Spec => SpentStaysSpent
<1>1. TypeOK /\ TypeOK' /\ SavedIsSpent /\ [Next]_vars
        => SavedIsSpent' /\ [used' < used => period' > period \/ unsaved]_vars
  BY SpendingKept
<1> QED BY <1>1, MeteringTyped, SavedInitial, PTL DEF Spec, SpentStaysSpent


-----------------------------------------------------------------------------
(* The bill stays within what was carried.                                 *)

(* What the invariant's parts are made of.                                 *)
LEMMA ReportTypes ==
  TypeOK => /\ Read \in Counts /\ Reach \in Nat
            /\ Reported \subseteq Samples /\ Queued \subseteq Samples
            /\ Read.client = carry.client + last.client
            /\ Read.probe = carry.probe + last.probe
<1> SUFFICES ASSUME TypeOK
             PROVE  /\ Read \in Counts /\ Reach \in Nat
                    /\ Reported \subseteq Samples /\ Queued \subseteq Samples
                    /\ Read.client = carry.client + last.client
                    /\ Read.probe = carry.probe + last.probe
  OBVIOUS
<1>1. \A i \in 1..Len(queue) : queue[i] \in Samples
  BY DEF TypeOK
<1>2. /\ carry.client \in Nat /\ counter.client \in Nat /\ last.client \in Nat
      /\ reading # Nothing => reading.client \in Nat
  BY DEF TypeOK, Counts
<1>3. Reach \in Nat
  BY <1>2 DEF Reach
<1>4. stored.base \in Samples
  BY DEF TypeOK, Rows
<1> QED BY <1>1, <1>3, <1>4, CountsAdd DEF TypeOK, Read, Reported, Queued

LEMMA NextReportTypes ==
  TypeOK' => (Read \in Counts /\ Reach \in Nat)'
BY ReportTypes, PTL

(* Samples may go.                                                         *)
LEMMA OrderKept ==
  ASSUME TypeOK, TypeOK', ReportsInOrder, boot' = boot, AtMost(Read, Read'),
         Queued' \subseteq Queued, Reported' \subseteq Reported
  PROVE  ReportsInOrder'
<1>1. Read \in Counts /\ Read' \in Counts /\ Reported \subseteq Samples
  BY ReportTypes, NextReportTypes
<1>2. ASSUME NEW s \in Reported', s.boot = boot' PROVE AtMost(s.count, Read')
  BY <1>1, <1>2 DEF ReportsInOrder, AtMost, Samples, Counts
<1> QED BY <1>2 DEF ReportsInOrder

(* A sample of nothing, or of what has just been read, may come.           *)
LEMMA OrderGrows ==
  ASSUME TypeOK, TypeOK', ReportsInOrder, boot' = boot, AtMost(Read, Read'),
         NEW c \in Counts, c = Zero \/ c = Read',
         Queued' \subseteq Queued \cup {[boot |-> boot, count |-> c]},
         Reported' \subseteq Reported \cup {[boot |-> boot, count |-> c]}
  PROVE  ReportsInOrder'
<1> DEFINE n == [boot |-> boot, count |-> c]
<1>1. Read \in Counts /\ Read' \in Counts /\ Reported \subseteq Samples
  BY ReportTypes, NextReportTypes
<1>2. Zero.client = 0 /\ Zero.probe = 0 /\ boot \in Nat
  BY DEF Zero, TypeOK
<1>3. n.boot = boot /\ n.count = c
  OBVIOUS
<1>4. AtMost(c, Read')
  BY <1>1, <1>2 DEF AtMost, Counts
<1>5. ASSUME NEW s \in Reported, s.boot = boot
      PROVE  AtMost(s.count, Read') /\ (AtMost(s.count, c) \/ AtMost(c, s.count))
  <2>1. s.count \in Counts /\ AtMost(s.count, Read)
    BY <1>1, <1>5 DEF ReportsInOrder, Samples
  <2>2. AtMost(s.count, Read')
    BY <1>1, <2>1 DEF AtMost, Counts
  <2> QED BY <1>2, <2>1, <2>2 DEF AtMost, Counts
<1>6. \A s \in Queued' : s.boot = boot'
  BY <1>3 DEF ReportsInOrder
<1>7. \A s \in Reported' : s.boot <= boot' /\ (s.boot = boot' => AtMost(s.count, Read'))
  BY <1>2, <1>3, <1>4, <1>5 DEF ReportsInOrder
<1>8. ASSUME NEW s \in Reported', NEW t \in Reported', s.boot = t.boot
      PROVE  AtMost(s.count, t.count) \/ AtMost(t.count, s.count)
  <2>1. CASE s \in Reported /\ t \in Reported
    BY <1>8, <2>1 DEF ReportsInOrder
  <2>2. CASE s = n /\ t \in Reported
    BY <1>3, <1>5, <1>8, <2>2
  <2>3. CASE t = n /\ s \in Reported
    BY <1>3, <1>5, <1>8, <2>3
  <2>4. CASE s = n /\ t = n
    BY <1>3, <2>4 DEF AtMost, Counts
  <2> QED BY <2>1, <2>2, <2>3, <2>4
<1> QED BY <1>6, <1>7, <1>8 DEF ReportsInOrder

(* Room stays where it was when the reach and the bytes carried grow alike.*)
LEMMA RoomKept ==
  ASSUME TypeOK, TypeOK', boot' = boot, Reach' - Reach <= carried' - carried,
         NEW bill \in Nat, NEW from \in Samples, LeavesRoom(bill, from)
  PROVE  bill + Reach' - (IF from.boot = boot' THEN from.count.client ELSE 0) <= carried'
<1>1. /\ Reach \in Nat /\ Reach' \in Nat
  BY ReportTypes, NextReportTypes
<1>2. carried \in Nat /\ carried' \in Nat /\ from.count.client \in Nat
  BY DEF TypeOK, Samples, Counts
<1>3. bill + Reach - (IF from.boot = boot THEN from.count.client ELSE 0) <= carried
  BY DEF LeavesRoom
<1> DEFINE part == IF from.boot = boot THEN from.count.client ELSE 0
<1>4. part \in Nat /\ bill + Reach - part <= carried
  BY <1>2, <1>3
<1> HIDE DEF part
<1>5. bill + Reach' - part <= carried'
  BY <1>1, <1>2, <1>4
<1> QED BY <1>5 DEF part

(* A step that leaves the bill alone and has no sample, or only the oldest *)
(* queued, in hand.                                                        *)
LEMMA FairKept ==
  ASSUME TypeOK, TypeOK', ReportsInOrder, Fair, steppedBack' = steppedBack, boot' = boot, Reach' - Reach <= carried' - carried,
         UNCHANGED <<base, billed>>, inHand' \in {inHand} \cup Queued,
         stored' = stored \/ (stored'.base = base /\ stored'.billed = billed)
  PROVE  Fair'
<1> SUFFICES ASSUME ~steppedBack
             PROVE  LeavesRoom(billed, base)' /\ LateLeavesRoom'
                    /\ LeavesRoom(stored.billed, stored.base)'
  BY DEF Fair
<1>0. LeavesRoom(billed, base) /\ LateLeavesRoom /\ LeavesRoom(stored.billed, stored.base)
  BY DEF Fair
<1>1. /\ Reach \in Nat /\ Reach' \in Nat
  BY ReportTypes, NextReportTypes
<1>2. /\ carried \in Nat /\ carried' \in Nat /\ billed \in Nat /\ base \in Samples
      /\ stored.billed \in Nat /\ stored.base \in Samples
  BY DEF TypeOK, Rows
<1>3. LeavesRoom(billed, base)'
  BY <1>0, <1>2, RoomKept DEF LeavesRoom
<1>4. LeavesRoom(stored.billed, stored.base)'
  <2>1. CASE stored' = stored
    BY <1>0, <1>2, <2>1, RoomKept DEF LeavesRoom
  <2>2. CASE stored'.base = base /\ stored'.billed = billed
    BY <1>0, <1>2, <2>2, RoomKept DEF LeavesRoom
  <2> QED BY <2>1, <2>2
<1>5. LateLeavesRoom'
  <2>1. CASE inHand' = inHand
    <3>1. inHand # Nothing => inHand.count.client \in Nat /\ base.count.client \in Nat
      BY DEF TypeOK, Samples, Counts
    <3> QED BY <1>0, <1>1, <1>2, <2>1, <3>1 DEF LateLeavesRoom
  <2>2. CASE inHand' \in Queued
    BY <2>2 DEF LateLeavesRoom, ReportsInOrder
  <2> QED BY <2>1, <2>2
<1> QED BY <1>3, <1>4, <1>5


(* What was read is within reach.                                          *)
LEMMA ReadInReach ==
  ASSUME TypeOK, ReadInOrder
  PROVE  Read.client <= Reach
BY ReportTypes DEF ReadInOrder, AtMost, Reach, TypeOK, Counts

(* What leaves room is within what was carried.                            *)
LEMMA WithinCarried ==
  ASSUME TypeOK, ReadInOrder, ReportsInOrder, NEW bill \in Nat, NEW from \in Reported,
         LeavesRoom(bill, from)
  PROVE  bill <= carried /\ (from.boot # boot => bill + Reach <= carried)
<1>1. /\ Reach \in Nat /\ Read.client \in Nat /\ Read.client <= Reach
      /\ carried \in Nat /\ from.count.client \in Nat
  BY ReportTypes, ReadInReach DEF TypeOK, Samples, Counts
<1>2. from.boot = boot => from.count.client <= Read.client
  BY DEF ReportsInOrder, AtMost
<1> QED BY <1>1, <1>2 DEF LeavesRoom

(* A sample that does not start over is billed what clients had carried    *)
(* since the baseline.                                                     *)
LEMMA BillFacts ==
  ASSUME TypeOK, NEW s \in Samples,
         AtMost(s.count, base.count) \/ AtMost(base.count, s.count)
  PROVE  /\ StartedOver(s) => Bill(s) = 0
         /\ ~StartedOver(s) => Bill(s) <= s.count.client - base.count.client
<1>1. /\ s.count.client \in Nat /\ s.count.probe \in Nat
      /\ base.count.client \in Nat /\ base.count.probe \in Nat
  BY DEF TypeOK, Samples, Counts
<1>2. StartedOver(s) => Bill(s) = 0
  BY DEF Bill
<1>3. ASSUME ~StartedOver(s) PROVE Bill(s) <= s.count.client - base.count.client
  <2>1. s.count.client + s.count.probe >= base.count.client + base.count.probe
    BY <1>1, <1>3 DEF StartedOver, Total
  <2>2. AtMost(base.count, s.count)
    BY <1>1, <2>1 DEF AtMost
  <2>3. Bill(s) = IF (s.count.client + s.count.probe) - (base.count.client + base.count.probe)
                       > s.count.probe - base.count.probe
                    THEN s.count.client - base.count.client ELSE 0
    BY <1>1, <1>3, <2>2 DEF Bill, AtMost, Total
  <2> QED BY <1>1, <2>2, <2>3 DEF AtMost
<1> QED BY <1>2, <1>3

(* A sample that is handled leaves room, unless it steps back.             *)
LEMMA ApplyFair ==
  ASSUME TypeOK, TypeOK', ReportsInOrder, Fair,
         NEW s, s \in Queued \/ (s = inHand /\ inHand # Nothing),
         NEW works \in BOOLEAN, ApplySample(s, works),
         UNCHANGED <<nodeVars, carried>>,
         inHand' = Nothing \/ (s \in Queued /\ inHand' = inHand)
  PROVE  Fair'
<1> SUFFICES ASSUME ~steppedBack'
             PROVE  LeavesRoom(billed, base)' /\ LateLeavesRoom'
                    /\ LeavesRoom(stored.billed, stored.base)'
  BY DEF Fair
<1>1. ~steppedBack /\ ~StepsBack(s)
  BY DEF ApplySample
<1>2. LeavesRoom(billed, base) /\ LateLeavesRoom /\ LeavesRoom(stored.billed, stored.base)
  BY <1>1 DEF Fair
<1>3. s \in Reported /\ base \in Reported /\ s \in Samples
  BY ReportTypes DEF Reported
<1>4. /\ Reach \in Nat /\ Reach' = Reach /\ boot' = boot /\ boot \in Nat
      /\ carried \in Nat /\ carried' = carried /\ billed \in Nat
      /\ s.count.client \in Nat /\ base.count.client \in Nat
      /\ s.boot \in Nat /\ base.boot \in Nat
  BY <1>3, ReportTypes DEF TypeOK, Samples, Counts, nodeVars, Reach
<1>5. base' = s /\ billed' = billed + Bill(s)
  BY DEF ApplySample
<1>6. Bill(s) \in Nat
  BY <1>3, BillType
<1>7. LeavesRoom(billed, base)'
  <2>1. CASE s.boot = base.boot
    <3>1. AtMost(s.count, base.count) \/ AtMost(base.count, s.count)
      BY <1>3, <2>1 DEF ReportsInOrder
    <3>2. Bill(s) <= s.count.client - base.count.client
      BY <1>1, <1>3, <2>1, <3>1, BillFacts DEF StepsBack
    <3>3. CASE s.boot = boot
      <4>1. billed + Reach - base.count.client <= carried
        BY <1>2, <2>1, <3>3 DEF LeavesRoom
      <4> QED BY <1>4, <1>5, <1>6, <3>2, <3>3, <4>1 DEF LeavesRoom
    <3>4. CASE s.boot # boot
      <4>1. s = inHand /\ inHand # Nothing
        BY <3>4 DEF ReportsInOrder
      <4>2. billed + (s.count.client - base.count.client) + Reach <= carried
        BY <1>2, <2>1, <3>4, <4>1 DEF LateLeavesRoom
      <4> QED BY <1>4, <1>5, <1>6, <3>2, <3>4, <4>2 DEF LeavesRoom
    <3> QED BY <3>3, <3>4
  <2>2. CASE s.boot # base.boot
    <3>1. StartedOver(s)
      BY <2>2 DEF StartedOver
    <3>2. Bill(s) = 0
      BY <3>1 DEF Bill
    <3>3. base.boot < s.boot /\ s.boot <= boot
      BY <1>1, <1>3, <1>4, <2>2 DEF StepsBack, ReportsInOrder
    <3>4. billed + Reach <= carried
      BY <1>2, <1>4, <3>3 DEF LeavesRoom
    <3> QED BY <1>4, <1>5, <3>2, <3>4 DEF LeavesRoom
  <2> QED BY <2>1, <2>2
<1>8. LateLeavesRoom'
  BY <1>4, <1>5 DEF LateLeavesRoom, ReportsInOrder
<1>9. LeavesRoom(stored.billed, stored.base)'
  <2>1. CASE stored' = stored
    BY <1>2, <1>4, <2>1 DEF LeavesRoom
  <2>2. CASE stored' # stored
    <3>1. stored'.base = base' /\ stored'.billed = billed'
      BY <2>2 DEF ApplySample, Persist
    <3> QED BY <1>7, <3>1 DEF LeavesRoom
  <2> QED BY <2>1, <2>2
<1> QED BY <1>7, <1>8, <1>9

LEMMA FairInitial == Init => FairInv
<1> SUFFICES ASSUME Init PROVE FairInv
  OBVIOUS
<1>1. /\ Zero.client = 0 /\ Zero.probe = 0 /\ Plus(Zero, Zero).client = 0
      /\ Plus(Zero, Zero).probe = 0
  BY DEF Zero, Plus
<1>2. ReadInOrder
  BY DEF Init, ReadInOrder
<1>3. Queued = {} /\ Reported = {base}
  BY DEF Init, Queued, Reported
<1>4. ReportsInOrder
  BY <1>1, <1>3 DEF Init, ReportsInOrder, AtMost
<1>5. Reach = 0
  BY <1>1 DEF Init, Reach
<1>6. Fair
  BY <1>5 DEF Init, Fair, LeavesRoom, LateLeavesRoom
<1> QED BY <1>2, <1>4, <1>6 DEF FairInv

(* The agent's run is over: all it was billed for is within what was       *)
(* carried, and what it reported last is within its reach.                 *)
LEMMA RunEnds ==
  ASSUME TypeOK, TypeOK', ReadInOrder, ReportsInOrder, Fair, AgentRestarts
  PROVE  ReadInOrder' /\ ReportsInOrder' /\ Fair'
<1>1. /\ boot' = boot + 1 /\ boot \in Nat /\ up' = FALSE /\ reading' = Nothing
      /\ last' = Zero /\ carry' = Zero /\ Zero.client = 0
      /\ UNCHANGED <<inHand, base, billed, stored, carried, steppedBack>>
  BY DEF AgentRestarts, TypeOK, Zero, headVars
<1>2. Reach' = 0
  BY <1>1 DEF Reach
<1>3. ReadInOrder'
  BY <1>1 DEF ReadInOrder
<1>4. Queued' = {}
  BY DEF AgentRestarts, Queued
<1>5. Reported' \subseteq Reported
  BY <1>1, <1>4 DEF Reported
<1>6. \A s \in Reported : s.boot \in Nat /\ s.boot <= boot /\ s.boot # boot'
  BY <1>1, ReportTypes DEF ReportsInOrder, Samples
<1>7. ReportsInOrder'
  BY <1>1, <1>4, <1>5, <1>6 DEF ReportsInOrder
<1>8. ASSUME ~steppedBack' PROVE LeavesRoom(billed, base)' /\ LateLeavesRoom'
                                 /\ LeavesRoom(stored.billed, stored.base)'
  <2>1. LeavesRoom(billed, base) /\ LateLeavesRoom /\ LeavesRoom(stored.billed, stored.base)
    BY <1>1, <1>8 DEF Fair
  <2>2. /\ billed \in Nat /\ carried \in Nat /\ stored.billed \in Nat
        /\ base \in Reported /\ stored.base \in Reported
    BY DEF TypeOK, Rows, Reported
  <2>3. billed <= carried /\ stored.billed <= carried
    BY <2>1, <2>2, WithinCarried
  <2>4. LeavesRoom(billed, base)' /\ LeavesRoom(stored.billed, stored.base)'
    BY <1>1, <1>2, <1>6, <2>2, <2>3 DEF LeavesRoom
  <2>5. LateLeavesRoom'
    <3> SUFFICES ASSUME inHand # Nothing, inHand.boot = base.boot
                 PROVE  billed + (inHand.count.client - base.count.client) + 0 <= carried
      BY <1>1, <1>2 DEF LateLeavesRoom
    <3>1. /\ inHand.count.client \in Nat /\ base.count.client \in Nat
          /\ Reach \in Nat /\ Read.client \in Nat /\ Read.client <= Reach
          /\ inHand \in Reported
      BY ReportTypes, ReadInReach DEF TypeOK, Samples, Counts, Reported
    <3>2. CASE base.boot = boot
      <4>1. inHand.count.client <= Read.client
        BY <3>1, <3>2 DEF ReportsInOrder, AtMost
      <4>2. billed + Reach - base.count.client <= carried
        BY <2>1, <3>2 DEF LeavesRoom
      <4> QED BY <2>2, <3>1, <4>1, <4>2
    <3>3. CASE base.boot # boot
      <4>1. billed + (inHand.count.client - base.count.client) + Reach <= carried
        BY <2>1, <3>3 DEF LateLeavesRoom
      <4> QED BY <2>2, <3>1, <4>1
    <3> QED BY <3>2, <3>3
  <2> QED BY <2>4, <2>5
<1>9. Fair'
  BY <1>8 DEF Fair
<1> QED BY <1>3, <1>7, <1>9

(* A step that carries nothing and adds nothing to the reach.              *)
LEMMA NoFurther ==
  ASSUME NEW m \in Nat, NEW n \in Nat, m <= n, NEW b \in Nat
  PROVE  m - n <= b - b
OBVIOUS

LEMMA FairKeptByNext ==
  ASSUME TypeOK, TypeOK', FairInv, [Next]_vars
  PROVE  FairInv'
<1> USE DEF nodeVars, linkVars, headVars, historyVars
<1> SUFFICES ASSUME ~torn' PROVE (ReadInOrder /\ ReportsInOrder /\ Fair)'
  BY DEF FairInv
<1> DEFINE Goal == (ReadInOrder /\ ReportsInOrder /\ Fair)'
<1>a. ~torn
  BY DEF Next, Events, Reports, Arrives, Rolls, Dials, Carry, RestartCore, StopCore,
         AgentRestarts, AskCore, Fold, Connect, Break, Deliver, DeliverLate, RollPeriods,
         SaveFleet, HeadRestarts, MonthTurns, vars, TypeOK
<1>b. ReadInOrder /\ ReportsInOrder /\ Fair
  BY <1>a DEF FairInv
<1>c. /\ Read \in Counts /\ Read' \in Counts /\ Reach \in Nat /\ Reach' \in Nat
      /\ carried \in Nat /\ carried' \in Nat
      /\ Read.client = carry.client + last.client /\ Read.probe = carry.probe + last.probe
  BY ReportTypes, NextReportTypes DEF TypeOK
<1>d. /\ counter \in Counts /\ last \in Counts /\ carry \in Counts
      /\ reading # Nothing => reading \in Counts
  BY DEF TypeOK
<1>e. AtMost(Read, Read) /\ AtMost(last, last) /\ AtMost(counter, counter)
  BY <1>c, <1>d DEF AtMost, Counts
<1>1. ASSUME NEW c \in Counts, Carry(c) PROVE Goal
  <2>1. /\ counter'.client = counter.client + c.client /\ counter'.probe = counter.probe + c.probe
        /\ c.client \in Nat /\ c.probe \in Nat /\ carried' = carried + c.client /\ up /\ up'
        /\ UNCHANGED <<boot, last, carry, reading, queue, inHand, base, billed, stored, steppedBack>>
    BY <1>1, <1>d, CountsAdd DEF Carry
  <2>2. Read' = Read /\ Reach' = Reach + c.client
    <3>1. carry.client \in Nat /\ counter.client \in Nat
      BY <1>d DEF Counts
    <3>2. Reach' = carry.client + counter'.client /\ Reach = carry.client + counter.client
      BY <2>1 DEF Reach
    <3> QED BY <2>1, <3>1, <3>2 DEF Read
  <2>3. ReadInOrder'
    BY <1>b, <1>d, <2>1 DEF ReadInOrder, AtMost, Counts
  <2>4. Queued' = Queued /\ Reported' = Reported
    BY <2>1 DEF Queued, Reported
  <2>5. ReportsInOrder'
    BY <1>b, <1>e, <2>1, <2>2, <2>4, OrderKept
  <2>6. Reach' - Reach <= carried' - carried
    BY <1>c, <2>1, <2>2
  <2>7. Fair'
    BY <1>b, <2>1, <2>6, FairKept
  <2> QED BY <2>3, <2>5, <2>7
<1>2. ASSUME NEW works \in BOOLEAN, RestartCore(works) PROVE Goal
  <2>1. /\ reading = Nothing /\ reading' = Nothing /\ last' = Zero /\ counter' = Zero
        /\ carry' = Plus(carry, last)
        /\ UNCHANGED <<boot, queue, inHand, base, billed, stored, steppedBack, carried>>
    BY <1>2, <1>d DEF RestartCore, TypeOK
  <2>2. /\ carry'.client = carry.client + last.client /\ carry'.probe = carry.probe + last.probe
        /\ Zero.client = 0 /\ Zero.probe = 0 /\ carry.client \in Nat /\ last.client \in Nat
        /\ carry.probe \in Nat /\ last.probe \in Nat /\ counter.client \in Nat
    BY <1>d, <2>1, CountsAdd
  <2>3. AtMost(Read, Read') /\ Read'.client = Read.client
    BY <2>1, <2>2 DEF Read, AtMost, Plus
  <2>4. Reach' = Read.client
    BY <1>c, <2>1, <2>2 DEF Reach
  <2>5. Reach' - Reach <= carried' - carried
    BY <1>b, <1>c, <2>1, <2>4, ReadInReach DEF Counts
  <2>6. ReadInOrder'
    BY <2>1, <2>2 DEF ReadInOrder, AtMost
  <2>7. Queued' = Queued /\ Reported' = Reported
    BY <2>1 DEF Queued, Reported
  <2>8. ReportsInOrder'
    BY <1>b, <2>1, <2>3, <2>7, OrderKept
  <2>9. Fair'
    BY <1>b, <2>1, <2>5, FairKept
  <2> QED BY <2>6, <2>8, <2>9
<1>3. ASSUME NEW works \in BOOLEAN, StopCore \/ Connect \/ MonthTurns \/ RollPeriods(works)
               \/ SaveFleet(works) \/ UNCHANGED vars
      PROVE  Goal
  <2>1. /\ UNCHANGED <<boot, last, carry, reading, queue, inHand, base, billed, steppedBack, carried>>
        /\ (UNCHANGED <<up, counter>>) \/ (up /\ ~up')
    BY <1>3 DEF StopCore, Connect, MonthTurns, RollPeriods, SaveFleet, vars
  <2>2. Read' = Read
    BY <2>1 DEF Read
  <2>3. Reach' <= Reach
    <3>1. CASE UNCHANGED <<up, counter>>
      <4>1. Reach' = Reach
        BY <2>1, <3>1 DEF Reach
      <4> QED BY <1>c, <4>1
    <3>2. CASE up /\ ~up'
      BY <1>b, <1>c, <1>d, <2>1, <3>2 DEF Reach, ReadInOrder, AtMost, Counts
    <3> QED BY <2>1, <3>1, <3>2
  <2>4. Reach' - Reach <= carried' - carried
    <3>1. carried' = carried
      BY <2>1
    <3>2. Reach' \in Nat /\ Reach \in Nat /\ Reach' <= Reach /\ carried \in Nat
      BY <1>c, <2>3
    <3> QED BY <3>1, <3>2, NoFurther
  <2>5. ReadInOrder'
    BY <1>b, <2>1 DEF ReadInOrder
  <2>6. stored' = stored \/ (stored'.base = base /\ stored'.billed = billed)
    BY <1>3, <2>1 DEF StopCore, Connect, MonthTurns, RollPeriods, SaveFleet, Persist, vars
  <2>7. Queued' = Queued /\ Reported' \subseteq Reported
    BY <2>1, <2>6 DEF Queued, Reported
  <2>8. ReportsInOrder'
    BY <1>b, <1>e, <2>1, <2>2, <2>7, OrderKept
  <2>9. Fair'
    BY <1>b, <2>1, <2>4, <2>6, FairKept
  <2> QED BY <2>5, <2>8, <2>9
<1>4. ASSUME AgentRestarts PROVE Goal
  BY <1>4, <1>b, RunEnds
<1>5. ASSUME NEW answers \in BOOLEAN, AskCore(answers) PROVE Goal
  <2>1. /\ reading = Nothing
        /\ UNCHANGED <<boot, up, counter, last, carry, inHand, base, billed, stored, steppedBack, carried>>
    BY <1>5 DEF AskCore
  <2>2. Read' = Read
    BY <2>1 DEF Read
  <2>3. (up /\ reading' = counter /\ queue' = queue) \/ (Collect(Zero) /\ reading' = reading)
    BY <1>5 DEF AskCore
  <2>4. Reach' = Reach
    BY <2>1, <2>3 DEF Reach
  <2>5. ReadInOrder'
    BY <1>b, <1>e, <2>1, <2>3 DEF ReadInOrder
  <2>6. ReportsInOrder'
    <3>1. CASE queue' = queue
      <4>1. Queued' = Queued /\ Reported' = Reported
        BY <2>1, <3>1 DEF Queued, Reported
      <4> QED BY <1>b, <1>e, <2>1, <2>2, <4>1, OrderKept
    <3>2. CASE Collect(Zero)
      <4>1. Queued' \subseteq Queued \cup {[boot |-> boot, count |-> Zero]} /\ Zero \in Counts
        BY <1>d, <3>2, CollectFacts, CountsAdd DEF Queued
      <4>2. Reported' \subseteq Reported \cup {[boot |-> boot, count |-> Zero]}
        BY <2>1, <4>1 DEF Reported
      <4> QED BY <1>b, <1>e, <2>1, <2>2, <4>1, <4>2, OrderGrows
    <3> QED BY <2>3, <3>1, <3>2
  <2>7. Fair'
    BY <1>b, <1>c, <2>1, <2>4, FairKept
  <2> QED BY <2>5, <2>6, <2>7
<1>6. ASSUME Fold PROVE Goal
  <2>1. /\ reading # Nothing /\ reading' = Nothing /\ last' = reading /\ reading \in Counts
        /\ UNCHANGED <<boot, up, counter, carry, inHand, base, billed, stored, steppedBack, carried>>
    BY <1>6, <1>d DEF Fold
  <2>2. Read' = Plus(carry, reading)
    BY <2>1 DEF Read
  <2>3. AtMost(Read, Read')
    BY <1>b, <1>d, <2>1 DEF Read, Plus, AtMost, Counts, ReadInOrder
  <2>4. Reach' = Reach
    BY <2>1 DEF Reach
  <2>5. ReadInOrder'
    BY <1>b, <2>1 DEF ReadInOrder
  <2>6. Collect(Read')
    BY <1>6, <2>2 DEF Fold
  <2>7. Queued' \subseteq Queued \cup {[boot |-> boot, count |-> Read']}
    BY <1>c, <2>6, CollectFacts DEF Queued
  <2>8. Reported' \subseteq Reported \cup {[boot |-> boot, count |-> Read']}
    BY <2>1, <2>7 DEF Reported
  <2>9. ReportsInOrder'
    BY <1>b, <1>c, <2>1, <2>3, <2>7, <2>8, OrderGrows
  <2>10. Fair'
    BY <1>b, <1>c, <2>1, <2>4, FairKept
  <2> QED BY <2>5, <2>9, <2>10
<1>7. ASSUME Break PROVE Goal
  <2>1. /\ reading' = Nothing /\ queue' = <<>>
        /\ UNCHANGED <<boot, up, counter, last, carry, base, billed, stored, steppedBack, carried>>
    BY <1>7 DEF Break
  <2>2. inHand' \in {inHand} \cup Queued
    BY <1>7, DeliverFacts DEF Break
  <2>3. Read' = Read
    BY <2>1 DEF Read
  <2>4. Reach' <= Reach
    BY <1>b, <1>c, <1>d, <2>1 DEF Reach, ReadInOrder, AtMost, Counts
  <2>5. Reach' - Reach <= carried' - carried
    <3>1. carried' = carried
      BY <2>1
    <3>2. Reach' \in Nat /\ Reach \in Nat /\ Reach' <= Reach /\ carried \in Nat
      BY <1>c, <2>4
    <3> QED BY <3>1, <3>2, NoFurther
  <2>6. ReadInOrder'
    BY <1>b, <2>1 DEF ReadInOrder
  <2>7. Queued' \subseteq Queued /\ Reported' \subseteq Reported
    BY <2>1, <2>2 DEF Queued, Reported
  <2>8. ReportsInOrder'
    BY <1>b, <1>e, <2>1, <2>3, <2>7, OrderKept
  <2>9. Fair'
    BY <1>b, <2>1, <2>2, <2>5, FairKept
  <2> QED BY <2>6, <2>8, <2>9
<1>8. ASSUME NEW works \in BOOLEAN, NEW s,
             \/ Deliver(works) /\ s = Head(queue)
             \/ DeliverLate(works) /\ s = inHand
      PROVE  Goal
  <2>1. /\ UNCHANGED <<nodeVars, carried>> /\ ApplySample(s, works)
        /\ UNCHANGED <<boot, up, counter, last, carry, reading>>
    BY <1>8 DEF Deliver, DeliverLate
  <2>2. /\ s \in Queued \/ (s = inHand /\ inHand # Nothing)
        /\ inHand' = Nothing \/ (s \in Queued /\ inHand' = inHand)
        /\ Queued' \subseteq Queued
    BY <1>8, DeliverFacts DEF Deliver, DeliverLate, Queued
  <2>3. Fair'
    BY <1>b, <2>1, <2>2, ApplyFair
  <2>4. ReadInOrder' /\ Read' = Read
    BY <1>b, <2>1 DEF ReadInOrder, Read
  <2>5. base' = s /\ (stored'.base = s \/ stored' = stored) /\ s \in Reported
    BY <2>1, <2>2 DEF ApplySample, Persist, Reported
  <2>6. Reported' \subseteq Reported
    BY <2>2, <2>5 DEF Reported
  <2>7. ReportsInOrder'
    BY <1>b, <1>e, <2>1, <2>2, <2>4, <2>6, OrderKept
  <2> QED BY <2>3, <2>4, <2>7
<1>9. ASSUME HeadRestarts PROVE Goal
  <2>1. /\ reading' = Nothing /\ queue' = <<>> /\ inHand' = Nothing
        /\ base' = stored.base /\ billed' = stored.billed
        /\ UNCHANGED <<boot, up, counter, last, carry, stored, steppedBack, carried>>
    BY <1>9 DEF HeadRestarts
  <2>2. Read' = Read
    BY <2>1 DEF Read
  <2>3. Reach' <= Reach
    BY <1>b, <1>c, <1>d, <2>1 DEF Reach, ReadInOrder, AtMost, Counts
  <2>4. Reach' - Reach <= carried' - carried
    <3>1. carried' = carried
      BY <2>1
    <3>2. Reach' \in Nat /\ Reach \in Nat /\ Reach' <= Reach /\ carried \in Nat
      BY <1>c, <2>3
    <3> QED BY <3>1, <3>2, NoFurther
  <2>5. ReadInOrder'
    BY <1>b, <2>1 DEF ReadInOrder
  <2>6. Queued' \subseteq Queued /\ Reported' \subseteq Reported
    BY <2>1 DEF Queued, Reported
  <2>7. ReportsInOrder'
    BY <1>b, <1>e, <2>1, <2>2, <2>6, OrderKept
  <2>8. ASSUME ~steppedBack PROVE LeavesRoom(stored.billed, stored.base)'
    <3>1. stored.billed \in Nat /\ stored.base \in Samples /\ LeavesRoom(stored.billed, stored.base)
      BY <1>b, <2>8 DEF TypeOK, Rows, Fair
    <3> QED BY <2>1, <2>4, <3>1, RoomKept DEF LeavesRoom
  <2>9. Fair'
    BY <2>1, <2>8 DEF Fair, LateLeavesRoom, LeavesRoom
  <2> QED BY <2>5, <2>7, <2>9
<1>10. [client |-> 1, probe |-> 0] \in Counts /\ [client |-> 0, probe |-> 1] \in Counts
  BY DEF Counts
<1> QED
  BY <1>1, <1>2, <1>3, <1>4, <1>5, <1>6, <1>7, <1>8, <1>9, <1>10
  DEF Next, Events, Reports, Arrives, Rolls, Dials

(* A donor's bill stays within what clients had the node carry, whatever   *)
(* is lost or restarted, until a core restarts under a Sample or a sample  *)
(* is handled behind its time (ApplySample, restartXray, Sample).          *)
THEOREM BillsAreFair == Spec => []NeverOverbilled
<1>1. TypeOK /\ FairInv => NeverOverbilled
  <2> SUFFICES ASSUME TypeOK, FairInv, ~torn, ~steppedBack PROVE billed <= carried
    BY DEF NeverOverbilled
  <2>1. ReadInOrder /\ ReportsInOrder /\ LeavesRoom(billed, base)
    BY DEF FairInv, Fair
  <2> QED BY <2>1, WithinCarried DEF TypeOK, Reported
<1>2. TypeOK /\ TypeOK' /\ FairInv /\ [Next]_vars => FairInv'
  BY FairKeptByNext
<1> QED BY <1>1, <1>2, MeteringTyped, FairInitial, PTL DEF Spec

=============================================================================
