--------------------------- MODULE FailoverProofs ---------------------------
(* What the lease protects, for every number of replicas, duration, call   *)
(* timeout and clock skew; and that a replica which loaded what is stored  *)
(* after the others' last change works on everything that was acknowledged.*)
EXTENDS Failover, TLAPS

(* A replica that leads, or is about to learn that it does, on a renewal   *)
(* that every clock takes for valid is the holder.                         *)
LeadersHold ==
  \A r \in Replicas :
    (leading[r] \/ phase[r] = "written") /\ stamp[r] + Skew <= Duration => holder = r

(* The lease is as old as what its holder last had accepted.               *)
HolderStamped == \A r \in Replicas : holder = r => age = stamp[r]

(* Who may still write found the lease free, its own, or expired by some   *)
(* clock, and nothing has happened to it but age.                          *)
WritersMayWrite ==
  \A r \in Replicas :
    phase[r] = "writing" /\ current[r] => holder \in {Nobody, r} \/ age + Skew > Duration

(* The inductive invariant.                                                *)
LeadershipInv ==
  /\ LeadershipTypeOK
  /\ LeadersHold
  /\ HolderStamped
  /\ WritersMayWrite

LEMMA LeadershipInitial == LeadershipInit => LeadershipInv
BY LeadershipAssumption
DEF LeadershipInit, LeadershipInv, LeadershipTypeOK, LeadersHold, HolderStamped,
    WritersMayWrite, Steps, Ages

(* Ages only grow, and two equal ones stay equal.                          *)
LEMMA AgesGrow ==
  ASSUME NEW a \in Ages
  PROVE  Older(a) \in Ages /\ Older(a) >= a
BY LeadershipAssumption DEF Older, Ages

(* Run takes an outcome: the flag changes only for r.                      *)
LEMMA SettleTypes ==
  ASSUME LeadershipTypeOK, NEW r \in Replicas, NEW held \in BOOLEAN, Settle(r, held)
  PROVE  /\ leading' = [leading EXCEPT ![r] = held] /\ leading' \in [Replicas -> BOOLEAN]
         /\ phase' \in [Replicas -> Steps]
         /\ phase'[r] \in {"idle", "marking"}
         /\ \A s \in Replicas \ {r} : phase'[s] = phase[s]
         /\ waited' \in [Replicas -> 0..CallTimeout]
BY LeadershipAssumption DEF LeadershipTypeOK, Settle, Call, Steps

LEMMA CallTypes ==
  ASSUME LeadershipTypeOK, NEW r \in Replicas, NEW step \in Steps, Call(r, step)
  PROVE  /\ phase' \in [Replicas -> Steps]
         /\ phase'[r] = step
         /\ \A s \in Replicas \ {r} : phase'[s] = phase[s]
         /\ waited' \in [Replicas -> 0..CallTimeout]
BY LeadershipAssumption DEF LeadershipTypeOK, Call

LEMMA TickKeeps == LeadershipInv /\ Tick => LeadershipInv'
<1> SUFFICES ASSUME LeadershipInv, Tick PROVE LeadershipInv'
  OBVIOUS
<1> USE DEF LeadershipInv
<1>1. age' = Older(age) /\ age \in Ages /\ age' \in Ages /\ age' >= age
  BY AgesGrow DEF Tick, LeadershipTypeOK
<1>2. \A r \in Replicas : /\ stamp'[r] = Older(stamp[r]) /\ stamp[r] \in Ages
                          /\ stamp'[r] \in Ages /\ stamp'[r] >= stamp[r]
  BY AgesGrow DEF Tick, LeadershipTypeOK
<1>3. waited' \in [Replicas -> 0..CallTimeout]
  <2>1. \A r \in Replicas : waited[r] \in 0..CallTimeout
    BY DEF LeadershipTypeOK
  <2>2. \A r \in Replicas :
          (IF Calling(r) THEN waited[r] + 1 ELSE 0) \in 0..CallTimeout
    BY <2>1, LeadershipAssumption DEF Tick
  <2> QED
    BY <2>2 DEF Tick
<1>4. LeadershipTypeOK'
  BY <1>1, <1>2, <1>3 DEF Tick, LeadershipTypeOK
<1>5. LeadersHold'
  BY <1>2, LeadershipAssumption DEF Tick, LeadersHold, Ages
<1>6. HolderStamped'
  BY <1>1, <1>2 DEF Tick, HolderStamped
<1>7. WritersMayWrite'
  BY <1>1, LeadershipAssumption DEF Tick, WritersMayWrite, Ages
<1> QED
  BY <1>4, <1>5, <1>6, <1>7

LEMMA AttemptKeeps ==
  ASSUME LeadershipInv, NEW r \in Replicas, Attempts(r)
  PROVE  LeadershipInv'
<1> USE DEF LeadershipInv, lease
<1>1. CASE BeginAttempt(r)
  <2>1. Call(r, "reading") /\ "reading" \in Steps
    BY <1>1 DEF BeginAttempt, Steps
  <2>2. LeadershipTypeOK'
    BY <1>1, <2>1, CallTypes DEF BeginAttempt, LeadershipTypeOK
  <2> QED
    BY <1>1, <2>1, <2>2, CallTypes
    DEF BeginAttempt, LeadersHold, HolderStamped, WritersMayWrite
<1>2. CASE ReadReturns(r)
  <2>1. CASE MayTake(r) /\ Call(r, "writing") /\ current' = [current EXCEPT ![r] = TRUE]
             /\ UNCHANGED leading
    <3>1. "writing" \in Steps
      BY DEF Steps
    <3>2. LeadershipTypeOK'
      BY <1>2, <2>1, <3>1, CallTypes DEF ReadReturns, LeadershipTypeOK
    <3>3. holder \in {Nobody, r} \/ age + Skew > Duration
      BY <2>1, LeadershipAssumption DEF MayTake, Expired, LeadershipTypeOK, Ages
    <3>4. WritersMayWrite'
      BY <1>2, <2>1, <3>1, <3>3, CallTypes
      DEF ReadReturns, WritersMayWrite, LeadershipTypeOK
    <3> QED
      BY <1>2, <2>1, <3>1, <3>2, <3>4, CallTypes DEF ReadReturns, LeadersHold, HolderStamped
  <2>2. CASE Settle(r, FALSE) /\ UNCHANGED current
    <3>1. LeadershipTypeOK'
      BY <1>2, <2>2, SettleTypes DEF ReadReturns, LeadershipTypeOK
    <3> QED
      BY <1>2, <2>2, <3>1, SettleTypes
      DEF ReadReturns, LeadershipTypeOK, LeadersHold, HolderStamped, WritersMayWrite
  <2> QED
    BY <1>2, <2>1, <2>2 DEF ReadReturns
<1>3. CASE WriteLands(r)
  <2>1. /\ waited[r] \in Ages
        /\ phase'[r] = "written" /\ stamp'[r] = waited[r]
        /\ \A s \in Replicas : ~current'[s]
        /\ \A s \in Replicas \ {r} : phase'[s] = phase[s] /\ stamp'[s] = stamp[s]
    BY <1>3, LeadershipAssumption DEF WriteLands, LeadershipTypeOK, Ages
  <2>2. LeadershipTypeOK'
    BY <1>3, <2>1 DEF WriteLands, LeadershipTypeOK, Steps
  <2>3. LeadersHold'
    <3> SUFFICES ASSUME NEW s \in Replicas \ {r},
                        leading[s] \/ phase[s] = "written", stamp[s] + Skew <= Duration
                 PROVE  FALSE
      BY <1>3, <2>1 DEF WriteLands, LeadersHold
    <3>1. holder = s /\ age = stamp[s]
      BY DEF LeadersHold, HolderStamped
    <3>2. age + Skew > Duration
      BY <1>3, <3>1, LeadershipAssumption DEF WriteLands, WritersMayWrite
    <3> QED
      BY <3>1, <3>2, LeadershipAssumption DEF LeadershipTypeOK, Ages
  <2>4. HolderStamped'
    BY <1>3, <2>1 DEF WriteLands, HolderStamped
  <2>5. WritersMayWrite'
    BY <2>1 DEF WritersMayWrite
  <2> QED
    BY <2>2, <2>3, <2>4, <2>5
<1>4. CASE WriteReturns(r)
  <2>1. LeadershipTypeOK'
    BY <1>4, SettleTypes DEF WriteReturns, LeadershipTypeOK
  <2> QED
    BY <1>4, <2>1, SettleTypes
    DEF WriteReturns, LeadershipTypeOK, LeadersHold, HolderStamped, WritersMayWrite
<1>5. CASE WriteRefused(r)
  <2>1. LeadershipTypeOK'
    BY <1>5, SettleTypes DEF WriteRefused, LeadershipTypeOK
  <2> QED
    BY <1>5, <2>1, SettleTypes
    DEF WriteRefused, LeadershipTypeOK, LeadersHold, HolderStamped, WritersMayWrite
<1>6. CASE Marked(r)
  <2>1. Call(r, "idle") /\ "idle" \in Steps
    BY <1>6 DEF Marked, Steps
  <2>2. LeadershipTypeOK'
    BY <1>6, <2>1, CallTypes DEF Marked, LeadershipTypeOK
  <2> QED
    BY <1>6, <2>1, <2>2, CallTypes DEF Marked, LeadersHold, HolderStamped, WritersMayWrite
<1> QED
  BY <1>1, <1>2, <1>3, <1>4, <1>5, <1>6 DEF Attempts

LEMMA TroubleKeeps ==
  ASSUME LeadershipInv, NEW r \in Replicas, Troubles(r), Trouble
  PROVE  LeadershipInv'
<1> USE DEF LeadershipInv, lease
<1>1. troubles' \in Nat
  BY DEF Trouble, LeadershipTypeOK
<1>2. CASE CallFails(r)
  <2>1. LeadershipTypeOK'
    BY <1>1, <1>2, SettleTypes DEF CallFails, LeadershipTypeOK
  <2> QED
    BY <1>2, <2>1, SettleTypes
    DEF CallFails, LeadershipTypeOK, LeadersHold, HolderStamped, WritersMayWrite
<1>3. CASE MarkFails(r)
  <2>1. Call(r, "idle") /\ "idle" \in Steps
    BY <1>3 DEF MarkFails, Steps
  <2>2. LeadershipTypeOK'
    BY <1>1, <1>3, <2>1, CallTypes DEF MarkFails, LeadershipTypeOK
  <2> QED
    BY <1>3, <2>1, <2>2, CallTypes
    DEF MarkFails, LeadersHold, HolderStamped, WritersMayWrite
<1>4. CASE Crash(r) \/ Replace(r)
  <2>1. /\ Call(r, "idle") /\ "idle" \in Steps
        /\ leading' = [leading EXCEPT ![r] = FALSE]
        /\ UNCHANGED <<age, current, stamp>>
        /\ holder' = holder \/ (holder = r /\ holder' = Gone)
    BY <1>4 DEF Crash, Replace, StartsOver, Steps
  <2>2. LeadershipTypeOK'
    BY <1>1, <1>4, <2>1, CallTypes DEF Crash, Replace, StartsOver, LeadershipTypeOK
  <2>3. \A s \in Replicas : leading'[s] => leading[s] /\ s # r
    BY <2>1 DEF LeadershipTypeOK
  <2>4. LeadersHold'
    BY <2>1, <2>3, CallTypes DEF LeadersHold
  <2>5. HolderStamped'
    BY <2>1, LeadershipAssumption DEF HolderStamped
  <2>6. WritersMayWrite'
    BY <2>1, CallTypes, LeadershipAssumption DEF WritersMayWrite
  <2> QED
    BY <2>2, <2>4, <2>5, <2>6
<1> QED
  BY <1>2, <1>3, <1>4 DEF Troubles

LEMMA LeadershipStep == LeadershipInv /\ [LeadershipNext]_leadershipVars => LeadershipInv'
<1> SUFFICES ASSUME LeadershipInv, [LeadershipNext]_leadershipVars PROVE LeadershipInv'
  OBVIOUS
<1>1. CASE UNCHANGED leadershipVars
  BY <1>1 DEF leadershipVars, lease, own, LeadershipInv, LeadershipTypeOK, LeadersHold,
     HolderStamped, WritersMayWrite
<1> QED
  BY <1>1, TickKeeps, AttemptKeeps, TroubleKeeps DEF LeadershipNext

LEMMA LeadershipInductive == LeadershipSpec => []LeadershipInv
BY LeadershipInitial, LeadershipStep, PTL DEF LeadershipSpec

(* Type correctness: no call outlasts its timeout.                         *)
THEOREM LeadershipTyped == LeadershipSpec => []LeadershipTypeOK
<1>1. LeadershipInv => LeadershipTypeOK
  BY DEF LeadershipInv
<1> QED
  BY <1>1, LeadershipInductive, PTL

(* A leader whose renewal no clock takes for expired holds the lease, and  *)
(* so is the only such leader (tryAcquire, expired).                       *)
THEOREM FreshLeadersHold == LeadershipSpec => []FreshLeaderHolds
<1>1. LeadershipInv => FreshLeaderHolds
  BY DEF LeadershipInv, LeadersHold, FreshLeaderHolds
<1> QED
  BY <1>1, LeadershipInductive, PTL

-----------------------------------------------------------------------------
(* The head's state on top of the election.                                *)

(* Who is not behind has everything that was promised, and so does the     *)
(* store when it is whole.                                                 *)
UpToDate ==
  /\ \A r \in Replicas \ behind : memory[r] = promised
  /\ whole => store = promised

(* The inductive invariant.                                                *)
FailoverInv == TypeOK /\ LeadershipInv /\ UpToDate

(* A change is saved whole or not at all.                                  *)
LEMMA ChangeKeeps ==
  ASSUME FailoverInv, NEW r \in Replicas, NEW u \in Users, Issue(r, u) \/ Revoke(r, u)
  PROVE  FailoverInv'
<1> USE DEF FailoverInv
<1>1. troubles' \in Nat /\ UNCHANGED <<lease, own>>
  BY DEF Issue, Revoke, Save, Trouble, TypeOK, LeadershipTypeOK
<1>2. LeadershipInv'
  BY <1>1 DEF lease, own, LeadershipInv, LeadershipTypeOK, LeadersHold, HolderStamped,
     WritersMayWrite
<1>3. /\ memory' \in [Replicas -> SUBSET Users] /\ promised' \subseteq Users
      /\ memory[r] = promised => memory'[r] = promised'
  BY DEF Issue, Revoke, TypeOK
<1>4. /\ store' \in {store, memory'[r]} /\ whole' \in BOOLEAN
      /\ whole' => r \notin behind /\ store' = memory'[r]
      /\ behind' = behind \cup (Replicas \ {r})
  BY DEF Issue, Revoke, Save, Changes
<1>5. TypeOK'
  BY <1>2, <1>3, <1>4 DEF TypeOK, LeadershipInv
<1>6. UpToDate'
  BY <1>3, <1>4 DEF UpToDate
<1> QED
  BY <1>2, <1>5, <1>6

(* A start: what is loaded is what is promised, or r counts as behind.     *)
LEMMA BootKeeps ==
  ASSUME FailoverInv, NEW r \in Replicas, Boot(r)
  PROVE  FailoverInv'
<1> USE DEF FailoverInv
<1>1. LeadershipInv'
  BY TroubleKeeps DEF Boot, Troubles
<1>2. /\ memory' = [memory EXCEPT ![r] = store]
      /\ behind' = IF whole THEN behind \ {r} ELSE behind \cup {r}
      /\ UNCHANGED <<store, promised, whole>>
  BY DEF Boot, CatchesUp
<1>3. TypeOK'
  BY <1>1, <1>2 DEF TypeOK, LeadershipInv
<1>4. UpToDate'
  BY <1>2 DEF UpToDate, TypeOK
<1> QED
  BY <1>1, <1>3, <1>4

LEMMA ElectsKeeps == FailoverInv /\ Elects => FailoverInv'
<1> SUFFICES ASSUME FailoverInv, Elects PROVE FailoverInv'
  OBVIOUS
<1>1. LeadershipInv'
  BY TickKeeps, AttemptKeeps, TroubleKeeps DEF Elects, Troubles, FailoverInv
<1> QED
  BY <1>1 DEF Elects, state, TypeOK, LeadershipInv, UpToDate, FailoverInv

LEMMA FailoverInitial == Init => FailoverInv
BY LeadershipInitial DEF Init, TypeOK, LeadershipInv, UpToDate, FailoverInv

LEMMA FailoverStutters == FailoverInv /\ UNCHANGED failoverVars => FailoverInv'
BY DEF failoverVars, state, leadershipVars, lease, own, TypeOK, UpToDate, LeadershipInv,
   LeadershipTypeOK, LeadersHold, HolderStamped, WritersMayWrite, FailoverInv

LEMMA FailoverInductive == Spec => []FailoverInv
<1>1. FailoverInv /\ [Next]_failoverVars => FailoverInv'
  BY ChangeKeeps, BootKeeps, ElectsKeeps, FailoverStutters DEF Next
<1> QED
  BY <1>1, FailoverInitial, PTL DEF Spec

(* Type correctness.                                                       *)
THEOREM FailoverTyped == Spec => []TypeOK
<1>1. FailoverInv => TypeOK
  BY DEF FailoverInv
<1> QED
  BY <1>1, FailoverInductive, PTL

(* The lease protects a leader that renews in time, whatever the replicas  *)
(* do meanwhile (tryAcquire, expired).                                     *)
THEOREM FreshLeadersHoldAtWork == Spec => []FreshLeaderHolds
<1>1. FailoverInv => FreshLeaderHolds
  BY DEF FailoverInv, LeadershipInv, LeadersHold, FreshLeaderHolds
<1> QED
  BY <1>1, FailoverInductive, PTL

(* Any number of replicas: one that loaded after the others' last change,  *)
(* if that was saved, acts on every change the head acknowledged (Open,    *)
(* Save).                                                                  *)
THEOREM ReplicasKeepPromises == Spec => []ActsOnWhatWasPromised
<1>1. FailoverInv => ActsOnWhatWasPromised
  BY DEF FailoverInv, UpToDate, ActsOnWhatWasPromised
<1> QED
  BY <1>1, FailoverInductive, PTL

(* One replica, which is what the chart deploys by default, is behind only *)
(* after it restarted on a store that was not whole.                       *)
THEOREM OneReplicaIsBehindByRestart ==
  ASSUME NEW CONSTANT only, Replicas = {only}
  PROVE  Spec => [][(only \in behind' =>
                       only \in behind \/ (Boot(only) /\ ~whole))]_failoverVars
<1>1. Next /\ only \in behind' => only \in behind \/ (Boot(only) /\ ~whole)
  BY DEF Next, Elects, state, Issue, Revoke, Changes, Boot, CatchesUp
<1> QED
  BY <1>1, PTL DEF Spec

=============================================================================
