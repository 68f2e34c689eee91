----------------------------- MODULE Leadership -----------------------------
(* The election among replicas of the head, over a lease object in the     *)
(* cluster's API, and the label by which the Service finds the winner.     *)
(*                                                                         *)
(* Time is counted in the elector's renewal periods.  Every time stamp is  *)
(* an age, which stops once every clock agrees that it is expired, so time *)
(* itself needs no bound.                                                  *)
(* A call to the API takes any time up to the client's timeout, and what   *)
(* it does happens at some moment in between.  A replica is otherwise      *)
(* prompt: its ticker is served before the next period ends.               *)
(*                                                                         *)
(* resourceVersion is a flag on what a replica has read: the API refuses a *)
(* write when the lease changed since.  The poll of WhileLeading, a second *)
(* long, is below the unit of time: its loops run where `leading' holds.   *)
(***************************************************************************)
EXTENDS Integers, FiniteSets

CONSTANTS
  Replicas,     \* pods of the head
  Nobody,       \* holder of a lease that does not exist
  Gone,         \* a pod that was replaced while it held the lease
  Duration,     \* how long a renewal lasts, in periods
  CallTimeout,  \* how long a call may take, in periods
  Skew,         \* how far apart two pods' clocks may be, in periods
  MaxTroubles   \* bound on what goes wrong: see Trouble

ASSUME LeadershipAssumption ==
  /\ Nobody \notin Replicas /\ Gone \notin Replicas /\ Nobody # Gone
  /\ Duration \in Nat /\ Skew \in Nat /\ MaxTroubles \in Nat
  /\ CallTimeout \in 0..Duration

VARIABLES
  holder,       \* the lease: its holder, and
  age,          \*   the age of its renewTime
  phase,        \* what a replica's Run is doing: see Steps
  waited,       \* age of the call it waits for
  current,      \* the lease has not changed since it read it
  ticked,       \* its ticker has fired
  leading,      \* its `leader' flag
  marked,       \* its pod has the label the Service selects
  stamp,        \* history: the age of the last renewTime it had accepted
  troubles

lease == <<holder, age>>
own == <<phase, waited, current, ticked, leading, marked, stamp>>
leadershipVars == <<lease, own, troubles>>

(* idle: between attempts; reading: getting the lease; writing: creating   *)
(* or replacing it; written: the API has done so, the answer is under way; *)
(* marking: patching the pod's label after the flag changed.               *)
Steps == {"idle", "reading", "writing", "written", "marking"}
Calling(r) == phase[r] # "idle"
Ages == 0..(Duration + Skew + 1)

LeadershipTypeOK ==
  /\ holder \in Replicas \cup {Nobody, Gone}
  /\ age \in Ages
  /\ phase \in [Replicas -> Steps]
  /\ waited \in [Replicas -> 0..CallTimeout]
  /\ current \in [Replicas -> BOOLEAN]
  /\ ticked \in [Replicas -> BOOLEAN]
  /\ leading \in [Replicas -> BOOLEAN]
  /\ marked \in [Replicas -> BOOLEAN]
  /\ stamp \in [Replicas -> Ages]
  /\ troubles \in Nat

LeadershipInit ==
  /\ holder = Nobody
  /\ age = Duration + Skew + 1
  /\ phase = [r \in Replicas |-> "idle"]
  /\ waited = [r \in Replicas |-> 0]
  /\ current = [r \in Replicas |-> FALSE]
  /\ ticked = [r \in Replicas |-> TRUE]
  /\ leading = [r \in Replicas |-> FALSE]
  /\ marked = [r \in Replicas |-> FALSE]
  /\ stamp = [r \in Replicas |-> Duration + Skew + 1]
  /\ troubles = MaxTroubles

(* What fails, crashes or is replaced takes one of MaxTroubles.            *)
Trouble == troubles > 0 /\ troubles' = troubles - 1

-----------------------------------------------------------------------------
(* Time.                                                                   *)

Older(a) == IF a > Duration + Skew THEN a ELSE a + 1

(* A period passes.  No call outlasts its timeout, and no replica sleeps   *)
(* through its ticker; a ticker that fires during a call fires once.       *)
Tick ==
  /\ \A r \in Replicas : IF Calling(r) THEN waited[r] < CallTimeout ELSE ~ticked[r]
  /\ age' = Older(age)
  /\ stamp' = [r \in Replicas |-> Older(stamp[r])]
  /\ waited' = [r \in Replicas |-> IF Calling(r) THEN waited[r] + 1 ELSE 0]
  /\ ticked' = [r \in Replicas |-> TRUE]
  /\ UNCHANGED <<holder, phase, current, leading, marked, troubles>>

-----------------------------------------------------------------------------
(* tryAcquire.                                                             *)

(* The call that replica r waits for, or none, and how long it has.        *)
Call(r, step) ==
  /\ phase' = [phase EXCEPT ![r] = step]
  /\ waited' = [waited EXCEPT ![r] = 0]

BeginAttempt(r) ==
  /\ phase[r] = "idle" /\ ticked[r]
  /\ Call(r, "reading")
  /\ ticked' = [ticked EXCEPT ![r] = FALSE]
  /\ UNCHANGED <<lease, current, leading, marked, stamp, troubles>>

(* Run takes the outcome: when the flag changes, the label is to follow.   *)
Settle(r, held) ==
  /\ leading' = [leading EXCEPT ![r] = held]
  /\ Call(r, IF held # leading[r] THEN "marking" ELSE "idle")

(* expired, by the clock of a reader that may differ from the writer's.    *)
Expired == \E d \in (-Skew)..Skew : age + d > Duration
NotExpired == \E d \in (-Skew)..Skew : age + d <= Duration

(* The lease may be there for r to write: its own, free, or expired.       *)
MayTake(r) == holder \in {Nobody, r} \/ Expired

(* Mutant: a lease is only free when it has never been taken.              *)
MutReadReturns(r) ==
  /\ phase[r] = "reading"
  /\ \/ /\ holder \in {Nobody, r}
        /\ Call(r, "writing")
        /\ current' = [current EXCEPT ![r] = TRUE]
        /\ UNCHANGED leading
     \/ /\ holder \notin {Nobody, r}
        /\ Settle(r, FALSE)
        /\ UNCHANGED current
  /\ UNCHANGED <<lease, ticked, marked, stamp, troubles>>

(* The lease arrives; a copy older than that would only make the write be  *)
(* refused.  It is r's to write, or the attempt is over.                   *)
ReadReturns(r) ==
  /\ phase[r] = "reading"
  /\ \/ /\ MayTake(r)
        /\ Call(r, "writing")
        /\ current' = [current EXCEPT ![r] = TRUE]
        /\ UNCHANGED leading
     \/ /\ holder \notin {Nobody, r} /\ NotExpired
        /\ Settle(r, FALSE)
        /\ UNCHANGED current
  /\ UNCHANGED <<lease, ticked, marked, stamp, troubles>>

(* Mutant: the lease is written whatever happened to it since it was read. *)
MutWriteLands(r) ==
  /\ phase[r] = "writing"
  /\ holder' = r
  /\ age' = waited[r]
  /\ stamp' = [stamp EXCEPT ![r] = waited[r]]
  /\ current' = [s \in Replicas |-> FALSE]
  /\ phase' = [phase EXCEPT ![r] = "written"]
  /\ UNCHANGED <<waited, ticked, leading, marked, troubles>>

(* The API takes the write if nobody wrote since the read: a PUT carries   *)
(* the resourceVersion, a POST creates.  renewTime is when the read came   *)
(* back, which is when the write was sent.                                 *)
WriteLands(r) ==
  /\ phase[r] = "writing"
  /\ current[r]
  /\ holder' = r
  /\ age' = waited[r]
  /\ stamp' = [stamp EXCEPT ![r] = waited[r]]
  /\ current' = [s \in Replicas |-> FALSE]
  /\ phase' = [phase EXCEPT ![r] = "written"]
  /\ UNCHANGED <<waited, ticked, leading, marked, troubles>>

WriteReturns(r) ==
  /\ phase[r] = "written"
  /\ Settle(r, TRUE)
  /\ UNCHANGED <<lease, current, ticked, marked, stamp, troubles>>

(* Somebody was quicker.                                                   *)
WriteRefused(r) ==
  /\ phase[r] = "writing"
  /\ ~current[r]
  /\ Settle(r, FALSE)
  /\ UNCHANGED <<lease, current, ticked, marked, stamp, troubles>>

(* A call fails or times out, before or after the API did what it asked.   *)
CallFails(r) ==
  /\ phase[r] \in {"reading", "writing", "written"}
  /\ Settle(r, FALSE)
  /\ UNCHANGED <<lease, current, ticked, marked, stamp>>

-----------------------------------------------------------------------------
(* The label, and the pod's life.                                          *)

(* onChange: the patch sets the label or removes it; Run waits for it.     *)
Marked(r) ==
  /\ phase[r] = "marking"
  /\ Call(r, "idle")
  /\ marked' = [marked EXCEPT ![r] = leading[r]]
  /\ UNCHANGED <<lease, current, ticked, leading, stamp, troubles>>

(* A patch that fails is logged.                                           *)
MarkFails(r) ==
  /\ phase[r] = "marking"
  /\ Call(r, "idle")
  /\ UNCHANGED <<lease, current, ticked, leading, marked, stamp>>

StartsOver(r) ==
  /\ Call(r, "idle")
  /\ ticked' = [ticked EXCEPT ![r] = TRUE]
  /\ leading' = [leading EXCEPT ![r] = FALSE]
  /\ UNCHANGED <<age, current, stamp>>

(* The container restarts in its pod, which keeps its name and its label.  *)
Crash(r) ==
  /\ StartsOver(r)
  /\ UNCHANGED <<holder, marked>>

(* A rollout or the cluster replaces the pod by one with a name of its own.*)
Replace(r) ==
  /\ StartsOver(r)
  /\ holder' = IF holder = r THEN Gone ELSE holder
  /\ marked' = [marked EXCEPT ![r] = FALSE]

-----------------------------------------------------------------------------
Troubles(r) == CallFails(r) \/ MarkFails(r) \/ Crash(r) \/ Replace(r)

Attempts(r) ==
  \/ BeginAttempt(r)
  \/ ReadReturns(r)
  \/ WriteLands(r)
  \/ WriteReturns(r)
  \/ WriteRefused(r)
  \/ Marked(r)

LeadershipNext ==
  \/ Tick
  \/ \E r \in Replicas : Attempts(r) \/ (Troubles(r) /\ Trouble)

(* Run loops until its context ends, the API answers or the client gives   *)
(* up, and time passes.                                                    *)
LeadershipFairness ==
  /\ WF_leadershipVars(Tick)
  /\ \A r \in Replicas : WF_leadershipVars(Attempts(r))

LeadershipSpec == LeadershipInit /\ [][LeadershipNext]_leadershipVars /\ LeadershipFairness

-----------------------------------------------------------------------------
(* Properties.                                                             *)

(* A replica that leads on a renewal not yet expired by any clock is the   *)
(* holder, so there is no other such replica: the conflict a write meets   *)
(* and the wait for the expiry protect every leader that renews in time    *)
(* (tryAcquire, expired).                                                  *)
FreshLeaderHolds ==
  \A r \in Replicas : leading[r] /\ stamp[r] + Skew <= Duration => holder = r

(* After failures, crashes and replacements of whoever leads, some replica *)
(* takes the lease (Run, tryAcquire): neither all in reserve for ever.     *)
SomebodyLeads == []<>(\E r \in Replicas : leading[r])

=============================================================================
