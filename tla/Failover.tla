------------------------------ MODULE Failover ------------------------------
(* What the replicas of the head do with the state they share: each loads  *)
(* the allocations when its process starts, changes its own copy in memory *)
(* and saves the whole copy over what is stored.  Nothing is loaded again  *)
(* when a replica takes the lease.                                         *)
(*                                                                         *)
(* An allocation is abstracted to whether its user is served; Allocator    *)
(* has what a change does.  Requests reach every pod with the label, and   *)
(* the loops under WhileLeading run where the lease is.                    *)
(***************************************************************************)
EXTENDS Leadership

CONSTANT Users

VARIABLES
  memory,     \* the users each replica serves, in its memory
  store,      \* the rows of the allocations table
  promised,   \* history: users last told they are served, not revoked since
  whole,      \* history: the last save worked, and whoever saved was not behind
  behind      \* history: the replicas that loaded before somebody else's last
              \*   change, or what was not whole

state == <<memory, store, promised, whole, behind>>
failoverVars == <<leadershipVars, state>>

TypeOK ==
  /\ LeadershipTypeOK
  /\ memory \in [Replicas -> SUBSET Users]
  /\ store \subseteq Users
  /\ promised \subseteq Users
  /\ whole \in BOOLEAN
  /\ behind \subseteq Replicas

Init ==
  /\ LeadershipInit
  /\ memory = [r \in Replicas |-> {}]
  /\ store = {}
  /\ promised = {}
  /\ whole = TRUE
  /\ behind = {}

(* Work reaches a replica through the Service, or its own loops do it.     *)
Acts(r) == marked[r] \/ leading[r]

(* Every row is deleted and the copy inserted, in one transaction, or the  *)
(* error is logged.                                                        *)
Save(r) ==
  \/ store' = memory'[r] /\ whole' = (r \notin behind) /\ UNCHANGED troubles
  \/ UNCHANGED store /\ whole' = FALSE /\ Trouble

(* The change is r's alone; nobody else hears of it before they start.     *)
Changes(r) == behind' = behind \cup (Replicas \ {r})

(* A user is given nodes, or loses them.                                   *)
Issue(r, u) ==
  /\ Acts(r)
  /\ u \notin memory[r]
  /\ memory' = [memory EXCEPT ![r] = @ \cup {u}]
  /\ promised' = promised \cup {u}
  /\ Save(r) /\ Changes(r)
  /\ UNCHANGED <<lease, own>>

Revoke(r, u) ==
  /\ Acts(r)
  /\ u \in memory[r]
  /\ memory' = [memory EXCEPT ![r] = @ \ {u}]
  /\ promised' = promised \ {u}
  /\ Save(r) /\ Changes(r)
  /\ UNCHANGED <<lease, own>>

(* What a process loads is all there is, if it is whole.                   *)
CatchesUp(r) == behind' = IF whole THEN behind \ {r} ELSE behind \cup {r}

(* Mutant: a process starts with nothing, which is what New alone makes.   *)
MutBoot(r) ==
  /\ Crash(r) \/ Replace(r)
  /\ Trouble
  /\ memory' = [memory EXCEPT ![r] = {}]
  /\ CatchesUp(r)
  /\ UNCHANGED <<store, promised, whole>>

(* A process starts: Open reads what is stored.                            *)
Boot(r) ==
  /\ Crash(r) \/ Replace(r)
  /\ Trouble
  /\ memory' = [memory EXCEPT ![r] = store]
  /\ CatchesUp(r)
  /\ UNCHANGED <<store, promised, whole>>

(* The election goes on, whatever the replicas do with their state.        *)
Elects ==
  /\ \/ Tick
     \/ \E r \in Replicas : Attempts(r) \/ ((CallFails(r) \/ MarkFails(r)) /\ Trouble)
  /\ UNCHANGED state

Next ==
  \/ Elects
  \/ \E r \in Replicas : Boot(r) \/ \E u \in Users : Issue(r, u) \/ Revoke(r, u)

(* As LeadershipFairness: nothing is assumed of what users do.             *)
ElectionFairness ==
  /\ WF_failoverVars(Tick /\ UNCHANGED state)
  /\ \A r \in Replicas : WF_failoverVars(Attempts(r) /\ UNCHANGED state)

Spec == Init /\ [][Next]_failoverVars
FairSpec == Spec /\ ElectionFairness

-----------------------------------------------------------------------------
(* Properties.                                                             *)

(* A replica that loaded what is stored after everybody else's last change *)
(* has every change that anybody acknowledged: a user told they are served *)
(* is, and "a user missing from the map has been revoked" stays so         *)
(* (store_pg.go:41), across elections, crashes, replacements, and saves    *)
(* that failed and that a later one made up for (Open, Save).              *)
ActsOnWhatWasPromised ==
  \A r \in Replicas : Acts(r) /\ r \notin behind => memory[r] = promised

=============================================================================
