---------------------------- MODULE ControlPlane ----------------------------
(***************************************************************************)
(* The control plane of one node: the head's wish list for it (what the    *)
(* allocator and the probe fleet say it should serve), the node's session  *)
(* with its bounded queue, and the supervisor at the other end.            *)
(*                                                                         *)
(* The head's handler of a Hello is three steps, between which anybody may *)
(* push to the same session: it compares config versions, takes a snapshot *)
(* of the wish list under the allocator's mutex, and queues the snapshot   *)
(* as the list that replaces whatever the node has.  The two ends notice a *)
(* broken stream separately: the head goes on pushing into a session that  *)
(* delivers nothing until the stream errors or the node is back.           *)
(*                                                                         *)
(* Frames in flight are still in `queue': one bound, Depth, for both.      *)
(***************************************************************************)
EXTENDS Supervisor, Sequences, SequencesExt

CONSTANTS
  Depth,        \* outboundDepth
  MaxTurns      \* bound on everything that is not delivery: see Turn

ASSUME ControlPlaneAssumption == Depth \in Nat \ {0} /\ MaxTurns \in Nat

VARIABLES
  wanted,         \* what the head says the node should serve
  fleetVersion,   \* the version of nodeConfig
  announcing,     \* SetNodeConfig has stored a config and not pushed it yet
  state,          \* the node's rotation state in the registry
  session,        \* where the node's session is: see Phases
  wired,          \* the stream under the session still delivers
  hello,          \* the version the Hello of this session reported
  snapshot,       \* the wish list the Hello handler has read
  queue,          \* frames for the node
  overtaken,      \* a push came between the snapshot and the replacing list
  owed,           \* the session refused a removal after its replacing list
  turns

headVars == <<wanted, fleetVersion, announcing, state>>
linkVars == <<session, wired, hello, snapshot, queue, overtaken, owed>>
vars == <<supervisorVars, headVars, linkVars, turns>>

(* none: no session; opened: registered, its Hello not handled yet;        *)
(* compared: the config question is settled; read: the snapshot is taken;  *)
(* live: the replacing list is in the queue.                               *)
Phases == {"none", "opened", "compared", "read", "live"}

Config(v) == [kind |-> "config", version |-> v]
Delta(a, r, whole) == [kind |-> "delta", add |-> a, remove |-> r, replace |-> whole]
Rotation(s) == [kind |-> "rotation", state |-> s]
UpgradeCommand == [kind |-> "upgrade"]

Frames ==
  {Config(v) : v \in Versions}
    \cup {Delta(a, r, whole) : a, r \in SUBSET Profiles, whole \in BOOLEAN}
    \cup {Rotation(s) : s \in Rotations} \cup {UpgradeCommand}

TypeOK ==
  /\ SupervisorTypeOK
  /\ wanted \subseteq Profiles
  /\ fleetVersion \in Versions
  /\ announcing \in BOOLEAN
  /\ state \in Rotations
  /\ session \in Phases
  /\ wired \in BOOLEAN
  /\ hello \in Versions \cup {Unapplied}
  /\ snapshot \subseteq Profiles
  /\ queue \in Seq(Frames) /\ Len(queue) <= Depth
  /\ overtaken \in BOOLEAN
  /\ owed \in BOOLEAN
  /\ turns \in Nat

Init ==
  /\ SupervisorInit
  /\ wanted = {}
  /\ fleetVersion \in Versions
  /\ announcing = FALSE
  /\ state = "parked"
  /\ session = "none"
  /\ wired = FALSE
  /\ hello = Unapplied
  /\ snapshot = {}
  /\ queue = <<>>
  /\ overtaken = FALSE
  /\ owed = FALSE
  /\ turns = MaxTurns

-----------------------------------------------------------------------------
(* The session's queue.                                                    *)

(* session.send: an error when there is no session or the queue is full.   *)
CanSend == session # "none" /\ Len(queue) < Depth
Send(f) == queue' = Append(queue, f)

(* An event takes one of MaxTurns turns, which bounds the state space;     *)
(* delivery, the handler's steps and reconnecting do not.                  *)
Turn == turns > 0 /\ turns' = turns - 1

(* The allocator puts a profile on the node, and records it only if the    *)
(* push was accepted; otherwise nothing happens.                           *)
Grant(p) ==
  /\ p \notin wanted
  /\ CanSend
  /\ Send(Delta({p}, {}, FALSE))
  /\ wanted' = wanted \cup {p}
  /\ overtaken' = (overtaken \/ session = "read")
  /\ UNCHANGED <<supervisorVars, fleetVersion, announcing, state, session, wired, hello,
                 snapshot, owed>>

(* The allocator takes a profile off, told or not.                         *)
Revoke(p) ==
  /\ p \in wanted
  /\ wanted' = wanted \ {p}
  /\ overtaken' = (overtaken \/ session = "read")
  /\ IF CanSend THEN Send(Delta({}, {p}, FALSE)) /\ UNCHANGED owed
                ELSE owed' = (owed \/ session = "live") /\ UNCHANGED queue
  /\ UNCHANGED <<supervisorVars, fleetVersion, announcing, state, session, wired, hello,
                 snapshot>>

(* SetNodeConfig stores the config, then pushes whatever is current to the *)
(* nodes connected by then; a push that fails is only logged.              *)
SetNodeConfig(v) ==
  /\ fleetVersion' = v
  /\ announcing' = TRUE
  /\ UNCHANGED <<supervisorVars, wanted, state, linkVars>>

AnnounceConfig ==
  /\ announcing
  /\ announcing' = FALSE
  /\ IF CanSend THEN Send(Config(fleetVersion)) ELSE UNCHANGED queue
  /\ UNCHANGED <<supervisorVars, wanted, fleetVersion, state, session, wired, hello,
                 snapshot, overtaken, owed>>

(* Rotator.Tick moves the node to another state and tells it if it can.    *)
Rotate(s) ==
  /\ state # s
  /\ state' = s
  /\ IF CanSend THEN Send(Rotation(s)) ELSE UNCHANGED queue
  /\ UNCHANGED <<supervisorVars, wanted, fleetVersion, announcing, session, wired, hello,
                 snapshot, overtaken, owed>>

(* The operator's command to restart the core, or to take a new build.     *)
OrderUpgrade ==
  /\ CanSend
  /\ Send(UpgradeCommand)
  /\ UNCHANGED <<supervisorVars, headVars, session, wired, hello, snapshot, overtaken, owed>>

-----------------------------------------------------------------------------
(* The session.                                                            *)

(* The agent dials; register closes the session the node had, whose frames *)
(* are gone.  What Hello reports is read at this end, before it is sent.   *)
Connect ==
  /\ ~wired
  /\ applying = Idle
  /\ session' = "opened"
  /\ wired' = TRUE
  /\ hello' = ReportedVersion
  /\ queue' = <<>>
  /\ snapshot' = {}
  /\ overtaken' = FALSE
  /\ owed' = FALSE
  /\ UNCHANGED <<supervisorVars, headVars>>

(* The Hello handler: a node behind on its config is sent it; if even that *)
(* cannot be queued the session ends.                                      *)
CompareConfig ==
  /\ session = "opened" /\ wired
  /\ IF hello = fleetVersion THEN session' = "compared" /\ UNCHANGED queue
     ELSE IF CanSend THEN session' = "compared" /\ Send(Config(fleetVersion))
     ELSE session' = "none" /\ queue' = <<>>
  /\ wired' = (session' # "none")
  /\ UNCHANGED <<supervisorVars, headVars, hello, snapshot, overtaken, owed>>

(* SpecsFor, under the allocator's mutex.                                  *)
ReadProfiles ==
  /\ session = "compared" /\ wired
  /\ session' = "read"
  /\ snapshot' = wanted
  /\ UNCHANGED <<supervisorVars, headVars, wired, hello, queue, overtaken, owed>>

(* Mutant: the list adds to what the node has.                             *)
MutSendProfiles ==
  /\ session = "read" /\ wired
  /\ IF CanSend THEN session' = "live" /\ Send(Delta(snapshot, {}, FALSE))
     ELSE session' = "none" /\ queue' = <<>>
  /\ wired' = (session' # "none")
  /\ UNCHANGED <<supervisorVars, headVars, hello, snapshot, overtaken, owed>>

(* The replacing list is queued, or the session ends.                      *)
SendProfiles ==
  /\ session = "read" /\ wired
  /\ IF CanSend THEN session' = "live" /\ Send(Delta(snapshot, {}, TRUE))
     ELSE session' = "none" /\ queue' = <<>>
  /\ wired' = (session' # "none")
  /\ UNCHANGED <<supervisorVars, headVars, hello, snapshot, overtaken, owed>>

(* The stream breaks under a session the head still has.                   *)
Break ==
  /\ wired
  /\ wired' = FALSE
  /\ UNCHANGED <<supervisorVars, headVars, session, hello, snapshot, queue, overtaken, owed>>

(* The head sees the error and forgets the session.                        *)
Notice ==
  /\ ~wired /\ session # "none"
  /\ session' = "none"
  /\ queue' = <<>>
  /\ UNCHANGED <<supervisorVars, headVars, wired, hello, snapshot, overtaken, owed>>

-----------------------------------------------------------------------------
(* The node.                                                               *)

(* The agent handles the first frame: Handle(f, TRUE) when everything it   *)
(* calls works, Handle(f, FALSE) when something may not.                   *)
Handle(f, works) ==
  CASE f.kind = "config" -> IF works THEN WriteConfig(f.version)
                                     ELSE UNCHANGED supervisorVars
    [] f.kind = "delta" ->
         \E failed \in IF works THEN {{}} ELSE SUBSET (Removed(f) \cup Added(f)) :
           ApplyProfiles(f, failed)
    [] f.kind = "rotation" -> SetRotationState(f.state)
    [] f.kind = "upgrade" -> Upgrade \/ (~works /\ UNCHANGED supervisorVars)

Deliver(works) ==
  /\ wired
  /\ queue # <<>>
  /\ applying = Idle
  /\ Handle(Head(queue), works)
  /\ queue' = Tail(queue)
  /\ UNCHANGED <<headVars, session, wired, hello, snapshot, overtaken, owed>>

(* The rest of an ApplyConfig.                                             *)
ProceedWithConfig ==
  /\ RestartForConfig \/ RecordVersion
  /\ UNCHANGED <<headVars, linkVars>>

CoreDies == CoreExits /\ UNCHANGED <<headVars, linkVars>>

(* The stream of an agent that restarts breaks with it.                    *)
AgentDies ==
  /\ AgentRestarts
  /\ wired' = FALSE
  /\ UNCHANGED <<headVars, session, hello, snapshot, queue, overtaken, owed>>

-----------------------------------------------------------------------------
Events ==
  \/ \E p \in Profiles : Grant(p) \/ Revoke(p)
  \/ \E v \in Versions : SetNodeConfig(v)
  \/ \E s \in Rotations : Rotate(s)
  \/ OrderUpgrade
  \/ Break
  \/ Deliver(FALSE)
  \/ CoreDies
  \/ AgentDies

Progress ==
  \/ AnnounceConfig
  \/ Connect
  \/ CompareConfig
  \/ ReadProfiles
  \/ SendProfiles
  \/ Notice
  \/ Deliver(TRUE)
  \/ ProceedWithConfig

Next ==
  \/ Events /\ Turn
  \/ Progress /\ UNCHANGED turns

(* Run dials again after every session, the handler and the sender run on  *)
(* until the stream breaks, and ApplyConfig does not wait for anybody.     *)
Fairness == WF_vars(Progress /\ UNCHANGED turns)

Spec == Init /\ [][Next]_vars /\ Fairness

-----------------------------------------------------------------------------
(* Properties.                                                             *)

(* What the list will be when every queued frame has been handled.         *)
Handled(list, f) ==
  IF f.kind # "delta" THEN list
  ELSE (IF f.replace THEN list \cap f.add ELSE list \ f.remove) \cup f.add

AfterQueue == FoldLeft(Handled, staged, queue)

(* What is queued for a node that was reconciled leads to exactly what the *)
(* head wants there, however pushes, a Hello and reconnections interleave, *)
(* unless a removal was refused, or a push came between the Hello's        *)
(* snapshot and the list made from it ("Reconcile", Session).              *)
QueueLeadsToWanted ==
  session = "live" /\ wired /\ ~overtaken /\ ~owed => AfterQueue = wanted

(* The node ends up with what the head wants: a lost stream, a crash, a    *)
(* full queue are repaired by the next Hello (Run, and Session on Hello).  *)
NodeCatchesUp == <>[](staged = wanted \/ overtaken \/ owed)

(* "A node parked because its pledge was spent has to come back on its own *)
(* when the month turns" (rotation.go:71): a node that is silent only      *)
(* because it was parked serves again once the head makes it active.       *)
ReturnsToService ==
  (state = "active" /\ silenced) ~> (state # "active" \/ ~silenced)

=============================================================================
