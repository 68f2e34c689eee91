----------------------------- MODULE Supervisor -----------------------------
(***************************************************************************)
(* The agent's supervisor on one donated node: the list of profiles staged *)
(* in memory, the Xray config file, the record of the applied version and  *)
(* the running core, which Xray keeps its own list of users in.            *)
(*                                                                         *)
(* The receive loop of agentclient handles one frame at a time, so frames  *)
(* do not overlap; but ApplyConfig writes a file, starts a process and     *)
(* writes another file, and the agent or the core may die in between.      *)
(* Here the frames come from anywhere; ControlPlane has the head send them.*)
(*                                                                         *)
(* Left out: the relay and its peers, key generation, ports, the firewall, *)
(* and the traffic counters.                                               *)
(***************************************************************************)
EXTENDS Integers

CONSTANTS
  Profiles,     \* profiles the head may put on the node
  Versions,     \* config versions
  Unapplied,    \* no version: nothing applied, or nothing recorded
  NoFile,       \* the node has no xray.json yet
  Idle          \* no config is being applied

ASSUME SupervisorAssumption ==
  /\ Unapplied \notin Versions
  /\ Idle \notin [at : {"written", "started"}, version : Versions]

VARIABLES
  staged,     \* s.profiles, in memory
  file,       \* xray.json: the profiles it was rendered with
  applied,    \* applied.toml
  version,    \* s.version, in memory
  applying,   \* how far ApplyConfig has come
  running,    \* the core process is alive
  core,       \* the users the running core serves
  silenced,   \* history: parking is what stopped the core
  strayed,    \* history: a call to the core failed, or it read an old file
  started     \* history: the versions the core was ever started for

supervisorVars ==
  <<staged, file, applied, version, applying, running, core, silenced, strayed, started>>

Rotations == {"active", "draining", "parked"}

Deltas == [add : SUBSET Profiles, remove : SUBSET Profiles, replace : BOOLEAN]

SupervisorTypeOK ==
  /\ staged \subseteq Profiles
  /\ file \in (SUBSET Profiles) \cup {NoFile}
  /\ applied \in Versions \cup {Unapplied}
  /\ version \in Versions \cup {Unapplied}
  /\ applying \in [at : {"written", "started"}, version : Versions] \cup {Idle}
  /\ running \in BOOLEAN
  /\ core \subseteq Profiles
  /\ silenced \in BOOLEAN
  /\ strayed \in BOOLEAN
  /\ started \subseteq Versions

SupervisorInit ==
  /\ staged = {}
  /\ file = NoFile
  /\ applied = Unapplied
  /\ version = Unapplied
  /\ applying = Idle
  /\ running = FALSE
  /\ core = {}
  /\ silenced = FALSE
  /\ strayed = FALSE
  /\ started = {}

-----------------------------------------------------------------------------
(* The core.                                                               *)

(* xrayproc.Start against the file on disk.  Without a file, or when the   *)
(* binary cannot be executed, nothing runs.                                *)
CoreStarts == running' = TRUE /\ core' = file /\ silenced' = FALSE
CoreStops == running' = FALSE /\ core' = {}

(* The core dies.  Nobody waits for it: the next heartbeat says "stopped". *)
CoreExits ==
  /\ running
  /\ CoreStops
  /\ UNCHANGED <<staged, file, applied, version, applying, silenced, strayed, started>>

-----------------------------------------------------------------------------
(* ApplyConfig.                                                            *)

(* Mutant: the config is rendered without the staged profiles.             *)
MutWriteConfig(v) ==
  /\ applying = Idle
  /\ file' = {}
  /\ applying' = [at |-> "written", version |-> v]
  /\ UNCHANGED <<staged, applied, version, running, core, silenced, strayed, started>>

(* The binary and the keys are there, the config is rendered with what is  *)
(* staged and has replaced the file.                                       *)
WriteConfig(v) ==
  /\ applying = Idle
  /\ file' = staged
  /\ applying' = [at |-> "written", version |-> v]
  /\ UNCHANGED <<staged, applied, version, running, core, silenced, strayed, started>>

(* Mutant: a core that does not start does not stop ApplyConfig.           *)
MutRestartForConfig ==
  /\ applying # Idle
  /\ applying.at = "written"
  /\ strayed' = FALSE
  /\ \/ CoreStarts /\ started' = started \cup {applying.version}
     \/ CoreStops /\ silenced' = FALSE /\ UNCHANGED started
  /\ applying' = [applying EXCEPT !.at = "started"]
  /\ UNCHANGED <<staged, file, applied, version>>

(* restartXray: the old process is stopped; the new one may fail to start, *)
(* and ApplyConfig then returns.                                           *)
RestartForConfig ==
  /\ applying # Idle
  /\ applying.at = "written"
  /\ strayed' = FALSE
  /\ \/ /\ CoreStarts
        /\ started' = started \cup {applying.version}
        /\ applying' = [applying EXCEPT !.at = "started"]
     \/ /\ CoreStops
        /\ silenced' = FALSE
        /\ applying' = Idle
        /\ UNCHANGED started
  /\ UNCHANGED <<staged, file, applied, version>>

(* The version is taken and recorded; a record that cannot be written is   *)
(* only logged.                                                            *)
RecordVersion ==
  /\ applying # Idle
  /\ applying.at = "started"
  /\ version' = applying.version
  /\ applied' \in {applied, applying.version}
  /\ applying' = Idle
  /\ UNCHANGED <<staged, file, running, core, silenced, strayed, started>>

(* ConfigVersion, the version Hello reports.                               *)
ReportedVersion == IF version = Unapplied THEN applied ELSE version

-----------------------------------------------------------------------------
(* ApplyProfiles.                                                          *)

(* Mutant: a list that replaces does not drop what it leaves out.          *)
MutDropped(d) == d.remove

(* What leaves: the named profiles and, when the list replaces what was    *)
(* there, everything it does not name.                                     *)
Dropped(d) == d.remove \cup (IF d.replace THEN staged \ d.add ELSE {})

Removed(d) == staged \cap Dropped(d)
Added(d) == d.add \ (staged \ Removed(d))

(* What the list becomes.                                                  *)
Staged(d) == (staged \ Removed(d)) \cup Added(d)

(* The list changes first, whatever the core then says.  `failed' are the  *)
(* calls that did not work: all of them when its API does not come up.     *)
ApplyProfiles(d, failed) ==
  /\ applying = Idle
  /\ staged' = Staged(d)
  /\ core' = IF running THEN (core \ (Removed(d) \ failed)) \cup (Added(d) \ failed)
                        ELSE core
  /\ strayed' = (strayed \/ (running /\ failed # {}))
  /\ UNCHANGED <<file, applied, version, applying, running, silenced, started>>

-----------------------------------------------------------------------------
(* The other frames, and the agent's own life.                             *)

(* SetRotationState: parking stops the core, the other states are noted    *)
(* and nothing reads the note.                                             *)
SetRotationState(s) ==
  /\ applying = Idle
  /\ IF s = "parked" THEN CoreStops /\ silenced' = (silenced \/ running)
                     ELSE UNCHANGED <<running, core, silenced>>
  /\ UNCHANGED <<staged, file, applied, version, applying, strayed, started>>

(* Upgrade of the core: a new binary or not, it restarts on the file that  *)
(* is there, which has the profiles of the last ApplyConfig.               *)
Upgrade ==
  /\ applying = Idle
  /\ \/ file # NoFile /\ CoreStarts /\ strayed' = (file # staged)
     \/ CoreStops /\ silenced' = FALSE /\ UNCHANGED strayed
  /\ UNCHANGED <<staged, file, applied, version, applying, started>>

(* The agent stops or dies; its service takes the core along and starts    *)
(* the agent again, which starts nothing by itself.                        *)
AgentRestarts ==
  /\ staged' = {}
  /\ version' = Unapplied
  /\ applying' = Idle
  /\ strayed' = FALSE
  /\ CoreStops
  /\ silenced' = FALSE
  /\ UNCHANGED <<file, applied, started>>

SupervisorNext ==
  \/ \E v \in Versions : WriteConfig(v)
  \/ RestartForConfig
  \/ RecordVersion
  \/ \E d \in Deltas : \E failed \in SUBSET (Removed(d) \cup Added(d)) : ApplyProfiles(d, failed)
  \/ \E s \in Rotations : SetRotationState(s)
  \/ Upgrade
  \/ CoreExits
  \/ AgentRestarts

SupervisorSpec == SupervisorInit /\ [][SupervisorNext]_supervisorVars

-----------------------------------------------------------------------------
(* Properties.                                                             *)

(* A running core serves exactly the staged profiles, through config       *)
(* restarts, deltas, parking, crashes of either process, unless a call to  *)
(* it failed or it was restarted on an older file: "adding a user the core *)
(* already has is an error" (ApplyProfiles).                               *)
CoreServesStaged == running /\ ~strayed => core = staged

(* The version the node reports is one it has started its core for, after  *)
(* a crash at any point of ApplyConfig too: a node that reported a version *)
(* it never ran would not be sent the config again (Session, on Hello).    *)
ReportedWasStarted == ReportedVersion # Unapplied => ReportedVersion \in started

=============================================================================
