------------------------------- MODULE Receipts -------------------------------
(* How the receipts a client signs reach the head when the panel is out of *)
(* its reach.  The client posts what it keeps at a door of its node; the   *)
(* door remembers for an hour what it took, queues it, and the agent       *)
(* drains the queue into a batch on its session; the head checks and       *)
(* stores each receipt of a batch, and tells nobody.  So the client keeps  *)
(* a receipt and posts it again, until a panel answers or a door that is   *)
(* closed says that none are wanted.  It posts all it keeps, the oldest    *)
(* first, and the door looks at the first MaxPerRequest of them.           *)
(*                                                                         *)
(* One client, and a head that pays donors and so wants receipts.  Others  *)
(* at the door matter by the room they take, which QueueLimit stands for,  *)
(* and whether the client held the node is in Allocator.                   *)
(***************************************************************************)
EXTENDS Integers, Sequences, FiniteSets, SequencesExt

CONSTANTS
  Receipts,     \* the receipts the client may sign, one for each window
  QueueLimit,   \* maxQueued
  MaxPerRequest,
  MaxAge,       \* intake's maxAge, in hours
  MaxKeys,      \* bound on the keys the client registers
  MaxVersions,  \* bound on the config's versions
  MaxFaults     \* bound on lost batches, refused reads and writes, hours away and restarts

ASSUME ReceiptsAssumption ==
  /\ IsFiniteSet(Receipts)
  /\ QueueLimit \in Nat \ {0} /\ MaxPerRequest \in Nat \ {0} /\ MaxAge \in Nat /\ MaxKeys \in Nat \ {0}
  /\ MaxVersions \in Nat \ {0} /\ MaxFaults \in Nat

VARIABLES
  signed,    \* the key each receipt is signed with, 0 before it is
  age,       \* hours since its window ended
  kept,      \* the client's queue, the oldest first
  key,       \* the client's key, registered with the head
  current,   \* the version of the head's config
  applied,   \* the version the agent recorded, which it reports in its Hello
  enabled,   \* Door.enabled
  queue,     \* Door.queued
  seen,      \* Door.seen: "fresh" within the hour, "stale" when an hour may be over
  brought,   \* history: what was posted in this hour and not turned away
  batch,     \* drained and sent, on its way to the head
  stored,    \* the receipts table
  faults

client == <<signed, age, kept, key>>
node == <<applied, enabled>>
door == <<queue, seen, brought>>
receiptsVars == <<client, current, node, door, batch, stored, faults>>

Memory == {"never", "fresh", "stale"}

ReceiptsTypeOK ==
  /\ signed \in [Receipts -> 0..MaxKeys] /\ age \in [Receipts -> 0..(MaxAge + 1)]
  /\ kept \in Seq(Receipts) /\ key \in 1..MaxKeys
  /\ current \in 1..MaxVersions /\ applied \in 0..MaxVersions /\ enabled \in BOOLEAN
  /\ queue \in Seq(Receipts) /\ Len(queue) <= QueueLimit
  /\ seen \in [Receipts -> Memory] /\ brought \subseteq Receipts
  /\ batch \in Seq(Receipts) /\ Len(batch) <= QueueLimit
  /\ stored \subseteq Receipts /\ faults \in 0..MaxFaults

ReceiptsInit ==
  /\ signed = [r \in Receipts |-> 0] /\ age = [r \in Receipts |-> 0]
  /\ kept = <<>> /\ key = 1
  /\ current = 1 /\ applied = 0 /\ enabled = FALSE
  /\ queue = <<>> /\ seen = [r \in Receipts |-> "never"] /\ brought = {}
  /\ batch = <<>> /\ stored = {} /\ faults = 0

Fault == faults < MaxFaults /\ faults' = faults + 1
-----------------------------------------------------------------------------
(* The client.                                                             *)

Sign(r) ==
  /\ signed[r] = 0
  /\ signed' = [signed EXCEPT ![r] = key]
  /\ kept' = Append(kept, r)
  /\ UNCHANGED <<age, key, current, node, door, batch, stored, faults>>

(* RegisterKey: the client has a new key, and signs with it from now on.   *)
RegisterKey ==
  /\ key < MaxKeys /\ key' = key + 1
  /\ UNCHANGED <<signed, age, kept, current, node, door, batch, stored, faults>>

(* check: the window is no older than a week, the signature is by the key. *)
Checks(r) == signed[r] = key /\ age[r] <= MaxAge

(* What is stored of receipts brought to the head: those it stored before  *)
(* are refused by their nonce, and writes may fail.                        *)
Stores(receipts) ==
  \/ /\ stored' = stored \cup {r \in receipts : Checks(r)}
     /\ UNCHANGED faults
  \/ /\ Fault
     /\ \E written \in SUBSET {r \in receipts : Checks(r)} : stored' = stored \cup written

(* SubmitReceipts: any answer that arrives empties the client's queue.     *)
SubmitReceipts ==
  /\ kept # <<>>
  /\ Stores(ToSet(kept))
  /\ kept' \in {<<>>, kept}
  /\ UNCHANGED <<signed, age, key, current, node, door, batch>>
-----------------------------------------------------------------------------
(* The door.                                                               *)

(* A receipt accepted some time in the last hour is remembered, and one    *)
(* from the hour before it until as late in this one.                      *)
Remembers(r) == seen[r] = "fresh"
MayRemember(r) == seen[r] = "stale"

(* What the door looks at: the rest of a long request is cut off.          *)
Posted == {kept[i] : i \in DOMAIN kept \cap 1..MaxPerRequest}

MutRoom == QueueLimit + 1 - Len(queue)

Room == QueueLimit - Len(queue)

(* enqueue: what is new, while there is room.                              *)
Enqueue(taken) ==
  /\ queue' = queue \o SetToSeq(taken)
  /\ seen' = [r \in Receipts |-> IF r \in taken THEN "fresh" ELSE seen[r]]

Post ==
  /\ enabled /\ kept # <<>>
  /\ \E old \in SUBSET {r \in Posted : MayRemember(r)} :
       LET known == old \cup {r \in Posted : Remembers(r)} IN
       \E taken \in SUBSET (Posted \ known) :
         /\ Cardinality(taken) <= Room
         /\ taken = Posted \ known \/ Cardinality(taken) = Room
         /\ Enqueue(taken)
         /\ brought' = brought \cup known \cup taken
  /\ UNCHANGED <<client, current, node, batch, stored, faults>>

(* 410: the client gives up what it keeps.                                 *)
PostAtClosedDoor ==
  /\ ~enabled /\ kept # <<>>
  /\ kept' = <<>>
  /\ UNCHANGED <<signed, age, key, current, node, door, batch, stored, faults>>

(* pump: drained first and sent then; a batch at a time is on its way.     *)
Drain ==
  /\ queue # <<>> /\ batch = <<>>
  /\ queue' = <<>> /\ batch' = queue
  /\ UNCHANGED <<client, current, node, seen, brought, stored, faults>>

LoseBatch ==
  /\ Fault
  /\ batch # <<>> /\ batch' = <<>>
  /\ UNCHANGED <<client, current, node, door, stored>>

AcceptCarried ==
  /\ batch # <<>> /\ batch' = <<>>
  /\ Stores(ToSet(batch))
  /\ UNCHANGED <<client, current, node, door>>
-----------------------------------------------------------------------------
(* Time.                                                                   *)

Older == age' = [r \in Receipts |-> IF signed[r] # 0 /\ age[r] <= MaxAge THEN age[r] + 1 ELSE age[r]]

MutForget == seen' = [r \in Receipts |-> IF seen[r] = "never" THEN "never" ELSE "stale"]

Forget == seen' = [r \in Receipts |-> IF seen[r] = "fresh" THEN "stale" ELSE "never"]

(* An hour is long: the client posts what it keeps, the agent drains and   *)
(* the head takes what it is sent.  Unless the session is away.            *)
Hour ==
  /\ \/ /\ Posted \subseteq brought /\ queue = <<>> /\ batch = <<>>
        /\ UNCHANGED faults
     \/ Fault
  /\ Older /\ Forget /\ brought' = {}
  /\ UNCHANGED <<signed, kept, key, current, node, queue, batch, stored>>
-----------------------------------------------------------------------------
(* The agent and its config.                                               *)

NewVersion ==
  /\ current < MaxVersions /\ current' = current + 1
  /\ UNCHANGED <<client, node, door, batch, stored, faults>>

(* The head sends a config to a node that has another version, and the     *)
(* door is switched when one has been applied.                             *)
ApplyConfig ==
  /\ applied # current
  /\ applied' = current /\ enabled' = TRUE
  /\ UNCHANGED <<client, current, door, batch, stored, faults>>

AgentRestarts ==
  /\ Fault
  /\ enabled' = FALSE /\ queue' = <<>> /\ seen' = [r \in Receipts |-> "never"]
  /\ UNCHANGED <<client, current, applied, brought, batch, stored>>
-----------------------------------------------------------------------------
ReceiptsNext ==
  \/ \E r \in Receipts : Sign(r)
  \/ RegisterKey \/ SubmitReceipts \/ Post \/ PostAtClosedDoor
  \/ Drain \/ LoseBatch \/ AcceptCarried \/ Hour
  \/ NewVersion \/ ApplyConfig \/ AgentRestarts

ReceiptsSpec == ReceiptsInit /\ [][ReceiptsNext]_receiptsVars
-----------------------------------------------------------------------------
(* A receipt the client keeps is stored while it is young, whatever it has *)
(* to share the door with: a batch that is lost costs it two hours, as the *)
(* door believes for an hour that it took it (agentclient.go, pump).  Not  *)
(* so one that comes after the first MaxPerRequest: a client that keeps    *)
(* more posts the same ones first every time.                              *)
RetriesOutliveFaults ==
  \A r \in Posted \ stored : signed[r] = key => age[r] <= 2 * faults

=============================================================================
