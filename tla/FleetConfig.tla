----------------------------- MODULE FleetConfig -----------------------------
(***************************************************************************)
(* What every node is told to look like.  The operator saves the fleet's   *)
(* settings in the panel; a watcher checks every few hours which TLS       *)
(* identities (dests) still hold up and moves the fleet to another; a      *)
(* rescuer gives a single node another one when probes find it dark.  Each *)
(* of them then sends the config to the nodes that are connected, and a    *)
(* node that connects is sent it when it reports another version.          *)
(*                                                                         *)
(* A node keeps the dest it was first rendered with (its pin), because it  *)
(* is in every link handed out.  A config is its version, its dest and its *)
(* form: ports and the post-quantum signature, which come from the config  *)
(* the head rendered last and not from the settings.  Builds and flags     *)
(* come with the version and are left out.                                 *)
(*                                                                         *)
(* A rendering reads the form, the settings and the pin one after the      *)
(* other, and then pins the dest if there was none: what it reads and what *)
(* it sets may change in between.  One panel call at a time.               *)
(***************************************************************************)
EXTENDS Integers, Sequences, FiniteSets

CONSTANTS
  Nodes, Dests, NoDest, Forms, Nothing,
  Clients,      \* whom links are rendered for, one rendering each at a time
  Plausible,    \* the dests a client could be expected to visit (PlausibleSNI)
  Flags,        \* what the head was first started with
  Saves,        \* what the operator may save
  Scans,        \* what a scan may find
  Draw,         \* the dest a node draws from a pool, by the hash of its id
  Failures,     \* failuresBeforeSwap
  Cooldown,     \* swapCooldown, in rounds of the rescuer
  QueueDepth,   \* outboundDepth
  MaxVersion,   \* bound on the changes of the settings
  MaxTurns      \* bound on panel calls, swaps, lost sessions, refused writes and restarts

ASSUME FleetConfigAssumption ==
  /\ NoDest \notin Dests /\ Plausible \subseteq Dests
  /\ Flags \subseteq [dest : Dests, auto : BOOLEAN, form : Forms]
  /\ Saves \subseteq [dest : Dests \cup {NoDest}, auto : BOOLEAN, form : Forms]
  /\ Scans \subseteq SUBSET Dests
  /\ \A n \in Nodes, pool \in (SUBSET Dests) \ {{}} : Draw[<<n, pool>>] \in pool
  /\ Failures \in Nat \ {0} /\ Cooldown \in Nat /\ QueueDepth \in Nat \ {0}
  /\ MaxVersion \in Nat \ {0} /\ MaxTurns \in Nat

Selections == [dest : Dests, pool : SUBSET Dests, auto : BOOLEAN, form : Forms]
Settings == [choice : Selections, version : 1..MaxVersion]
Configs == [version : 1..MaxVersion, dest : Dests, form : Forms]
Hellos == [reported : 0..MaxVersion]
Drafts == [node : Nodes, at : {"settings"}, form : Forms]
          \cup [node : Nodes, at : {"pin", "unpinned", "ready"}, config : Configs]

(* Who renders: publishers, whoever hands out links to a client, and the   *)
(* handler of each node's session, named as its node.                      *)
Publishers == {"panel", "watch", "rescue"}
Renderers == Publishers \cup Clients \cup Nodes

ASSUME NothingAssumption == Nothing \notin Hellos \cup Configs \cup Drafts
ASSUME NamesAssumption ==
  Nodes \cap Clients = {} /\ Nodes \cap Publishers = {} /\ Clients \cap Publishers = {}

VARIABLES
  settings,   \* fleet.Manager: in memory and, saved first, in the store
  base,       \* Server.nodeConfig: the form it was rendered with
  pin,        \* RealityDest of each node's row
  panel,      \* the panel call under way
  watch,      \* the watcher's check under way
  todo,       \* the nodes each publisher has yet to push to
  draft,      \* the config each renderer is at
  greeting,   \* the Hello of a node that its handler is answering
  session,    \* the nodes with a session
  wire,       \* what is on the way to each node
  served,     \* the config each node runs
  misses,     \* Rescuer.misses
  rested,     \* Rescuer.swapped: rounds since the last swap
  dark,       \* history: rounds in a row that measured the node and failed
  chosen,     \* history: what the operator saved last
  raced,      \* history: that was saved under a write of the watcher
  refilled,   \* history: the watcher has since written a pool back into it
  missed,     \* history: nodes the last rendering was not sent to
  behind,     \* history: nodes a push to which was refused or came out of order
  overlapped, \* history: nodes pinned while another rendering had found no pin
  turns

publishing == <<todo, draft>>
link == <<greeting, session, wire, served>>
rescuing == <<misses, rested, dark>>
operator == <<chosen, raced, refilled>>
sent == <<missed, behind>>
vars == <<settings, base, pin, panel, watch, publishing, link, rescuing, operator, sent, overlapped, turns>>

Done == [at |-> "idle"]

TypeOK ==
  /\ settings \in Settings /\ base \in Forms
  /\ pin \in [Nodes -> Dests \cup {NoDest}]
  /\ panel \in {Done} \cup [at : {"saving"}, next : Selections] \cup [at : {"saved"}]
               \cup [at : {"pushing"}, base : Forms]
  /\ watch \in {Done} \cup [at : {"scanning"}, cur : Selections]
               \cup [at : {"writing"}, next : Selections] \cup [at : {"notifying"}]
  /\ todo \in [Publishers -> SUBSET Nodes]
  /\ draft \in [Renderers -> {Nothing} \cup Drafts]
  /\ greeting \in [Nodes -> {Nothing} \cup Hellos]
  /\ session \subseteq Nodes
  /\ wire \in [Nodes -> Seq(Configs)] /\ \A n \in Nodes : Len(wire[n]) <= QueueDepth
  /\ served \in [Nodes -> {Nothing} \cup Configs]
  /\ misses \in [Nodes -> 0..Failures] /\ dark \in [Nodes -> 0..Failures]
  /\ rested \in [Nodes -> 0..Cooldown]
  /\ chosen \in [dest : Dests, auto : BOOLEAN, form : Forms]
  /\ raced \in BOOLEAN /\ refilled \in BOOLEAN
  /\ missed \subseteq Nodes /\ behind \subseteq Nodes /\ overlapped \subseteq Nodes
  /\ turns \in 0..MaxTurns
-----------------------------------------------------------------------------
(* What a node is told, and what its links say.                            *)

DestFor(n) ==
  IF settings.choice.pool = {} THEN settings.choice.dest ELSE Draw[<<n, settings.choice.pool>>]

PinnedDest(n) == IF pin[n] \in Plausible THEN pin[n] ELSE DestFor(n)

(* What a rendering comes to that nothing disturbs.                        *)
ConfigFor(n) == [version |-> settings.version, dest |-> PinnedDest(n), form |-> base]

(* The part of the settings that is the operator's.                        *)
Operators(choice) == [dest |-> choice.dest, auto |-> choice.auto, form |-> choice.form]

Version(n) == IF served[n] = Nothing THEN 0 ELSE served[n].version

Init ==
  /\ chosen \in Flags /\ base = chosen.form
  /\ settings = [choice |-> [dest |-> chosen.dest, pool |-> {}, auto |-> chosen.auto, form |-> base], version |-> 1]
  /\ pin = [n \in Nodes |-> NoDest]
  /\ panel = Done /\ watch = Done
  /\ todo = [p \in Publishers |-> {}] /\ draft = [r \in Renderers |-> Nothing]
  /\ greeting = [n \in Nodes |-> Nothing] /\ session = {}
  /\ wire = [n \in Nodes |-> <<>>] /\ served = [n \in Nodes |-> Nothing]
  /\ misses = [n \in Nodes |-> 0] /\ dark = [n \in Nodes |-> 0]
  /\ rested = [n \in Nodes |-> Cooldown]
  /\ raced = FALSE /\ refilled = FALSE
  /\ missed = {} /\ behind = {} /\ overlapped = {} /\ turns = 0

Turn == turns < MaxTurns /\ turns' = turns + 1

Free(p) == todo[p] = {} /\ draft[p] = Nothing
-----------------------------------------------------------------------------
(* ConfigFor, by renderer r for node n: the form, the settings with the    *)
(* dest they give the node, the pin.                                       *)

At(r, stage) == draft[r] # Nothing /\ draft[r].at = stage

Starts(r, n) ==
  /\ draft[r] = Nothing
  /\ draft' = [draft EXCEPT ![r] = [node |-> n, at |-> "settings", form |-> base]]

ReadsSettings(r) ==
  /\ At(r, "settings")
  /\ LET n == draft[r].node
         config == [version |-> settings.version, dest |-> DestFor(n), form |-> draft[r].form]
     IN  draft' = [draft EXCEPT ![r] = [node |-> n, at |-> "pin", config |-> config]]
  /\ UNCHANGED <<settings, base, pin, panel, watch, todo, link, rescuing, operator, sent, overlapped, turns>>

ReadsPin(r) ==
  /\ At(r, "pin")
  /\ LET n == draft[r].node
         config == draft[r].config
     IN  draft' = [draft EXCEPT ![r] =
           IF pin[n] \in Plausible
           THEN [node |-> n, at |-> "ready", config |-> [config EXCEPT !.dest = pin[n]]]
           ELSE [node |-> n, at |-> "unpinned", config |-> config]]
  /\ UNCHANGED <<settings, base, pin, panel, watch, todo, link, rescuing, operator, sent, overlapped, turns>>

(* Who has found no pin worth keeping and has yet to set one.              *)
Unpinned(n) == {r \in Renderers : At(r, "unpinned") /\ draft[r].node = n}

(* Registry.SetDest, for whoever calls it.                                 *)
SetDest(r, n, dest) ==
  /\ pin' = [pin EXCEPT ![n] = dest]
  /\ overlapped' = IF Unpinned(n) \ {r} = {} THEN overlapped \ {n} ELSE overlapped \cup {n}

(* A pin from settings or a reading that no longer hold moves what links   *)
(* say from under what the node was told.                                  *)
Pins(r) ==
  /\ At(r, "unpinned")
  /\ LET n == draft[r].node
         config == draft[r].config
     IN  /\ SetDest(r, n, config.dest)
         /\ draft' = [draft EXCEPT ![r] = [node |-> n, at |-> "ready", config |-> config]]
         /\ missed' = IF config.dest = PinnedDest(n) THEN missed ELSE missed \cup {n}
  /\ UNCHANGED <<settings, base, panel, watch, todo, link, rescuing, operator, behind, turns>>

Renders(r) == ReadsSettings(r) \/ ReadsPin(r) \/ Pins(r)
-----------------------------------------------------------------------------
(* SetNodeConfig: remember the rendering, then render and push to each     *)
(* node that has a session, one after the other.                           *)

SetNodeConfig(p, form) ==
  /\ base' = form
  /\ todo' = [todo EXCEPT ![p] = session]
  /\ missed' = missed \cup (Nodes \ session)

Render(p, n) ==
  /\ n \in todo[p]
  /\ Starts(p, n)
  /\ todo' = [todo EXCEPT ![p] = @ \ {n}]
  /\ UNCHANGED <<settings, base, pin, panel, watch, link, rescuing, operator, sent, overlapped, turns>>

(* A frame is overtaken when what it was rendered from has changed.        *)
Noted(n, config) == IF config = ConfigFor(n) THEN missed \ {n} ELSE missed \cup {n}
Dated(n, config) == IF config.version = settings.version THEN behind \ {n} ELSE behind \cup {n}

Sends(n, config) ==
  /\ n \in session /\ Len(wire[n]) < QueueDepth
  /\ wire' = [wire EXCEPT ![n] = Append(@, config)]
  /\ missed' = Noted(n, config) /\ behind' = Dated(n, config)

Push(p) ==
  /\ At(p, "ready")
  /\ LET n == draft[p].node IN
       \/ Sends(n, draft[p].config)
       \/ /\ n \notin session \/ Len(wire[n]) = QueueDepth
          /\ missed' = missed \cup {n} /\ behind' = behind \cup {n}
          /\ UNCHANGED wire
  /\ draft' = [draft EXCEPT ![p] = Nothing]
  /\ UNCHANGED <<settings, base, pin, panel, watch, todo, greeting, session, served, rescuing, operator,
                 overlapped, turns>>

(* Links and TurnProfiles render the node's config for a client, and probes*)
(* for themselves.                                                         *)
Links(c, n) ==
  /\ served[n] # Nothing
  /\ Starts(c, n)
  /\ UNCHANGED <<settings, base, pin, panel, watch, todo, link, rescuing, operator, sent, overlapped, turns>>

Linked(c) ==
  /\ At(c, "ready")
  /\ draft' = [draft EXCEPT ![c] = Nothing]
  /\ UNCHANGED <<settings, base, pin, panel, watch, todo, link, rescuing, operator, sent, overlapped, turns>>
-----------------------------------------------------------------------------
(* The panel.                                                              *)

Update(next) ==
  /\ settings.version < MaxVersion
  /\ settings' = [choice |-> next, version |-> settings.version + 1]

(* fromWire: a form that names no dest keeps the current one and its pool. *)
FromWire(save, cur) ==
  [dest |-> IF save.dest = NoDest THEN cur.dest ELSE save.dest,
   pool |-> IF save.dest = NoDest THEN cur.pool ELSE {},
   auto |-> save.auto, form |-> save.form]

PanelReads(save) ==
  /\ Turn
  /\ panel = Done /\ Free("panel")
  /\ save.dest # NoDest \/ save.auto
  /\ panel' = [at |-> "saving", next |-> FromWire(save, settings.choice)]
  /\ UNCHANGED <<settings, base, pin, watch, publishing, link, rescuing, operator, sent, overlapped>>

PanelSaves ==
  /\ panel.at = "saving"
  /\ \/ /\ Update(panel.next)
        /\ panel' = [at |-> "saved"]
        /\ chosen' = Operators(panel.next)
        /\ raced' = (watch.at = "writing") /\ refilled' = FALSE
        /\ UNCHANGED turns
     \/ /\ Turn
        /\ panel' = Done
        /\ UNCHANGED <<settings, operator>>
  /\ UNCHANGED <<base, pin, watch, publishing, link, rescuing, sent, overlapped>>

(* CurrentConfig: the rendering the new version will be stamped on.        *)
PanelTakes ==
  /\ panel.at = "saved"
  /\ panel' = [at |-> "pushing", base |-> base]
  /\ UNCHANGED <<settings, base, pin, watch, publishing, link, rescuing, operator, sent, overlapped, turns>>

PanelPushes ==
  /\ panel.at = "pushing"
  /\ SetNodeConfig("panel", panel.base)
  /\ panel' = Done
  /\ UNCHANGED <<settings, pin, watch, draft, link, rescuing, operator, behind, overlapped, turns>>
-----------------------------------------------------------------------------
(* The watcher: checkOnce.                                                 *)

WatchStarts ==
  /\ watch = Done /\ Free("watch")
  /\ settings.choice.auto
  /\ watch' = [at |-> "scanning", cur |-> settings.choice]
  /\ UNCHANGED <<settings, base, pin, panel, publishing, link, rescuing, operator, sent, overlapped, turns>>

(* The settings are read again once the scan is over: `found` is what held *)
(* up, nothing when the scan failed.  Who keeps the dest does not look     *)
(* whether it is still left to the head.                                   *)
MutReread(found, dest) == [watch.cur EXCEPT !.pool = found, !.dest = dest]

Reread(found, dest) == [settings.choice EXCEPT !.pool = found, !.dest = dest]

Kept(found) == watch.cur.dest \in found

WatchDecides(found) ==
  /\ watch.at = "scanning"
  /\ \/ /\ found = {} \/ (Kept(found) /\ watch.cur.pool = found)
        /\ watch' = Done
     \/ /\ found # {} /\ Kept(found) /\ watch.cur.pool # found
        /\ watch' = [at |-> "writing", next |-> Reread(found, settings.choice.dest)]
     \/ /\ found # {} /\ ~Kept(found)
        /\ IF settings.choice.auto
           THEN \E dest \in found : watch' = [at |-> "writing", next |-> Reread(found, dest)]
           ELSE watch' = Done
  /\ UNCHANGED <<settings, base, pin, panel, publishing, link, rescuing, operator, sent, overlapped, turns>>

WatchSaves ==
  /\ watch.at = "writing"
  /\ \/ /\ Update(watch.next)
        /\ watch' = [at |-> "notifying"]
        /\ refilled' = ~watch.next.auto
        /\ UNCHANGED turns
     \/ /\ Turn
        /\ watch' = Done
        /\ UNCHANGED <<settings, refilled>>
  /\ UNCHANGED <<base, pin, panel, publishing, link, rescuing, chosen, raced, sent, overlapped>>

WatchNotifies ==
  /\ watch.at = "notifying"
  /\ SetNodeConfig("watch", settings.choice.form)
  /\ watch' = Done
  /\ UNCHANGED <<settings, pin, panel, draft, link, rescuing, operator, behind, overlapped, turns>>
-----------------------------------------------------------------------------
(* The rescuer: a round, node by node.                                     *)

Capped(k, max) == IF k > max THEN max ELSE k

Rests(n) == [rested EXCEPT ![n] = Capped(@ + 1, Cooldown)]

Unmeasured(n) ==
  /\ Free("rescue")
  /\ rested' = Rests(n)
  /\ UNCHANGED <<settings, base, pin, panel, watch, publishing, link, misses, dark, operator, sent,
                 overlapped, turns>>

MutAlive(n) ==
  /\ Free("rescue")
  /\ rested' = Rests(n)
  /\ dark' = [dark EXCEPT ![n] = 0]
  /\ UNCHANGED <<settings, base, pin, panel, watch, publishing, link, misses, operator, sent, overlapped, turns>>

Alive(n) ==
  /\ Free("rescue")
  /\ misses' = [misses EXCEPT ![n] = 0]
  /\ rested' = Rests(n)
  /\ dark' = [dark EXCEPT ![n] = 0]
  /\ UNCHANGED <<settings, base, pin, panel, watch, publishing, link, operator, sent, overlapped, turns>>

(* PickDest: another of the pool, if it has two.                           *)
PickDest(n) == IF Cardinality(settings.choice.pool) < 2 THEN {} ELSE settings.choice.pool \ {pin[n]}

Darkens(n) == dark' = [dark EXCEPT ![n] = Capped(@ + 1, Failures)]

MaySwap(n) == misses[n] + 1 >= Failures /\ rested[n] = Cooldown

Dark(n) ==
  /\ Free("rescue")
  /\ ~MaySwap(n) \/ PickDest(n) = {}
  /\ misses' = [misses EXCEPT ![n] = Capped(@ + 1, Failures)]
  /\ rested' = Rests(n)
  /\ Darkens(n)
  /\ UNCHANGED <<settings, base, pin, panel, watch, publishing, link, operator, sent, overlapped, turns>>

MutSwap(n, dest) ==
  /\ Free("rescue") /\ Turn
  /\ MaySwap(n) /\ dest \in PickDest(n)
  /\ SetDest("rescue", n, dest)
  /\ misses' = [misses EXCEPT ![n] = 0] /\ rested' = [rested EXCEPT ![n] = 0]
  /\ Darkens(n)
  /\ UNCHANGED <<settings, base, panel, watch, publishing, link, operator, sent>>

(* SetDest, and the config is rendered and sent again at the same version. *)
Swap(n, dest) ==
  /\ Free("rescue") /\ Turn
  /\ MaySwap(n) /\ dest \in PickDest(n)
  /\ SetDest("rescue", n, dest)
  /\ SetNodeConfig("rescue", settings.choice.form)
  /\ misses' = [misses EXCEPT ![n] = 0] /\ rested' = [rested EXCEPT ![n] = 0]
  /\ Darkens(n)
  /\ UNCHANGED <<settings, panel, watch, draft, link, operator, behind>>
-----------------------------------------------------------------------------
(* Sessions.                                                               *)

(* Bound: a node dials again when the handler of its last session is done. *)
Connect(n) ==
  /\ n \notin session /\ draft[n] = Nothing
  /\ session' = session \cup {n}
  /\ greeting' = [greeting EXCEPT ![n] = [reported |-> Version(n)]]
  /\ behind' = behind \ {n}
  /\ UNCHANGED <<settings, base, pin, panel, watch, publishing, wire, served, rescuing, operator, missed,
                 overlapped, turns>>

(* Mutant: only a node that has no config is answered.                     *)
MutHello(n) ==
  /\ greeting[n] # Nothing
  /\ IF greeting[n].reported = 0 THEN Starts(n, n) /\ UNCHANGED greeting
     ELSE greeting' = [greeting EXCEPT ![n] = Nothing] /\ UNCHANGED draft
  /\ UNCHANGED <<settings, base, pin, panel, watch, todo, session, wire, served, rescuing, operator, sent,
                 overlapped, turns>>

Hello(n) ==
  /\ greeting[n] # Nothing
  /\ Starts(n, n)
  /\ UNCHANGED <<settings, base, pin, panel, watch, todo, link, rescuing, operator, sent, overlapped, turns>>

Closed(n) ==
  /\ session' = session \ {n}
  /\ greeting' = [greeting EXCEPT ![n] = Nothing]
  /\ wire' = [wire EXCEPT ![n] = <<>>]

(* The Hello is answered only when the versions differ and the session is  *)
(* still there; a queue that is full ends it.                              *)
Awaits(n, config) == greeting[n] # Nothing /\ greeting[n].reported # config.version

Answers(n, config) ==
  \/ /\ ~Awaits(n, config)
     /\ greeting' = [greeting EXCEPT ![n] = Nothing]
     /\ UNCHANGED <<session, wire, sent>>
  \/ /\ Awaits(n, config)
     /\ \/ /\ Sends(n, config)
           /\ greeting' = [greeting EXCEPT ![n] = Nothing]
           /\ UNCHANGED session
        \/ /\ Len(wire[n]) = QueueDepth
           /\ Closed(n)
           /\ missed' = missed \cup {n}
           /\ UNCHANGED behind

Greet(n) ==
  /\ At(n, "ready")
  /\ Answers(n, draft[n].config)
  /\ draft' = [draft EXCEPT ![n] = Nothing]
  /\ UNCHANGED <<settings, base, pin, panel, watch, todo, served, rescuing, operator, overlapped, turns>>

Deliver(n) ==
  /\ wire[n] # <<>>
  /\ served' = [served EXCEPT ![n] = Head(wire[n])]
  /\ wire' = [wire EXCEPT ![n] = Tail(@)]
  /\ UNCHANGED <<settings, base, pin, panel, watch, publishing, greeting, session, rescuing, operator, sent,
                 overlapped, turns>>

(* The handler, if it is rendering, goes on to the end.                    *)
Lose(n) ==
  /\ Turn
  /\ n \in session /\ Closed(n)
  /\ missed' = IF wire[n] = <<>> THEN missed ELSE missed \cup {n}
  /\ UNCHANGED <<settings, base, pin, panel, watch, publishing, served, rescuing, operator, behind, overlapped>>

(* The head starts again: the settings and the pins are stored, the config *)
(* is rendered from them.                                                  *)
Restart ==
  /\ Turn
  /\ base' = settings.choice.form
  /\ panel' = Done /\ watch' = Done
  /\ todo' = [p \in Publishers |-> {}] /\ draft' = [r \in Renderers |-> Nothing]
  /\ greeting' = [n \in Nodes |-> Nothing] /\ session' = {}
  /\ wire' = [n \in Nodes |-> <<>>]
  /\ misses' = [n \in Nodes |-> 0] /\ rested' = [n \in Nodes |-> Cooldown]
  /\ missed' = Nodes /\ behind' = {} /\ overlapped' = {}
  /\ UNCHANGED <<settings, pin, served, dark, operator>>
-----------------------------------------------------------------------------
Panel == (\E save \in Saves : PanelReads(save)) \/ PanelSaves \/ PanelTakes \/ PanelPushes
Watch == WatchStarts \/ (\E found \in Scans : WatchDecides(found)) \/ WatchSaves \/ WatchNotifies
Rescue == \E n \in Nodes : Unmeasured(n) \/ Alive(n) \/ Dark(n) \/ \E dest \in Dests : Swap(n, dest)
Publish(p) == Renders(p) \/ Push(p) \/ \E n \in Nodes : Render(p, n)
Talk(n) == Connect(n) \/ Hello(n) \/ Renders(n) \/ Greet(n) \/ Deliver(n)

Next ==
  \/ Panel \/ Watch \/ Rescue \/ Restart
  \/ \E p \in Publishers : Publish(p)
  \/ \E c \in Clients : Renders(c) \/ Linked(c) \/ \E n \in Nodes : Links(c, n)
  \/ \E n \in Nodes : Talk(n) \/ Lose(n)

Spec == Init /\ [][Next]_vars

(* Calls and loops end, agents dial again; nobody has to change anything,  *)
(* and no scan has to find anything.                                       *)
Fairness ==
  /\ WF_vars(PanelTakes \/ PanelPushes) /\ WF_vars(WatchNotifies)
  /\ \A p \in Publishers : WF_vars(Publish(p))
  /\ \A n \in Nodes : /\ WF_vars(Connect(n)) /\ WF_vars(Deliver(n))
                      /\ WF_vars(Hello(n) \/ Renders(n) \/ Greet(n))

FairSpec == Spec /\ Fairness
-----------------------------------------------------------------------------
(* A connected node serves what its links say, once nobody is at work:     *)
(* whoever changes what nodes look like also sends it to those that are    *)
(* connected.  Not so (missed) a node that was away when the last config   *)
(* went out at a version it has, whose frame was refused, lost or          *)
(* overtaken, or whose pin was moved by a rendering from what it had read  *)
(* before the pin was set or the settings saved (Pins).                    *)
Settled(n) == n \in session \ missed /\ greeting[n] = Nothing /\ wire[n] = <<>>
Quiet == panel.at \notin {"saved", "pushing"} /\ watch.at # "notifying" /\ \A p \in Publishers : Free(p)
ToldIsServed == Quiet => \A n \in Nodes : Settled(n) => served[n] = ConfigFor(n)

(* The dest the operator named is what a node without a pin gets.          *)
HandPicked == ~chosen.auto => \A n \in Nodes : DestFor(n) = chosen.dest

(* What the operator saved stays as it was saved, through scans that began *)
(* before it, but for a save between the watcher's second reading and its  *)
(* write (raced).  A dest named by hand is the one that nodes without a    *)
(* pin get, unless a scan that began before has since written its pool     *)
(* back, which it does without asking (refilled; checkOnce).               *)
OperatorIsObeyed ==
  raced \/ /\ settings.choice.auto = chosen.auto /\ settings.choice.form = chosen.form
           /\ ~chosen.auto => settings.choice.dest = chosen.dest
           /\ refilled \/ HandPicked

(* A dest that is in the links already handed out changes only for a node  *)
(* that probes found dark several rounds in a row (registry.SetDest), or   *)
(* when two renderings had both found no pin and each sets one             *)
(* (overlapped).                                                           *)
DestIsKept ==
  [][\A n \in Nodes :
       pin[n] \in Plausible /\ pin'[n] # pin[n] => dark'[n] = Failures \/ n \in overlapped]_vars

(* Every node gets to the version of the settings, whether it was there    *)
(* when they were saved, missed them or comes back later (fleet.Update,    *)
(* the Hello): all but those that in the session they have now were        *)
(* refused a push or sent an older config after a newer one (behind),      *)
(* which are behind until they dial again.                                 *)
NodesCatchUp == <>[](\A n \in Nodes : n \in behind \/ Version(n) = settings.version)

=============================================================================
