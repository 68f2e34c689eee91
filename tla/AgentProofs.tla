----------------------------- MODULE AgentProofs -----------------------------
(* Theorems about what agents are told and what clients leave with them:   *)
(* FleetConfig, for any nodes, dests, pools and forms, any number of panel *)
(* calls, scans, swaps, lost sessions and restarts; and Receipts, for any  *)
(* receipts, room at the door, keys, versions and faults.                  *)
EXTENDS FleetConfig, Receipts, SequenceTheorems, FiniteSetTheorems, TLAPS

(* A node has a dest, whatever its row and the pool say.                   *)
LEMMA ConfigType ==
  ASSUME TypeOK, NEW n \in Nodes
  PROVE  DestFor(n) \in Dests /\ PinnedDest(n) \in Dests /\ ConfigFor(n) \in Configs
<1>1. settings.choice.dest \in Dests /\ settings.choice.pool \in SUBSET Dests /\ settings.version \in 1..MaxVersion
  BY DEF TypeOK, Settings, Selections
<1>2. DestFor(n) \in Dests
  BY <1>1, FleetConfigAssumption DEF DestFor
<1>3. PinnedDest(n) \in Dests
  BY <1>2, FleetConfigAssumption DEF PinnedDest
<1>4. ConfigFor(n) \in Configs
  BY <1>1, <1>3 DEF TypeOK, ConfigFor, Configs
<1> QED BY <1>2, <1>3, <1>4

(* What a call and a check carry along, by where they are.                 *)
LEMMA PanelFields ==
  ASSUME TypeOK
  PROVE  /\ panel.at = "saving" => panel.next \in Selections
         /\ panel.at = "pushing" => panel.base \in Forms
BY DEF TypeOK, Done

LEMMA WatchFields ==
  ASSUME TypeOK
  PROVE  /\ watch.at = "scanning" => watch.cur \in Selections
         /\ watch.at = "writing" => watch.next \in Selections
BY DEF TypeOK, Done

LEMMA DraftFields ==
  ASSUME TypeOK, NEW r \in Renderers, draft[r] # Nothing
  PROVE  /\ draft[r].node \in Nodes
         /\ draft[r].at = "settings" => draft[r].form \in Forms
         /\ draft[r].at # "settings" => draft[r].config \in Configs
BY DEF TypeOK, Drafts

LEMMA NodesRender == Nodes \subseteq Renderers /\ Publishers \subseteq Renderers /\ Clients \subseteq Renderers
BY DEF Renderers

(* A renderer comes to a draft of its own, for the node it is at.          *)
LEMMA DraftType ==
  ASSUME TypeOK, NEW r \in Renderers, NEW d \in {Nothing} \cup Drafts
  PROVE  /\ [draft EXCEPT ![r] = d] \in [Renderers -> {Nothing} \cup Drafts]
         /\ \A k \in Renderers : [draft EXCEPT ![r] = d][k] = IF k = r THEN d ELSE draft[k]
BY DEF TypeOK

LEMMA StartsType ==
  ASSUME TypeOK, NEW r \in Renderers, NEW n \in Nodes, Starts(r, n)
  PROVE  /\ draft' \in [Renderers -> {Nothing} \cup Drafts]
         /\ draft'[r] # Nothing /\ draft'[r].at = "settings" /\ draft'[r].node = n
         /\ \A k \in Renderers \ {r} : draft'[k] = draft[k]
<1> DEFINE d == [node |-> n, at |-> "settings", form |-> base]
<1>1. d \in Drafts /\ d.at = "settings" /\ d.node = n
  BY DEF TypeOK, Drafts
<1>2. d # Nothing
  BY <1>1, NothingAssumption
<1>3. draft' = [draft EXCEPT ![r] = d]
  BY DEF Starts
<1> HIDE DEF d
<1> QED BY <1>1, <1>2, <1>3, DraftType

(* The version of a draft is that of the settings it was made from.        *)
LEMMA RendersType ==
  ASSUME TypeOK, NEW r \in Renderers, Renders(r)
  PROVE  /\ draft[r] # Nothing /\ draft[r].at \in {"settings", "pin", "unpinned"}
         /\ draft' \in [Renderers -> {Nothing} \cup Drafts]
         /\ draft'[r] # Nothing /\ draft'[r].node = draft[r].node /\ draft'[r].at # "settings"
         /\ draft'[r].config.version
              = IF draft[r].at = "settings" THEN settings.version ELSE draft[r].config.version
         /\ \A k \in Renderers \ {r} : draft'[k] = draft[k]
<1>1. draft[r] # Nothing
  BY DEF Renders, ReadsSettings, ReadsPin, Pins, At
<1>2. draft[r].at \in {"settings", "pin", "unpinned"}
  BY DEF Renders, ReadsSettings, ReadsPin, Pins, At
<1>3. draft[r].node \in Nodes
  BY <1>1, DraftFields
<1>4. \E config \in Configs, at \in {"pin", "unpinned", "ready"} :
        /\ draft' = [draft EXCEPT ![r] = [node |-> draft[r].node, at |-> at, config |-> config]]
        /\ config.version = IF draft[r].at = "settings" THEN settings.version ELSE draft[r].config.version
  <2>1. CASE ReadsSettings(r)
    <3> DEFINE config == [version |-> settings.version, dest |-> DestFor(draft[r].node), form |-> draft[r].form]
    <3>1. draft[r].at = "settings" /\ draft[r].form \in Forms
      BY <1>1, <2>1, DraftFields DEF ReadsSettings, At
    <3>2. settings.version \in 1..MaxVersion /\ DestFor(draft[r].node) \in Dests
      BY <1>3, ConfigType DEF TypeOK, Settings
    <3>3. config \in Configs /\ config.version = settings.version
      BY <3>1, <3>2 DEF Configs
    <3>4. draft' = [draft EXCEPT ![r] = [node |-> draft[r].node, at |-> "pin", config |-> config]]
      BY <2>1 DEF ReadsSettings
    <3> HIDE DEF config
    <3> QED BY <3>1, <3>3, <3>4
  <2>2. CASE ReadsPin(r)
    <3>1. draft[r].at = "pin" /\ draft[r].config \in Configs
      BY <1>1, <2>2, DraftFields DEF ReadsPin, At
    <3>2. CASE pin[draft[r].node] \in Plausible
      <4> DEFINE config == [draft[r].config EXCEPT !.dest = pin[draft[r].node]]
      <4>1. config \in Configs /\ config.version = draft[r].config.version
        BY <3>1, <3>2, FleetConfigAssumption DEF Configs
      <4>2. draft' = [draft EXCEPT ![r] = [node |-> draft[r].node, at |-> "ready", config |-> config]]
        BY <2>2, <3>2 DEF ReadsPin
      <4> HIDE DEF config
      <4> QED BY <3>1, <4>1, <4>2
    <3>3. CASE pin[draft[r].node] \notin Plausible
      <4>1. draft' = [draft EXCEPT ![r] = [node |-> draft[r].node, at |-> "unpinned", config |-> draft[r].config]]
        BY <2>2, <3>3 DEF ReadsPin
      <4> QED BY <3>1, <4>1
    <3> QED BY <3>2, <3>3
  <2>3. CASE Pins(r)
    <3>1. draft[r].at = "unpinned" /\ draft[r].config \in Configs
      BY <1>1, <2>3, DraftFields DEF Pins, At
    <3>2. draft' = [draft EXCEPT ![r] = [node |-> draft[r].node, at |-> "ready", config |-> draft[r].config]]
      BY <2>3 DEF Pins
    <3> QED BY <3>1, <3>2
  <2> QED BY <2>1, <2>2, <2>3 DEF Renders
<1>5. PICK config \in Configs, at \in {"pin", "unpinned", "ready"} :
        /\ draft' = [draft EXCEPT ![r] = [node |-> draft[r].node, at |-> at, config |-> config]]
        /\ config.version = IF draft[r].at = "settings" THEN settings.version ELSE draft[r].config.version
  BY <1>4
<1> DEFINE d == [node |-> draft[r].node, at |-> at, config |-> config]
<1>6. d \in Drafts /\ d.at # "settings" /\ d.node = draft[r].node /\ d.config = config
  BY <1>3 DEF Drafts
<1>7. d # Nothing
  BY <1>6, NothingAssumption
<1>8. draft' = [draft EXCEPT ![r] = d]
  BY <1>5
<1> HIDE DEF d
<1> QED BY <1>1, <1>2, <1>5, <1>6, <1>7, <1>8, DraftType

(* Reading changes nothing; a pin is set for the node rendered.            *)
LEMMA RendersFrame ==
  ASSUME TypeOK, NEW r \in Renderers, Renders(r)
  PROVE  /\ UNCHANGED <<settings, base, panel, watch, todo, greeting, session, wire, served, misses, rested, dark,
                        chosen, raced, refilled, behind, turns>>
         /\ UNCHANGED <<pin, missed, overlapped>> \/ Pins(r)
BY DEF Renders, ReadsSettings, ReadsPin, Pins, link, rescuing, operator, sent

LEMMA SetDestType ==
  ASSUME TypeOK, NEW r \in Renderers, NEW n \in Nodes, NEW dest \in Dests, SetDest(r, n, dest)
  PROVE  pin' \in [Nodes -> Dests \cup {NoDest}] /\ overlapped' \subseteq Nodes
BY DEF TypeOK, SetDest

(* The settings, as what is read and written of them.                      *)
LEMMA RereadFacts ==
  ASSUME TypeOK, NEW found \in SUBSET Dests, NEW dest \in Dests
  PROVE  /\ Reread(found, dest) \in Selections
         /\ Reread(found, dest).auto = settings.choice.auto
         /\ Reread(found, dest).form = settings.choice.form
         /\ Reread(found, dest).dest = dest
BY DEF TypeOK, Settings, Selections, Reread

LEMMA FromWireType ==
  ASSUME NEW save \in Saves, NEW cur \in Selections
  PROVE  FromWire(save, cur) \in Selections
<1>1. /\ save.dest \in Dests \cup {NoDest} /\ save.auto \in BOOLEAN /\ save.form \in Forms
  BY FleetConfigAssumption
<1>2. cur.dest \in Dests /\ cur.pool \in SUBSET Dests
  BY DEF Selections
<1> QED BY <1>1, <1>2 DEF FromWire, Selections

LEMMA UpdateType ==
  ASSUME TypeOK, NEW next \in Selections, Update(next)
  PROVE  settings' \in Settings
BY FleetConfigAssumption DEF TypeOK, Update, Settings

(* A frame is added at the end of a queue that has room for it.            *)
LEMMA SendsType ==
  ASSUME TypeOK, NEW n \in Nodes, NEW config \in Configs, Sends(n, config)
  PROVE  /\ wire' \in [Nodes -> Seq(Configs)] /\ \A k \in Nodes : Len(wire'[k]) <= QueueDepth
         /\ missed' \subseteq Nodes /\ behind' \subseteq Nodes
<1>1. /\ wire[n] \in Seq(Configs) /\ Len(wire[n]) < QueueDepth
      /\ wire' = [wire EXCEPT ![n] = Append(@, config)]
  BY DEF TypeOK, Sends
<1>2. Append(wire[n], config) \in Seq(Configs) /\ Len(Append(wire[n], config)) = Len(wire[n]) + 1
  BY <1>1
<1>3. Len(wire[n]) + 1 <= QueueDepth
  BY <1>1, FleetConfigAssumption
<1>4. missed' \subseteq Nodes /\ behind' \subseteq Nodes
  BY DEF TypeOK, Sends, Noted, Dated
<1> QED BY <1>1, <1>2, <1>3, <1>4 DEF TypeOK

LEMMA EmptyWires ==
  ASSUME TypeOK, NEW n \in Nodes
  PROVE  LET empty == [wire EXCEPT ![n] = <<>>]
         IN  empty \in [Nodes -> Seq(Configs)] /\ \A k \in Nodes : Len(empty[k]) <= QueueDepth
<1>1. <<>> \in Seq(Configs) /\ Len(<<>>) = 0 /\ 0 <= QueueDepth
  BY FleetConfigAssumption
<1> QED BY <1>1 DEF TypeOK

(* Counters stay within their bounds.                                      *)
LEMMA CappedFacts ==
  ASSUME NEW k \in Nat, NEW max \in Nat
  PROVE  /\ Capped(k, max) \in 0..max
         /\ k <= max => Capped(k, max) = k /\ (k >= max => Capped(k, max) = max)
BY DEF Capped

LEMMA RestsType ==
  ASSUME TypeOK, NEW n \in Nodes
  PROVE  Rests(n) \in [Nodes -> 0..Cooldown]
<1>1. rested[n] + 1 \in Nat
  BY DEF TypeOK
<1>2. Capped(rested[n] + 1, Cooldown) \in 0..Cooldown
  BY <1>1, CappedFacts, FleetConfigAssumption
<1> QED BY <1>2 DEF TypeOK, Rests

LEMMA DarkensType ==
  ASSUME TypeOK, NEW n \in Nodes, Darkens(n)
  PROVE  dark' \in [Nodes -> 0..Failures]
<1>1. dark[n] + 1 \in Nat
  BY DEF TypeOK
<1>2. Capped(dark[n] + 1, Failures) \in 0..Failures
  BY <1>1, CappedFacts, FleetConfigAssumption
<1> QED BY <1>2 DEF TypeOK, Darkens

LEMMA SetNodeConfigType ==
  ASSUME TypeOK, NEW p \in Publishers, NEW form \in Forms, SetNodeConfig(p, form)
  PROVE  base' \in Forms /\ todo' \in [Publishers -> SUBSET Nodes] /\ missed' \subseteq Nodes
BY DEF TypeOK, SetNodeConfig
-----------------------------------------------------------------------------
LEMMA TypesInit == Init => TypeOK
<1> SUFFICES ASSUME Init PROVE TypeOK
  OBVIOUS
<1>1. /\ chosen \in [dest : Dests, auto : BOOLEAN, form : Forms] /\ base \in Forms
  BY FleetConfigAssumption DEF Init
<1>2. settings \in Settings
  BY <1>1, FleetConfigAssumption DEF Init, Settings, Selections
<1>3. wire \in [Nodes -> Seq(Configs)] /\ \A n \in Nodes : Len(wire[n]) <= QueueDepth
  BY FleetConfigAssumption DEF Init
<1>4. panel = Done /\ watch = Done
  BY DEF Init
<1>5. /\ todo \in [Publishers -> SUBSET Nodes]
      /\ draft \in [Renderers -> {Nothing} \cup Drafts]
      /\ greeting \in [Nodes -> {Nothing} \cup Hellos]
      /\ served \in [Nodes -> {Nothing} \cup Configs] /\ pin \in [Nodes -> Dests \cup {NoDest}]
  BY DEF Init
<1>6. /\ misses \in [Nodes -> 0..Failures] /\ dark \in [Nodes -> 0..Failures]
      /\ rested \in [Nodes -> 0..Cooldown] /\ turns \in 0..MaxTurns
  BY FleetConfigAssumption DEF Init
<1>7. /\ session \subseteq Nodes /\ raced \in BOOLEAN /\ refilled \in BOOLEAN
      /\ missed \subseteq Nodes /\ behind \subseteq Nodes /\ overlapped \subseteq Nodes
  BY DEF Init
<1> QED BY <1>1, <1>2, <1>3, <1>4, <1>5, <1>6, <1>7 DEF TypeOK

(* One step per action.                                                    *)
LEMMA TypesStep == TypeOK /\ [Next]_vars => TypeOK'
<1> SUFFICES ASSUME TypeOK, [Next]_vars PROVE TypeOK'
  OBVIOUS
<1> USE FleetConfigAssumption
<1>1. ASSUME NEW save \in Saves, PanelReads(save) PROVE TypeOK'
  <2>1. FromWire(save, settings.choice) \in Selections
    BY FromWireType DEF TypeOK, Settings
  <2> QED BY <1>1, <2>1 DEF TypeOK, PanelReads, Turn, publishing, link, rescuing, operator, sent
<1>2. CASE PanelSaves
  <2>1. panel.next \in Selections
    BY <1>2, PanelFields DEF PanelSaves
  <2>2. settings' \in Settings
    BY <1>2, <2>1, UpdateType DEF PanelSaves, TypeOK
  <2>3. chosen' \in [dest : Dests, auto : BOOLEAN, form : Forms]
    BY <1>2, <2>1 DEF PanelSaves, Operators, Selections, TypeOK, operator
  <2>4. raced \in BOOLEAN /\ refilled \in BOOLEAN
    BY DEF TypeOK
  <2>6. raced' \in BOOLEAN /\ refilled' \in BOOLEAN
    BY <1>2, <2>4, Zenon DEF PanelSaves, operator
  <2>7. panel' = Done \/ panel' = [at |-> "saved"]
    BY <1>2, Zenon DEF PanelSaves
  <2>5. turns' \in 0..MaxTurns
    BY <1>2 DEF PanelSaves, TypeOK, Turn
  <2> QED BY <1>2, <2>2, <2>3, <2>5, <2>6, <2>7 DEF TypeOK, PanelSaves, publishing, link, rescuing, sent
<1>3. CASE PanelTakes
  BY <1>3 DEF TypeOK, PanelTakes, publishing, link, rescuing, operator, sent
<1>4. CASE PanelPushes
  <2>1. panel.base \in Forms /\ SetNodeConfig("panel", panel.base)
    BY <1>4, PanelFields DEF PanelPushes
  <2>2. base' \in Forms /\ todo' \in [Publishers -> SUBSET Nodes] /\ missed' \subseteq Nodes
    BY <2>1, SetNodeConfigType DEF Publishers
  <2> QED BY <1>4, <2>2 DEF TypeOK, PanelPushes, link, rescuing, operator
<1>5. CASE WatchStarts
  <2>1. settings.choice \in Selections
    BY DEF TypeOK, Settings
  <2> QED BY <1>5, <2>1 DEF TypeOK, WatchStarts, publishing, link, rescuing, operator, sent
<1>6. ASSUME NEW found \in Scans, WatchDecides(found) PROVE TypeOK'
  <2>1. found \in SUBSET Dests /\ settings.choice.dest \in Dests
    BY DEF TypeOK, Settings, Selections
  <2>2. \A dest \in Dests : Reread(found, dest) \in Selections
    BY <2>1, RereadFacts
  <2>3. watch' = Done \/ watch' \in [at : {"writing"}, next : Selections]
    BY <1>6, <2>1, <2>2 DEF WatchDecides
  <2> QED BY <1>6, <2>3 DEF TypeOK, WatchDecides, publishing, link, rescuing, operator, sent
<1>7. CASE WatchSaves
  <2>1. watch.next \in Selections
    BY <1>7, WatchFields DEF WatchSaves
  <2>2. settings' \in Settings
    BY <1>7, <2>1, UpdateType DEF WatchSaves, TypeOK
  <2>3. refilled' \in BOOLEAN
    <3>1. watch.next.auto \in BOOLEAN /\ refilled \in BOOLEAN
      BY <2>1 DEF Selections, TypeOK
    <3> QED BY <1>7, <3>1, Zenon DEF WatchSaves
  <2>4. watch' = Done \/ watch' = [at |-> "notifying"]
    BY <1>7, Zenon DEF WatchSaves
  <2>5. turns' \in 0..MaxTurns
    BY <1>7 DEF WatchSaves, TypeOK, Turn
  <2> QED BY <1>7, <2>2, <2>3, <2>4, <2>5 DEF TypeOK, WatchSaves, publishing, link, rescuing, sent
<1>8. CASE WatchNotifies
  <2>1. settings.choice.form \in Forms /\ SetNodeConfig("watch", settings.choice.form)
    BY <1>8 DEF WatchNotifies, TypeOK, Settings, Selections
  <2>2. base' \in Forms /\ todo' \in [Publishers -> SUBSET Nodes] /\ missed' \subseteq Nodes
    BY <2>1, SetNodeConfigType DEF Publishers
  <2> QED BY <1>8, <2>2 DEF TypeOK, WatchNotifies, link, rescuing, operator
<1>9. ASSUME NEW n \in Nodes, Unmeasured(n) PROVE TypeOK'
  BY <1>9, RestsType DEF TypeOK, Unmeasured, publishing, link, operator, sent
<1>10. ASSUME NEW n \in Nodes, Alive(n) PROVE TypeOK'
  <2>1. /\ rested' \in [Nodes -> 0..Cooldown]
        /\ misses' \in [Nodes -> 0..Failures] /\ dark' \in [Nodes -> 0..Failures]
    BY <1>10, RestsType DEF TypeOK, Alive
  <2> QED BY <1>10, <2>1 DEF TypeOK, Alive, publishing, link, operator, sent
<1>11. ASSUME NEW n \in Nodes, Dark(n) PROVE TypeOK'
  <2>1. dark' \in [Nodes -> 0..Failures] /\ rested' \in [Nodes -> 0..Cooldown]
    BY <1>11, RestsType, DarkensType DEF Dark
  <2>2. misses[n] + 1 \in Nat /\ Failures \in Nat
    BY DEF TypeOK
  <2>3. Capped(misses[n] + 1, Failures) \in 0..Failures
    BY <2>2, CappedFacts
  <2> QED BY <1>11, <2>1, <2>3 DEF TypeOK, Dark, publishing, link, operator, sent
<1>12. ASSUME NEW n \in Nodes, NEW dest \in Dests, Swap(n, dest) PROVE TypeOK'
  <2>1. settings.choice.form \in Forms /\ SetNodeConfig("rescue", settings.choice.form)
    BY <1>12 DEF Swap, TypeOK, Settings, Selections
  <2>2. base' \in Forms /\ todo' \in [Publishers -> SUBSET Nodes] /\ missed' \subseteq Nodes
    BY <2>1, SetNodeConfigType DEF Publishers
  <2>3. dark' \in [Nodes -> 0..Failures]
    BY <1>12, DarkensType DEF Swap
  <2>4. /\ rested' \in [Nodes -> 0..Cooldown] /\ misses' \in [Nodes -> 0..Failures]
        /\ turns' \in 0..MaxTurns
    BY <1>12 DEF TypeOK, Swap, Turn
  <2>5. pin' \in [Nodes -> Dests \cup {NoDest}] /\ overlapped' \subseteq Nodes
    BY <1>12, SetDestType, NodesRender DEF Swap, Publishers
  <2> QED BY <1>12, <2>2, <2>3, <2>4, <2>5 DEF TypeOK, Swap, link, operator
<1>13. ASSUME NEW p \in Publishers, NEW n \in Nodes, Render(p, n) PROVE TypeOK'
  <2>1. draft' \in [Renderers -> {Nothing} \cup Drafts]
    BY <1>13, StartsType, NodesRender DEF Render
  <2> QED BY <1>13, <2>1 DEF TypeOK, Render, link, rescuing, operator, sent
<1>14. ASSUME NEW p \in Publishers, Push(p) PROVE TypeOK'
  <2> DEFINE n == draft[p].node
             config == draft[p].config
  <2>1. n \in Nodes /\ config \in Configs
    BY <1>14, DraftFields, NodesRender DEF Push, At
  <2>2. /\ wire' \in [Nodes -> Seq(Configs)] /\ \A k \in Nodes : Len(wire'[k]) <= QueueDepth
        /\ missed' \subseteq Nodes /\ behind' \subseteq Nodes
    <3>1. CASE Sends(n, config)
      <4> HIDE DEF n, config
      <4> QED BY <2>1, <3>1, SendsType
    <3>2. CASE missed' = missed \cup {n} /\ behind' = behind \cup {n} /\ UNCHANGED wire
      BY <2>1, <3>2 DEF TypeOK
    <3> QED BY <1>14, <3>1, <3>2 DEF Push
  <2>3. draft' \in [Renderers -> {Nothing} \cup Drafts]
    BY <1>14, DraftType, NodesRender DEF Push
  <2> QED BY <1>14, <2>2, <2>3 DEF TypeOK, Push, rescuing, operator
<1>15. ASSUME NEW n \in Nodes, Connect(n) PROVE TypeOK'
  <2>1. Version(n) \in 0..MaxVersion
    BY DEF TypeOK, Version, Configs
  <2>2. greeting' \in [Nodes -> {Nothing} \cup Hellos]
    BY <1>15, <2>1 DEF TypeOK, Connect, Hellos
  <2> QED BY <1>15, <2>2 DEF TypeOK, Connect, publishing, rescuing, operator
<1>16. ASSUME NEW n \in Nodes, Hello(n) PROVE TypeOK'
  <2>1. draft' \in [Renderers -> {Nothing} \cup Drafts]
    BY <1>16, StartsType, NodesRender DEF Hello
  <2> QED BY <1>16, <2>1 DEF TypeOK, Hello, link, rescuing, operator, sent
<1>17. ASSUME NEW n \in Nodes, Greet(n) PROVE TypeOK'
  <2> DEFINE config == draft[n].config
  <2>1. config \in Configs /\ Answers(n, config)
    BY <1>17, DraftFields, NodesRender DEF Greet, At
  <2>2. /\ wire' \in [Nodes -> Seq(Configs)] /\ \A k \in Nodes : Len(wire'[k]) <= QueueDepth
        /\ missed' \subseteq Nodes /\ behind' \subseteq Nodes /\ session' \subseteq Nodes
    <3> HIDE DEF config
    <3>1. CASE Sends(n, config) /\ UNCHANGED session
      <4>1. session' \subseteq Nodes
        BY <3>1 DEF TypeOK
      <4> QED BY <2>1, <3>1, <4>1, SendsType
    <3>2. CASE Closed(n) /\ missed' = missed \cup {n} /\ UNCHANGED behind
      <4>1. /\ session' \subseteq Nodes /\ missed' \subseteq Nodes /\ behind' \subseteq Nodes
            /\ wire' = [wire EXCEPT ![n] = <<>>]
        BY <3>2 DEF TypeOK, Closed
      <4> QED BY <4>1, EmptyWires
    <3>3. CASE UNCHANGED <<session, wire, sent>>
      BY <3>3 DEF TypeOK, sent
    <3> QED BY <2>1, <3>1, <3>2, <3>3 DEF Answers
  <2>3. greeting' \in [Nodes -> {Nothing} \cup Hellos]
    <3>1. greeting' = [greeting EXCEPT ![n] = Nothing]
      BY <2>1 DEF Answers, Closed
    <3> QED BY <3>1 DEF TypeOK
  <2>4. draft' \in [Renderers -> {Nothing} \cup Drafts]
    BY <1>17, DraftType, NodesRender DEF Greet
  <2> QED BY <1>17, <2>2, <2>3, <2>4 DEF TypeOK, Greet, rescuing, operator
<1>18. ASSUME NEW n \in Nodes, Deliver(n) PROVE TypeOK'
  <2>1. wire[n] \in Seq(Configs) /\ wire[n] # <<>> /\ Len(wire[n]) <= QueueDepth
    BY <1>18 DEF TypeOK, Deliver
  <2>2. Head(wire[n]) \in Configs /\ Tail(wire[n]) \in Seq(Configs) /\ Len(Tail(wire[n])) <= QueueDepth
    BY <2>1
  <2> QED BY <1>18, <2>2 DEF TypeOK, Deliver, publishing, rescuing, operator, sent
<1>19. ASSUME NEW c \in Clients, NEW n \in Nodes, Links(c, n) PROVE TypeOK'
  <2>1. draft' \in [Renderers -> {Nothing} \cup Drafts]
    BY <1>19, StartsType, NodesRender DEF Links
  <2> QED BY <1>19, <2>1 DEF TypeOK, Links, link, rescuing, operator, sent
<1>20. ASSUME NEW c \in Clients, Linked(c) PROVE TypeOK'
  <2>1. draft' \in [Renderers -> {Nothing} \cup Drafts]
    BY <1>20, DraftType, NodesRender DEF Linked
  <2> QED BY <1>20, <2>1 DEF TypeOK, Linked, link, rescuing, operator, sent
<1>21. ASSUME NEW n \in Nodes, Lose(n) PROVE TypeOK'
  BY <1>21, EmptyWires DEF TypeOK, Lose, Closed, Turn, publishing, rescuing, operator
<1>22. CASE Restart
  <2>1. base' \in Forms
    BY <1>22 DEF Restart, TypeOK, Settings, Selections
  <2>2. wire' \in [Nodes -> Seq(Configs)] /\ \A n \in Nodes : Len(wire'[n]) <= QueueDepth
    BY <1>22 DEF Restart
  <2> QED BY <1>22, <2>1, <2>2 DEF TypeOK, Restart, Turn, Done, operator
<1>23. ASSUME NEW r \in Renderers, Renders(r) PROVE TypeOK'
  <2>1. draft' \in [Renderers -> {Nothing} \cup Drafts]
    BY <1>23, RendersType
  <2>2. /\ pin' \in [Nodes -> Dests \cup {NoDest}] /\ overlapped' \subseteq Nodes /\ missed' \subseteq Nodes
    <3>1. CASE UNCHANGED <<pin, missed, overlapped>>
      BY <3>1 DEF TypeOK
    <3>2. CASE Pins(r)
      <4> DEFINE n == draft[r].node
                 dest == draft[r].config.dest
      <4>1. n \in Nodes /\ dest \in Dests
        BY <3>2, DraftFields DEF Pins, At, Configs
      <4>2. SetDest(r, n, dest) /\ (missed' = missed \/ missed' = missed \cup {n})
        BY <3>2 DEF Pins
      <4> HIDE DEF n, dest
      <4> QED BY <4>1, <4>2, SetDestType DEF TypeOK
    <3> QED BY <1>23, <3>1, <3>2, RendersFrame
  <2> QED BY <1>23, <2>1, <2>2, RendersFrame DEF TypeOK
<1>24. CASE UNCHANGED vars
  BY <1>24 DEF TypeOK, vars, publishing, link, rescuing, operator, sent
<1> QED BY <1>1, <1>2, <1>3, <1>4, <1>5, <1>6, <1>7, <1>8, <1>9, <1>10, <1>11, <1>12, <1>13, <1>14, <1>15,
           <1>16, <1>17, <1>18, <1>19, <1>20, <1>21, <1>22, <1>23, <1>24, NodesRender
        DEF Next, Panel, Watch, Rescue, Publish, Talk

(* Type correctness.                                                       *)
THEOREM FleetConfigTyped == Spec => []TypeOK
BY TypesInit, TypesStep, PTL DEF Spec
-----------------------------------------------------------------------------
(* The operator's word.                                                    *)

(* What somebody is about to write agrees with it as what is written does. *)
Obeys(choice) ==
  /\ choice.auto = chosen.auto /\ choice.form = chosen.form
  /\ ~chosen.auto => choice.dest = chosen.dest

(* And nobody but the watcher writes a pool beside a dest named by hand.   *)
NoPool(choice) == ~choice.auto => choice.pool = {}

ObeyInv ==
  /\ panel.at = "saving" => NoPool(panel.next)
  /\ raced \/ /\ Obeys(settings.choice) /\ (watch.at = "writing" => Obeys(watch.next))
              /\ refilled \/ NoPool(settings.choice)

Word == <<settings, panel, watch, chosen, raced, refilled>>

LEMMA ObeyInit == Init => ObeyInv
BY DEF Init, ObeyInv, Obeys, NoPool, Done

(* Whoever names a dest by hand saves no pool with it (fromWire).          *)
LEMMA FromWireHasNoPool ==
  ASSUME NEW save \in Saves, NEW cur \in Selections, save.dest # NoDest \/ save.auto
  PROVE  NoPool(FromWire(save, cur))
BY FleetConfigAssumption DEF NoPool, FromWire

LEMMA ObeyStep == TypeOK /\ ObeyInv /\ [Next]_vars => ObeyInv'
<1> SUFFICES ASSUME TypeOK, ObeyInv, [Next]_vars PROVE ObeyInv'
  OBVIOUS
<1>1. CASE PanelSaves
  <2>1. CASE UNCHANGED <<settings, chosen, raced, refilled, watch>> /\ panel' = Done
    BY <2>1 DEF ObeyInv, Obeys, NoPool, Done
  <2>2. CASE /\ settings'.choice = panel.next /\ chosen' = Operators(panel.next)
             /\ raced' = (watch.at = "writing") /\ watch' = watch /\ panel' = [at |-> "saved"]
    <3>1. panel.next.auto = chosen'.auto /\ panel.next.form = chosen'.form /\ panel.next.dest = chosen'.dest
      BY <2>2 DEF Operators
    <3>2. raced' \/ watch'.at # "writing"
      BY <2>2, Zenon
    <3>3. NoPool(panel.next)
      BY <1>1 DEF ObeyInv, PanelSaves
    <3> QED BY <2>2, <3>1, <3>2, <3>3 DEF ObeyInv, Obeys, NoPool
  <2>3. watch' = watch
    BY <1>1 DEF PanelSaves
  <2>4. \/ UNCHANGED <<settings, chosen, raced, refilled>> /\ panel' = Done
        \/ /\ Update(panel.next) /\ chosen' = Operators(panel.next) /\ raced' = (watch.at = "writing")
           /\ panel' = [at |-> "saved"]
    BY <1>1, Zenon DEF PanelSaves, operator
  <2>5. Update(panel.next) => settings'.choice = panel.next
    BY DEF Update
  <2> QED BY <2>1, <2>2, <2>3, <2>4, <2>5
<1>2. ASSUME NEW found \in Scans, WatchDecides(found) PROVE ObeyInv'
  <2>1. found \in SUBSET Dests /\ settings.choice.dest \in Dests
    BY FleetConfigAssumption DEF TypeOK, Settings, Selections
  <2>2. UNCHANGED <<settings, panel, chosen, raced, refilled>>
    BY <1>2 DEF WatchDecides, operator
  <2>3. CASE watch' = Done
    BY <2>2, <2>3 DEF ObeyInv, Obeys, NoPool, Done
  <2>4. CASE watch' = [at |-> "writing", next |-> Reread(found, settings.choice.dest)]
    <3>1. watch'.next = Reread(found, settings.choice.dest)
      BY <2>4
    <3> QED BY <2>1, <2>2, <3>1, RereadFacts DEF ObeyInv, Obeys, NoPool
  <2>5. ASSUME settings.choice.auto, NEW dest \in found,
               watch' = [at |-> "writing", next |-> Reread(found, dest)]
        PROVE  ObeyInv'
    <3>1. watch'.next = Reread(found, dest) /\ dest \in Dests
      BY <2>1, <2>5
    <3>2. /\ watch'.next.auto = settings.choice.auto /\ watch'.next.form = settings.choice.form
      BY <2>1, <3>1, RereadFacts
    <3> QED BY <2>2, <2>5, <3>2 DEF ObeyInv, Obeys, NoPool
  <2> QED BY <1>2, <2>3, <2>4, <2>5 DEF WatchDecides
<1>3. CASE WatchSaves
  <2>1. watch.at = "writing" /\ watch'.at # "writing" /\ UNCHANGED <<panel, chosen, raced>>
    BY <1>3 DEF WatchSaves, Done
  <2>2. CASE settings' = settings /\ refilled' = refilled
    BY <2>1, <2>2 DEF ObeyInv, Obeys, NoPool
  <2>3. CASE settings'.choice = watch.next /\ refilled' = ~watch.next.auto
    <3>1. refilled' \/ NoPool(settings.choice)'
      BY <2>3 DEF NoPool
    <3> QED BY <2>1, <2>3, <3>1 DEF ObeyInv, Obeys, NoPool
  <2>4. \/ settings' = settings /\ refilled' = refilled
        \/ Update(watch.next) /\ refilled' = ~watch.next.auto
    BY <1>3, Zenon DEF WatchSaves
  <2>5. Update(watch.next) => settings'.choice = watch.next
    BY DEF Update
  <2> QED BY <2>2, <2>3, <2>4, <2>5
<1>4. CASE WatchStarts
  BY <1>4 DEF WatchStarts, ObeyInv, Obeys, NoPool, operator
<1>5. CASE WatchNotifies
  BY <1>5 DEF WatchNotifies, ObeyInv, Obeys, NoPool, Done, operator
<1>6. CASE Restart
  BY <1>6 DEF Restart, ObeyInv, Obeys, NoPool, Done, operator
<1>7. CASE UNCHANGED Word
  BY <1>7 DEF Word, ObeyInv, Obeys, NoPool
<1>8. ASSUME NEW save \in Saves, PanelReads(save) PROVE ObeyInv'
  <2>1. settings.choice \in Selections
    BY DEF TypeOK, Settings
  <2>2. NoPool(panel'.next) /\ UNCHANGED <<settings, watch, chosen, raced, refilled>>
    BY <1>8, <2>1, FromWireHasNoPool DEF PanelReads, operator
  <2> QED BY <2>2 DEF ObeyInv, Obeys, NoPool
<1>9. CASE PanelTakes \/ PanelPushes
  BY <1>9 DEF PanelTakes, PanelPushes, ObeyInv, Obeys, NoPool, Done, operator
<1>10. \A n \in Nodes : Unmeasured(n) \/ Alive(n) \/ Dark(n) => UNCHANGED Word
  BY DEF Unmeasured, Alive, Dark, Word, operator
<1>11. \A n \in Nodes, dest \in Dests : Swap(n, dest) => UNCHANGED Word
  BY DEF Swap, Word, operator
<1>12. \A p \in Publishers, n \in Nodes : Render(p, n) => UNCHANGED Word
  BY DEF Render, Word, operator
<1>13. \A p \in Publishers : Push(p) => UNCHANGED Word
  BY DEF Push, Word, operator
<1>14. \A n \in Nodes : Connect(n) \/ Hello(n) \/ Greet(n) \/ Deliver(n) \/ Lose(n) => UNCHANGED Word
  BY DEF Connect, Hello, Greet, Deliver, Lose, Word, operator
<1>15. \A c \in Clients : Linked(c) \/ (\E n \in Nodes : Links(c, n)) => UNCHANGED Word
  BY DEF Linked, Links, Word, operator
<1>16. \A r \in Renderers : Renders(r) => UNCHANGED Word
  BY RendersFrame DEF Word
<1>17. UNCHANGED vars => UNCHANGED Word
  BY DEF vars, Word, operator
<1>18. Rescue => UNCHANGED Word
  BY <1>10, <1>11 DEF Rescue
<1>19. \A p \in Publishers : Publish(p) => UNCHANGED Word
  BY <1>12, <1>13, <1>16, NodesRender DEF Publish
<1>20. \A n \in Nodes : Talk(n) \/ Lose(n) => UNCHANGED Word
  BY <1>14, <1>16, NodesRender DEF Talk
<1>21. \A c \in Clients : Renders(c) \/ Linked(c) \/ (\E n \in Nodes : Links(c, n)) => UNCHANGED Word
  BY <1>15, <1>16, NodesRender
<1>22. Panel \/ Watch => ObeyInv'
  BY <1>1, <1>2, <1>3, <1>4, <1>5, <1>8, <1>9 DEF Panel, Watch
<1> QED BY <1>6, <1>7, <1>17, <1>18, <1>19, <1>20, <1>21, <1>22 DEF Next

(* What the operator saved last holds through every check of the watcher   *)
(* that reads the settings again before it writes (checkOnce), and a dest  *)
(* named by hand is what nodes without a pin get until the watcher writes  *)
(* a pool back beside it.                                                  *)
THEOREM TheOperatorIsObeyed == Spec => []OperatorIsObeyed
<1>1. TypeOK /\ ObeyInv => OperatorIsObeyed
  BY DEF ObeyInv, Obeys, NoPool, OperatorIsObeyed, HandPicked, DestFor
<1> QED BY <1>1, TypesInit, TypesStep, ObeyInit, ObeyStep, PTL DEF Spec
-----------------------------------------------------------------------------
(* The dest of a node.                                                     *)

(* The rescuer counts no more misses than there were.                      *)
MissesAreDark == \A n \in Nodes : misses[n] <= dark[n]

LEMMA MissesInit == Init => MissesAreDark
BY FleetConfigAssumption DEF Init, MissesAreDark

(* A round that misses a node adds to both alike.                          *)
LEMMA DarkStep ==
  ASSUME TypeOK, MissesAreDark, NEW n \in Nodes, Darkens(n)
  PROVE  /\ \A k \in Nodes \ {n} : dark'[k] = dark[k]
         /\ Capped(misses[n] + 1, Failures) <= dark'[n]
         /\ MaySwap(n) => dark'[n] = Failures
<1>1. /\ misses[n] \in 0..Failures /\ dark[n] \in 0..Failures /\ misses[n] <= dark[n]
      /\ Failures \in Nat \ {0}
  BY FleetConfigAssumption DEF TypeOK, MissesAreDark
<1>2. dark' = [dark EXCEPT ![n] = Capped(dark[n] + 1, Failures)] /\ dark \in [Nodes -> 0..Failures]
  BY DEF Darkens, TypeOK
<1>3. dark'[n] = Capped(dark[n] + 1, Failures)
  BY <1>2
<1> QED BY <1>1, <1>2, <1>3 DEF Capped, MaySwap

LEMMA MissesStep == TypeOK /\ MissesAreDark /\ [Next]_vars => MissesAreDark'
<1> SUFFICES ASSUME TypeOK, MissesAreDark, [Next]_vars PROVE MissesAreDark'
  OBVIOUS
<1>1. ASSUME NEW n \in Nodes, Alive(n) PROVE MissesAreDark'
  BY <1>1 DEF Alive, MissesAreDark, TypeOK
<1>2. ASSUME NEW n \in Nodes, Dark(n) PROVE MissesAreDark'
  <2>1. misses' = [misses EXCEPT ![n] = Capped(misses[n] + 1, Failures)] /\ Darkens(n)
    BY <1>2 DEF Dark
  <2> QED BY <2>1, DarkStep DEF MissesAreDark, TypeOK
<1>3. ASSUME NEW n \in Nodes, NEW dest \in Dests, Swap(n, dest) PROVE MissesAreDark'
  <2>1. misses' = [misses EXCEPT ![n] = 0] /\ Darkens(n)
    BY <1>3 DEF Swap
  <2>2. dark'[n] \in 0..Failures
    BY <2>1, DarkensType DEF TypeOK
  <2>3. \A k \in Nodes \ {n} : dark'[k] = dark[k]
    BY <2>1, DarkStep
  <2> QED BY <2>1, <2>2, <2>3 DEF MissesAreDark, TypeOK
<1>4. CASE Restart
  BY <1>4 DEF Restart, MissesAreDark, TypeOK
<1>5. CASE UNCHANGED <<misses, dark>>
  BY <1>5 DEF MissesAreDark
<1>6. Panel \/ Watch => UNCHANGED <<misses, dark>>
  BY DEF Panel, PanelReads, PanelSaves, PanelTakes, PanelPushes, Watch, WatchStarts, WatchDecides, WatchSaves,
         WatchNotifies, rescuing
<1>7. \A n \in Nodes : Unmeasured(n) => UNCHANGED <<misses, dark>>
  BY DEF Unmeasured
<1>8. \A p \in Publishers, n \in Nodes : Render(p, n) => UNCHANGED <<misses, dark>>
  BY DEF Render, rescuing
<1>9. \A n \in Nodes : Connect(n) \/ Hello(n) \/ Greet(n) \/ Deliver(n) \/ Lose(n) => UNCHANGED <<misses, dark>>
  BY DEF Connect, Hello, Greet, Deliver, Lose, rescuing
<1>10. \A c \in Clients : Linked(c) \/ (\E n \in Nodes : Links(c, n)) => UNCHANGED <<misses, dark>>
  BY DEF Linked, Links, rescuing
<1>11. \A r \in Renderers : Renders(r) => UNCHANGED <<misses, dark>>
  BY RendersFrame
<1>12. UNCHANGED vars => UNCHANGED <<misses, dark>>
  BY DEF vars, rescuing
<1>13. \A p \in Publishers : Push(p) => UNCHANGED <<misses, dark>>
  BY DEF Push, rescuing
<1>14. Rescue => MissesAreDark'
  BY <1>1, <1>2, <1>3, <1>5, <1>7 DEF Rescue
<1>15. \A p \in Publishers : Publish(p) => UNCHANGED <<misses, dark>>
  BY <1>8, <1>11, <1>13, NodesRender DEF Publish
<1>16. \A n \in Nodes : Talk(n) \/ Lose(n) => UNCHANGED <<misses, dark>>
  BY <1>9, <1>11, NodesRender DEF Talk
<1>17. \A c \in Clients : Renders(c) \/ Linked(c) \/ (\E n \in Nodes : Links(c, n)) => UNCHANGED <<misses, dark>>
  BY <1>10, <1>11, NodesRender
<1> QED BY <1>4, <1>5, <1>6, <1>12, <1>14, <1>15, <1>16, <1>17 DEF Next

(* Who found no pin worth keeping sets the first, or another did meanwhile *)
(* and that was noted.                                                     *)
SetsTheFirst(r) ==
  At(r, "unpinned") => pin[draft[r].node] \notin Plausible \/ draft[r].node \in overlapped

FirstInv == \A r \in Renderers : SetsTheFirst(r)

LEMMA FirstInit == Init => FirstInv
BY DEF Init, FirstInv, SetsTheFirst, At

(* A dest that is set is noted for all who have yet to set theirs.         *)
LEMMA SetDestFirst ==
  ASSUME TypeOK, FirstInv, NEW r \in Renderers, NEW n \in Nodes, NEW dest \in Dests, SetDest(r, n, dest),
         NEW k \in Renderers, k # r, draft'[k] = draft[k]
  PROVE  SetsTheFirst(k)'
<1> SUFFICES ASSUME At(k, "unpinned")
             PROVE  pin'[draft[k].node] \notin Plausible \/ draft[k].node \in overlapped'
  BY DEF SetsTheFirst, At
<1>1. pin[draft[k].node] \notin Plausible \/ draft[k].node \in overlapped
  BY DEF FirstInv, SetsTheFirst
<1>2. CASE draft[k].node = n
  <2>1. k \in Unpinned(n) \ {r}
    BY <1>2 DEF Unpinned
  <2>2. overlapped' = overlapped \cup {n}
    BY <2>1, Zenon DEF SetDest
  <2> QED BY <1>2, <2>2
<1>3. CASE draft[k].node # n
  <2>1. pin'[draft[k].node] = pin[draft[k].node]
    BY <1>3 DEF SetDest, TypeOK
  <2>2. draft[k].node \in overlapped => draft[k].node \in overlapped'
    BY <1>3 DEF SetDest
  <2> QED BY <1>1, <2>1, <2>2
<1> QED BY <1>2, <1>3

(* A step that sets no dest may finish or begin a rendering.               *)
LEMMA FirstStays ==
  ASSUME FirstInv, UNCHANGED <<pin, overlapped>>,
         \A k \in Renderers : draft'[k] = draft[k] \/ ~At(k, "unpinned")'
  PROVE  FirstInv'
BY DEF FirstInv, SetsTheFirst, At

LEMMA FirstStep == TypeOK /\ FirstInv /\ [Next]_vars => FirstInv'
<1> SUFFICES ASSUME TypeOK, FirstInv, [Next]_vars PROVE FirstInv'
  OBVIOUS
<1>1. ASSUME UNCHANGED <<pin, overlapped, draft>> PROVE FirstInv'
  BY <1>1, FirstStays
<1>2. Panel \/ Watch => UNCHANGED <<pin, overlapped, draft>>
  BY DEF Panel, PanelReads, PanelSaves, PanelTakes, PanelPushes, Watch, WatchStarts, WatchDecides, WatchSaves,
         WatchNotifies, publishing
<1>3. \A n \in Nodes : Unmeasured(n) \/ Alive(n) \/ Dark(n) => UNCHANGED <<pin, overlapped, draft>>
  BY DEF Unmeasured, Alive, Dark, publishing
<1>4. ASSUME NEW n \in Nodes, NEW dest \in Dests, Swap(n, dest) PROVE FirstInv'
  <2> SUFFICES ASSUME NEW k \in Renderers PROVE SetsTheFirst(k)'
    BY DEF FirstInv
  <2>1. draft["rescue"] = Nothing /\ draft' = draft /\ SetDest("rescue", n, dest) /\ "rescue" \in Renderers
    BY <1>4, NodesRender DEF Swap, Free, Publishers
  <2>2. CASE k = "rescue"
    BY <2>1, <2>2 DEF SetsTheFirst, At
  <2>3. CASE k # "rescue"
    BY <2>1, <2>3, SetDestFirst
  <2> QED BY <2>2, <2>3
<1>5. ASSUME NEW r \in Renderers, NEW n \in Nodes, Starts(r, n), UNCHANGED <<pin, overlapped>> PROVE FirstInv'
  BY <1>5, StartsType, FirstStays DEF At
<1>6. ASSUME NEW r \in Renderers, draft' = [draft EXCEPT ![r] = Nothing], UNCHANGED <<pin, overlapped>>
      PROVE  FirstInv'
  BY <1>6, DraftType, FirstStays DEF At
<1>7. ASSUME NEW r \in Renderers, ReadsSettings(r) \/ ReadsPin(r) PROVE FirstInv'
  <2> SUFFICES ASSUME NEW k \in Renderers PROVE SetsTheFirst(k)'
    BY DEF FirstInv
  <2>1. UNCHANGED <<pin, overlapped>> /\ \A j \in Renderers \ {r} : draft'[j] = draft[j]
    BY <1>7, RendersType DEF Renders, ReadsSettings, ReadsPin
  <2>2. CASE k # r
    BY <2>1, <2>2 DEF FirstInv, SetsTheFirst, At
  <2>3. CASE k = r
    <3>1. CASE ReadsSettings(r)
      <4>1. draft'[r].at = "pin"
        BY <3>1 DEF ReadsSettings, TypeOK
      <4> QED BY <2>3, <4>1 DEF SetsTheFirst, At
    <3>2. CASE ReadsPin(r) /\ pin[draft[r].node] \in Plausible
      <4>1. draft'[r].at = "ready"
        BY <3>2 DEF ReadsPin, TypeOK
      <4> QED BY <2>3, <4>1 DEF SetsTheFirst, At
    <3>3. CASE ReadsPin(r) /\ pin[draft[r].node] \notin Plausible
      <4>1. draft'[r].node = draft[r].node
        BY <3>3, RendersType DEF Renders
      <4> QED BY <2>1, <2>3, <3>3, <4>1 DEF SetsTheFirst
    <3> QED BY <1>7, <3>1, <3>2, <3>3
  <2> QED BY <2>2, <2>3
<1>8. ASSUME NEW r \in Renderers, Pins(r) PROVE FirstInv'
  <2> SUFFICES ASSUME NEW k \in Renderers PROVE SetsTheFirst(k)'
    BY DEF FirstInv
  <2> DEFINE n == draft[r].node
             dest == draft[r].config.dest
  <2>1. n \in Nodes /\ dest \in Dests /\ SetDest(r, n, dest)
    BY <1>8, DraftFields DEF Pins, At, Configs
  <2>2. \A j \in Renderers \ {r} : draft'[j] = draft[j]
    BY <1>8, RendersType DEF Renders
  <2>3. draft'[r].at = "ready"
    BY <1>8 DEF Pins, TypeOK
  <2>4. CASE k = r
    BY <2>3, <2>4 DEF SetsTheFirst, At
  <2>5. CASE k # r
    <3> HIDE DEF n, dest
    <3> QED BY <2>1, <2>2, <2>5, SetDestFirst
  <2> QED BY <2>4, <2>5
<1>9. CASE Restart
  BY <1>9 DEF Restart, FirstInv, SetsTheFirst, At
<1>10. \A n \in Nodes : Connect(n) \/ Deliver(n) \/ Lose(n) => UNCHANGED <<pin, overlapped, draft>>
  BY DEF Connect, Deliver, Lose, publishing
<1>11. /\ \A p \in Publishers, n \in Nodes : Render(p, n) => Starts(p, n) /\ UNCHANGED <<pin, overlapped>>
       /\ \A n \in Nodes : Hello(n) => Starts(n, n) /\ UNCHANGED <<pin, overlapped>>
       /\ \A c \in Clients, n \in Nodes : Links(c, n) => Starts(c, n) /\ UNCHANGED <<pin, overlapped>>
  BY DEF Render, Hello, Links
<1>12. /\ \A p \in Publishers : Push(p) => draft' = [draft EXCEPT ![p] = Nothing] /\ UNCHANGED <<pin, overlapped>>
       /\ \A n \in Nodes : Greet(n) => draft' = [draft EXCEPT ![n] = Nothing] /\ UNCHANGED <<pin, overlapped>>
       /\ \A c \in Clients : Linked(c) => draft' = [draft EXCEPT ![c] = Nothing] /\ UNCHANGED <<pin, overlapped>>
  BY DEF Push, Greet, Linked
<1>13. UNCHANGED vars => UNCHANGED <<pin, overlapped, draft>>
  BY DEF vars, publishing
<1>14. \A r \in Renderers : Renders(r) => FirstInv'
  BY <1>7, <1>8 DEF Renders
<1>15. \A p \in Publishers : Publish(p) => FirstInv'
  BY <1>5, <1>6, <1>11, <1>12, <1>14, NodesRender DEF Publish
<1>16. \A n \in Nodes : Talk(n) \/ Lose(n) => FirstInv'
  BY <1>1, <1>5, <1>6, <1>10, <1>11, <1>12, <1>14, NodesRender DEF Talk
<1>17. \A c \in Clients : Renders(c) \/ Linked(c) \/ (\E n \in Nodes : Links(c, n)) => FirstInv'
  BY <1>5, <1>6, <1>11, <1>12, <1>14, NodesRender
<1>18. Rescue => FirstInv'
  BY <1>1, <1>3, <1>4 DEF Rescue
<1> QED BY <1>1, <1>2, <1>9, <1>13, <1>15, <1>16, <1>17, <1>18 DEF Next

KeptUnlessDark(n) == pin[n] \in Plausible /\ pin'[n] # pin[n] => dark'[n] = Failures \/ n \in overlapped

LEMMA DestStep ==
  ASSUME TypeOK, MissesAreDark, FirstInv, [Next]_vars, NEW n \in Nodes
  PROVE  KeptUnlessDark(n)
<1>1. ASSUME NEW r \in Renderers, Pins(r) PROVE KeptUnlessDark(n)
  <2>1. At(r, "unpinned") /\ pin' = [pin EXCEPT ![draft[r].node] = draft[r].config.dest]
    BY <1>1 DEF Pins, SetDest
  <2>2. pin[draft[r].node] \notin Plausible \/ draft[r].node \in overlapped
    BY <2>1 DEF FirstInv, SetsTheFirst
  <2> QED BY <2>1, <2>2 DEF KeptUnlessDark, TypeOK
<1>2. ASSUME NEW k \in Nodes, NEW dest \in Dests, Swap(k, dest) PROVE KeptUnlessDark(n)
  <2>1. Darkens(k) /\ MaySwap(k) /\ pin' = [pin EXCEPT ![k] = dest]
    BY <1>2 DEF Swap, SetDest
  <2>2. dark'[k] = Failures
    BY <2>1, DarkStep
  <2> QED BY <2>1, <2>2 DEF KeptUnlessDark, TypeOK
<1>3. CASE UNCHANGED pin
  BY <1>3 DEF KeptUnlessDark
<1>4. Panel \/ Watch \/ Restart => UNCHANGED pin
  BY DEF Panel, PanelReads, PanelSaves, PanelTakes, PanelPushes, Watch, WatchStarts, WatchDecides, WatchSaves,
         WatchNotifies, Restart
<1>5. \A k \in Nodes : Unmeasured(k) \/ Alive(k) \/ Dark(k) => UNCHANGED pin
  BY DEF Unmeasured, Alive, Dark
<1>6. \A p \in Publishers : Push(p) \/ (\E k \in Nodes : Render(p, k)) => UNCHANGED pin
  BY DEF Push, Render
<1>7. \A c \in Clients : Linked(c) \/ (\E k \in Nodes : Links(c, k)) => UNCHANGED pin
  BY DEF Linked, Links
<1>8. \A k \in Nodes : Connect(k) \/ Hello(k) \/ Greet(k) \/ Deliver(k) \/ Lose(k) => UNCHANGED pin
  BY DEF Connect, Hello, Greet, Deliver, Lose
<1>9. \A r \in Renderers : Renders(r) => Pins(r) \/ UNCHANGED pin
  BY RendersFrame
<1>10. UNCHANGED vars => UNCHANGED pin
  BY DEF vars
<1> QED BY <1>1, <1>2, <1>3, <1>4, <1>5, <1>6, <1>7, <1>8, <1>9, <1>10, NodesRender
        DEF Next, Rescue, Publish, Talk

(* A plausible dest of a node changes only after Failures rounds in a row  *)
(* found the node dark, whatever restarts the rescuer saw, or under two    *)
(* renderings that had both found no pin (ConfigFor, SetDest).             *)
THEOREM PinsHold == Spec => DestIsKept
<1>1. TypeOK /\ MissesAreDark /\ FirstInv /\ [Next]_vars
        => [\A n \in Nodes :
              pin[n] \in Plausible /\ pin'[n] # pin[n] => dark'[n] = Failures \/ n \in overlapped]_vars
  BY DestStep DEF KeptUnlessDark
<1> QED BY <1>1, TypesInit, TypesStep, MissesInit, MissesStep, FirstInit, FirstStep, PTL DEF Spec, DestIsKept
-----------------------------------------------------------------------------
(* What a node was told is what its links say.                             *)

(* Somebody has changed what nodes look like and is yet to send it.        *)
AtWork == panel.at \in {"saved", "pushing"} \/ watch.at = "notifying"

Owed(n) == \E p \in Publishers : n \in todo[p] \/ (draft[p] # Nothing /\ draft[p].node = n)

(* The handler of a session will answer with the version of the settings.  *)
Current(d) == d = Nothing \/ d.at = "settings" \/ d.config.version = settings.version

(* A node behind by a version is away, or on its way to ask.               *)
Asks(n) == n \notin session \/ (greeting[n] = [reported |-> Version(n)] /\ Current(draft[n]))

(* The last thing on its way to a node is what it should serve; if nothing *)
(* is, it serves that or will ask for it.                                  *)
LastIsRight(n) == wire[n] # <<>> /\ wire[n][Len(wire[n])] = ConfigFor(n)
ServesRight(n) == wire[n] = <<>> /\ served[n] = ConfigFor(n)
WillAsk(n) == wire[n] = <<>> /\ Version(n) < settings.version /\ Asks(n)

IsTold(n) == n \in missed \/ AtWork \/ Owed(n) \/ LastIsRight(n) \/ ServesRight(n) \/ WillAsk(n)

ToldInv == \A n \in Nodes : IsTold(n) /\ (n \notin session => wire[n] = <<>>)

LEMMA ToldInit == Init => ToldInv
<1> SUFFICES ASSUME Init, NEW n \in Nodes PROVE IsTold(n) /\ (n \notin session => wire[n] = <<>>)
  BY DEF ToldInv
<1>1. wire[n] = <<>> /\ Version(n) = 0 /\ settings.version = 1 /\ n \notin session
  BY DEF Init, Version
<1> QED BY <1>1 DEF IsTold, WillAsk, Asks

(* To pin the dest that a node's links show anyway changes nothing.        *)
LEMMA PinnedSame ==
  ASSUME TypeOK, NEW r \in Renderers, Pins(r), NEW n \in Nodes
  PROVE  n \in missed' \/ ConfigFor(n)' = ConfigFor(n)
<1> DEFINE m == draft[r].node
           dest == draft[r].config.dest
<1>1. m \in Nodes /\ dest \in Dests /\ pin' = [pin EXCEPT ![m] = dest] /\ UNCHANGED <<settings, base>>
  BY DraftFields DEF Pins, At, Configs, SetDest
<1>2. missed' = IF dest = PinnedDest(m) THEN missed ELSE missed \cup {m}
  BY DEF Pins
<1> HIDE DEF m, dest
<1>3. DestFor(n)' = DestFor(n)
  BY <1>1 DEF DestFor
<1>4. CASE n = m /\ dest # PinnedDest(m)
  BY <1>2, <1>4
<1>5. CASE n = m /\ dest = PinnedDest(m)
  <2>1. pin'[n] = PinnedDest(n)
    BY <1>1, <1>5 DEF TypeOK
  <2>2. PinnedDest(n)' = PinnedDest(n)
    BY <1>3, <2>1 DEF PinnedDest
  <2> QED BY <1>1, <2>2 DEF ConfigFor
<1>6. CASE n # m
  <2>1. pin'[n] = pin[n]
    BY <1>1, <1>6 DEF TypeOK
  <2>2. PinnedDest(n)' = PinnedDest(n)
    BY <1>3, <2>1 DEF PinnedDest
  <2> QED BY <1>1, <2>2 DEF ConfigFor
<1> QED BY <1>4, <1>5, <1>6

(* The same when nothing it is rendered from changes.                      *)
LEMMA SameConfig ==
  ASSUME UNCHANGED <<settings, base, pin>>, NEW n \in Nodes
  PROVE  ConfigFor(n)' = ConfigFor(n)
BY DEF ConfigFor, PinnedDest, DestFor

(* SetNodeConfig owes the config to every node it does not miss.           *)
LEMMA SetNodeConfigTells ==
  ASSUME TypeOK, ToldInv, NEW p \in Publishers, NEW form, SetNodeConfig(p, form), UNCHANGED <<session, wire>>
  PROVE  ToldInv'
<1> SUFFICES ASSUME NEW n \in Nodes PROVE IsTold(n)' /\ (n \notin session => wire[n] = <<>>)'
  BY DEF ToldInv
<1>1. n \in session => n \in todo'[p]
  BY DEF SetNodeConfig, TypeOK
<1>2. n \notin session => n \in missed'
  BY DEF SetNodeConfig
<1> QED BY <1>1, <1>2 DEF IsTold, Owed, ToldInv

(* A node is told as it was when a step concerns others only.              *)
LEMMA StillTold ==
  ASSUME NEW n \in Nodes, IsTold(n), ConfigFor(n)' = ConfigFor(n), settings' = settings,
         n \in missed => n \in missed', AtWork => AtWork', Owed(n) => Owed(n)',
         wire'[n] = wire[n], served'[n] = served[n], Asks(n) => Asks(n)'
  PROVE  IsTold(n)'
<1>1. LastIsRight(n) => LastIsRight(n)'
  BY DEF LastIsRight
<1>2. ServesRight(n) => ServesRight(n)'
  BY DEF ServesRight
<1>3. WillAsk(n) => WillAsk(n)'
  BY DEF WillAsk, Version
<1> QED BY <1>1, <1>2, <1>3 DEF IsTold

(* A frame that is sent is the last on the wire, and right or noted.       *)
LEMMA SendsTells ==
  ASSUME TypeOK, NEW n \in Nodes, NEW config \in Configs, Sends(n, config), ConfigFor(n)' = ConfigFor(n)
  PROVE  IsTold(n)'
<1>1. wire[n] \in Seq(Configs) /\ wire'[n] = Append(wire[n], config)
  BY DEF TypeOK, Sends
<1>2. wire'[n] # <<>> /\ wire'[n][Len(wire'[n])] = config
  BY <1>1
<1>3. config # ConfigFor(n) => n \in missed'
  BY DEF Sends, Noted
<1> QED BY <1>2, <1>3 DEF IsTold, LastIsRight

LEMMA SendsLeaves ==
  ASSUME TypeOK, NEW n \in Nodes, NEW config \in Configs, Sends(n, config), NEW k \in Nodes \ {n}
  PROVE  wire'[k] = wire[k] /\ (k \in missed' <=> k \in missed)
BY DEF TypeOK, Sends, Noted

(* The last of a queue stays last when the first is taken.                 *)
LEMMA TailFacts ==
  ASSUME NEW S, NEW w \in Seq(S), w # <<>>
  PROVE  /\ Len(w) = 1 \/ Len(w) > 1
         /\ Len(w) = 1 => Tail(w) = <<>> /\ Head(w) = w[Len(w)]
         /\ Len(w) > 1 => Tail(w) # <<>> /\ Tail(w)[Len(Tail(w))] = w[Len(w)]
<1>1. Len(w) \in Nat \ {0}
  BY EmptySeq
<1>2. /\ Head(w) = w[1] /\ Tail(w) \in Seq(S) /\ Len(Tail(w)) = Len(w) - 1
      /\ \A i \in 1..Len(Tail(w)) : Tail(w)[i] = w[i + 1]
  BY <1>1, HeadTailProperties
<1>3. \A t \in Seq(S) : t = <<>> <=> Len(t) = 0
  BY EmptySeq
<1>4. Tail(w) = <<>> <=> Len(w) = 1
  <2>1. Tail(w) = <<>> <=> Len(Tail(w)) = 0
    BY <1>2, <1>3, Zenon
  <2> QED BY <1>1, <1>2, <2>1
<1>5. Len(w) > 1 => Tail(w)[Len(w) - 1] = w[Len(w)]
  BY <1>1, <1>2
<1>6. Len(w) = 1 \/ Len(w) > 1
  <2>1. \A k \in Nat \ {0} : k = 1 \/ k > 1
    OBVIOUS
  <2> QED BY <1>1, <2>1, Zenon
<1> QED BY <1>1, <1>2, <1>4, <1>5, <1>6

(* What is owed stays owed while a publisher renders.                      *)
LEMMA StillOwed ==
  ASSUME TypeOK, NEW n \in Nodes, Owed(n), NEW r \in Renderers,
         \A p \in Publishers : n \in todo'[p] <=> n \in todo[p],
         draft'[r] # Nothing, draft[r] # Nothing, draft'[r].node = draft[r].node,
         \A k \in Renderers \ {r} : draft'[k] = draft[k]
  PROVE  Owed(n)'
<1>1. PICK p \in Publishers : n \in todo[p] \/ (draft[p] # Nothing /\ draft[p].node = n)
  BY DEF Owed
<1>2. n \in todo'[p] \/ (draft'[p] # Nothing /\ draft'[p].node = n)
  BY <1>1, NodesRender
<1> QED BY <1>2 DEF Owed

(* One step per action that disturbs what a node is told.                  *)
LEMMA ToldStep == TypeOK /\ ToldInv /\ [Next]_vars => ToldInv'
<1> SUFFICES ASSUME TypeOK, ToldInv, [Next]_vars PROVE ToldInv'
  OBVIOUS
<1>1. ASSUME AtWork', UNCHANGED <<session, wire>> PROVE ToldInv'
  BY <1>1 DEF ToldInv, IsTold
<1>2. ASSUME UNCHANGED <<settings, base, pin, link, missed, publishing>>, AtWork => AtWork'
      PROVE  ToldInv'
  BY <1>2 DEF ToldInv, IsTold, LastIsRight, ServesRight, WillAsk, Asks, Current, Owed, Version, ConfigFor, PinnedDest,
              DestFor, link, publishing
<1>3. ASSUME NEW save \in Saves, PanelReads(save) PROVE ToldInv'
  BY <1>2, <1>3 DEF PanelReads, AtWork, Done, sent
<1>4. CASE PanelSaves
  <2>1. panel.at = "saving" /\ UNCHANGED <<base, pin, watch, publishing, link, missed>>
    BY <1>4 DEF PanelSaves, sent
  <2>2. CASE panel' = [at |-> "saved"]
    <3>1. AtWork'
      BY <2>2 DEF AtWork
    <3> QED BY <1>1, <2>1, <3>1 DEF link
  <2>3. CASE panel' = Done /\ settings' = settings
    <3>1. AtWork => AtWork'
      BY <2>1 DEF AtWork
    <3> QED BY <1>2, <2>1, <2>3, <3>1
  <2> QED BY <1>4, <2>2, <2>3, Zenon DEF PanelSaves
<1>5. CASE PanelTakes
  <2>1. AtWork'
    BY <1>5 DEF PanelTakes, AtWork
  <2> QED BY <1>1, <1>5, <2>1 DEF PanelTakes, link
<1>6. CASE PanelPushes
  BY <1>6, SetNodeConfigTells DEF PanelPushes, link, Publishers
<1>7. CASE WatchStarts
  BY <1>2, <1>7 DEF WatchStarts, AtWork, Done, sent
<1>8. ASSUME NEW found \in Scans, WatchDecides(found) PROVE ToldInv'
  <2>1. watch.at = "scanning" /\ UNCHANGED <<settings, base, pin, panel, publishing, link, missed>>
    BY <1>8 DEF WatchDecides, sent
  <2>2. AtWork => AtWork'
    BY <2>1 DEF AtWork
  <2> QED BY <1>2, <2>1, <2>2
<1>9. CASE WatchSaves
  <2>1. watch.at = "writing" /\ UNCHANGED <<base, pin, panel, publishing, link, missed>>
    BY <1>9 DEF WatchSaves, sent
  <2>2. CASE watch' = [at |-> "notifying"]
    <3>1. AtWork'
      BY <2>2 DEF AtWork
    <3> QED BY <1>1, <2>1, <3>1 DEF link
  <2>3. CASE watch' = Done /\ settings' = settings
    <3>1. AtWork => AtWork'
      BY <2>1 DEF AtWork
    <3> QED BY <1>2, <2>1, <2>3, <3>1
  <2> QED BY <1>9, <2>2, <2>3, Zenon DEF WatchSaves
<1>10. CASE WatchNotifies
  BY <1>10, SetNodeConfigTells DEF WatchNotifies, link, Publishers
<1>11. ASSUME NEW n \in Nodes, Unmeasured(n) \/ Alive(n) \/ Dark(n) PROVE ToldInv'
  BY <1>2, <1>11 DEF Unmeasured, Alive, Dark, AtWork, sent
<1>12. ASSUME NEW n \in Nodes, NEW dest \in Dests, Swap(n, dest) PROVE ToldInv'
  BY <1>12, SetNodeConfigTells DEF Swap, link, Publishers
<1>13. ASSUME NEW p \in Publishers, NEW m \in Nodes, Render(p, m) PROVE ToldInv'
  <2> SUFFICES ASSUME NEW n \in Nodes PROVE IsTold(n)' /\ (n \notin session => wire[n] = <<>>)'
    BY DEF ToldInv
  <2>1. UNCHANGED <<settings, base, pin, panel, watch, missed, greeting, session, wire, served>>
    BY <1>13 DEF Render, link, sent
  <2>2. ConfigFor(n)' = ConfigFor(n)
    BY <2>1, SameConfig
  <2>3. /\ draft[p] = Nothing /\ draft'[p] # Nothing /\ draft'[p].node = m
        /\ \A k \in Renderers \ {p} : draft'[k] = draft[k]
    BY <1>13, StartsType, NodesRender DEF Render, Starts
  <2>4. ASSUME Owed(n) PROVE Owed(n)'
    <3>1. PICK q \in Publishers : n \in todo[q] \/ (draft[q] # Nothing /\ draft[q].node = n)
      BY <2>4 DEF Owed
    <3>2. n \in todo'[q] \/ (draft'[q] # Nothing /\ draft'[q].node = n)
      <4>1. CASE q # p
        <5>1. draft'[q] = draft[q] /\ todo'[q] = todo[q]
          BY <1>13, <2>3, <4>1, NodesRender DEF Render, TypeOK
        <5> QED BY <3>1, <5>1
      <4>2. CASE q = p /\ n # m
        BY <1>13, <2>3, <3>1, <4>2 DEF Render, TypeOK
      <4>3. CASE q = p /\ n = m
        BY <2>3, <4>3
      <4> QED BY <4>1, <4>2, <4>3
    <3> QED BY <3>2 DEF Owed
  <2>5. draft'[n] = draft[n]
    BY <2>3, NodesRender, NamesAssumption
  <2> QED BY <2>1, <2>2, <2>4, <2>5, StillTold DEF ToldInv, AtWork, Asks, Current, Version
<1>14. ASSUME NEW p \in Publishers, Push(p) PROVE ToldInv'
  <2> DEFINE m == draft[p].node
             config == draft[p].config
  <2>1. m \in Nodes /\ config \in Configs
    BY <1>14, DraftFields, NodesRender DEF Push, At
  <2>2. UNCHANGED <<settings, base, pin, panel, watch, todo, greeting, session, served>>
    BY <1>14 DEF Push
  <2>9. draft' = [draft EXCEPT ![p] = Nothing] /\ \A k \in Renderers \ {p} : draft'[k] = draft[k]
    BY <1>14, NodesRender, DraftType DEF Push
  <2> SUFFICES ASSUME NEW n \in Nodes PROVE IsTold(n)' /\ (n \notin session => wire[n] = <<>>)'
    BY DEF ToldInv
  <2>3. ConfigFor(n)' = ConfigFor(n)
    BY <2>2, SameConfig
  <2>4. CASE n = m
    <3>1. CASE Sends(m, config)
      <4>1. IsTold(n)'
        <5> HIDE DEF m, config
        <5> QED BY <2>1, <2>3, <2>4, <3>1, SendsTells
      <4>2. n \in session'
        BY <2>2, <2>4, <3>1 DEF Sends
      <4> QED BY <4>1, <4>2
    <3>2. CASE missed' = missed \cup {m} /\ UNCHANGED wire
      BY <2>2, <2>4, <3>2 DEF IsTold, ToldInv
    <3> QED BY <1>14, <3>1, <3>2 DEF Push
  <2>5. CASE n # m
    <3>1. wire'[n] = wire[n] /\ (n \in missed => n \in missed')
      <4>1. CASE Sends(m, config)
        <5> HIDE DEF m, config
        <5> QED BY <2>1, <2>5, <4>1, SendsLeaves
      <4>2. CASE missed' = missed \cup {m} /\ UNCHANGED wire
        BY <4>2
      <4> QED BY <1>14, <4>1, <4>2 DEF Push
    <3>2. ASSUME Owed(n) PROVE Owed(n)'
      <4>1. PICK q \in Publishers : n \in todo[q] \/ (draft[q] # Nothing /\ draft[q].node = n)
        BY <3>2 DEF Owed
      <4>2. n \in todo'[q] \/ (draft'[q] # Nothing /\ draft'[q].node = n)
        BY <2>2, <2>5, <2>9, <4>1, NodesRender
      <4> QED BY <4>2 DEF Owed
    <3>3. draft'[n] = draft[n]
      BY <2>9, NodesRender, NamesAssumption
    <3> QED BY <2>2, <2>3, <3>1, <3>2, <3>3, StillTold DEF ToldInv, AtWork, Asks, Current, Version
  <2> QED BY <2>4, <2>5
<1>15. ASSUME NEW m \in Nodes, Connect(m) PROVE ToldInv'
  <2> SUFFICES ASSUME NEW n \in Nodes PROVE IsTold(n)' /\ (n \notin session => wire[n] = <<>>)'
    BY DEF ToldInv
  <2>1. UNCHANGED <<settings, base, pin, panel, watch, todo, draft, missed, wire, served>> /\ draft[m] = Nothing
    BY <1>15 DEF Connect, publishing
  <2>2. ConfigFor(n)' = ConfigFor(n)
    BY <2>1, SameConfig
  <2>3. Asks(n) => Asks(n)'
    BY <1>15, <2>1 DEF Connect, Asks, Current, Version, TypeOK
  <2>4. n \notin session' => n \notin session
    BY <1>15 DEF Connect
  <2> QED BY <2>1, <2>2, <2>3, <2>4, StillTold DEF ToldInv, AtWork, Owed
<1>16. ASSUME NEW r \in Clients \cup Nodes, NEW m \in Nodes, Starts(r, m),
              UNCHANGED <<settings, base, pin, panel, watch, todo, missed, greeting, wire, served, session>>
       PROVE  ToldInv'
  <2> SUFFICES ASSUME NEW n \in Nodes PROVE IsTold(n)' /\ (n \notin session => wire[n] = <<>>)'
    BY DEF ToldInv
  <2>1. ConfigFor(n)' = ConfigFor(n)
    BY <1>16, SameConfig
  <2>2. r \in Renderers /\ r \notin Publishers
    BY NodesRender, NamesAssumption
  <2>3. draft'[r].at = "settings" /\ \A k \in Renderers \ {r} : draft'[k] = draft[k]
    BY <1>16, <2>2, StartsType
  <2>4. Owed(n) => Owed(n)'
    BY <1>16, <2>2, <2>3, NodesRender DEF Owed
  <2>5. Asks(n) => Asks(n)'
    BY <1>16, <2>3, NodesRender DEF Asks, Current, Version
  <2> QED BY <1>16, <2>1, <2>4, <2>5, StillTold DEF ToldInv, AtWork
<1>17. ASSUME NEW m \in Nodes, Greet(m) PROVE ToldInv'
  <2> DEFINE config == draft[m].config
  <2> SUFFICES ASSUME NEW n \in Nodes PROVE IsTold(n)' /\ (n \notin session => wire[n] = <<>>)'
    BY DEF ToldInv
  <2>1. /\ UNCHANGED <<settings, base, pin, panel, watch, todo, served>>
        /\ config \in Configs /\ draft[m] # Nothing /\ draft[m].at = "ready" /\ Answers(m, config)
    BY <1>17, DraftFields, NodesRender DEF Greet, At
  <2>9. draft'[m] = Nothing /\ \A k \in Renderers \ {m} : draft'[k] = draft[k]
    BY <1>17, DraftType, NodesRender DEF Greet
  <2> HIDE DEF config
  <2>2. ConfigFor(n)' = ConfigFor(n)
    BY <2>1, SameConfig
  <2>8. Owed(n) => Owed(n)'
    <3>1. \A p \in Publishers : draft'[p] = draft[p]
      BY <2>9, NodesRender, NamesAssumption
    <3> QED BY <2>1, <3>1 DEF Owed
  <2>3. CASE Sends(m, config) /\ greeting' = [greeting EXCEPT ![m] = Nothing] /\ UNCHANGED session
    <3>1. CASE n = m
      <4>1. IsTold(n)' /\ n \in session'
        BY <2>1, <2>2, <2>3, <3>1, SendsTells DEF Sends
      <4> QED BY <4>1
    <3>2. CASE n # m
      <4>1. wire'[n] = wire[n] /\ (n \in missed => n \in missed')
        BY <2>1, <2>3, <3>2, SendsLeaves
      <4>2. Asks(n) => Asks(n)'
        BY <2>1, <2>3, <2>9, <3>2, NodesRender DEF Asks, Current, Version, TypeOK
      <4> QED BY <2>1, <2>2, <2>3, <2>8, <4>1, <4>2, StillTold DEF ToldInv, AtWork
    <3> QED BY <3>1, <3>2
  <2>4. CASE Closed(m) /\ missed' = missed \cup {m}
    <3>1. CASE n = m
      BY <2>4, <3>1 DEF IsTold, Closed, TypeOK
    <3>2. CASE n # m
      <4>1. wire'[n] = wire[n] /\ (Asks(n) => Asks(n)') /\ (n \in session <=> n \in session')
        BY <2>1, <2>4, <2>9, <3>2, NodesRender DEF Asks, Current, Version, TypeOK, Closed
      <4> QED BY <2>1, <2>2, <2>4, <2>8, <4>1, StillTold DEF ToldInv, AtWork
    <3> QED BY <3>1, <3>2
  <2>5. CASE /\ ~Awaits(m, config) /\ greeting' = [greeting EXCEPT ![m] = Nothing]
             /\ UNCHANGED <<session, wire, missed>>
    <3>1. CASE n = m
      <4>1. ASSUME WillAsk(n), n \in session PROVE FALSE
        <5>1. greeting[n] = [reported |-> Version(n)] /\ Version(n) < settings.version
          BY <4>1 DEF WillAsk, Asks
        <5>2. config.version = settings.version
          BY <2>1, <3>1, <4>1 DEF WillAsk, Asks, Current, config
        <5>3. Version(n) \in 0..MaxVersion /\ settings.version \in 1..MaxVersion
          BY FleetConfigAssumption DEF TypeOK, Version, Configs, Settings
        <5>4. greeting[n] # Nothing
          <6>1. [reported |-> Version(n)] \in Hellos
            BY <5>3 DEF Hellos
          <6> QED BY <5>1, <6>1, NothingAssumption
        <5>5. greeting[n].reported # config.version
          BY <5>1, <5>2, <5>3
        <5> QED BY <2>5, <3>1, <5>4, <5>5 DEF Awaits
      <4>2. WillAsk(n) => WillAsk(n)'
        BY <2>1, <2>5, <4>1 DEF WillAsk, Asks, Version
      <4>3. LastIsRight(n) \/ ServesRight(n) => LastIsRight(n)' \/ ServesRight(n)'
        BY <2>1, <2>2, <2>5 DEF LastIsRight, ServesRight
      <4> QED BY <2>1, <2>5, <2>8, <4>2, <4>3 DEF ToldInv, IsTold, AtWork
    <3>2. CASE n # m
      <4>1. Asks(n) => Asks(n)'
        BY <2>1, <2>5, <2>9, <3>2, NodesRender DEF Asks, Current, Version, TypeOK
      <4> QED BY <2>1, <2>2, <2>5, <2>8, <4>1, StillTold DEF ToldInv, AtWork
    <3> QED BY <3>1, <3>2
  <2> QED BY <2>1, <2>3, <2>4, <2>5 DEF Answers, sent
<1>18. ASSUME NEW m \in Nodes, Deliver(m) PROVE ToldInv'
  <2> SUFFICES ASSUME NEW n \in Nodes PROVE IsTold(n)' /\ (n \notin session => wire[n] = <<>>)'
    BY DEF ToldInv
  <2>1. UNCHANGED <<settings, base, pin, panel, watch, todo, draft, missed, greeting, session>>
    BY <1>18 DEF Deliver, publishing, sent
  <2>2. ConfigFor(n)' = ConfigFor(n)
    BY <2>1, SameConfig
  <2>3. AtWork \/ Owed(n) => AtWork' \/ Owed(n)'
    BY <2>1 DEF AtWork, Owed
  <2>4. CASE n = m
    <3>1. /\ wire[n] \in Seq(Configs) /\ wire[n] # <<>> /\ wire'[n] = Tail(wire[n]) /\ served'[n] = Head(wire[n])
      BY <1>18, <2>4 DEF Deliver, TypeOK
    <3>2. ASSUME LastIsRight(n) PROVE IsTold(n)'
      <4>1. CASE Len(wire[n]) = 1
        <5>1. wire'[n] = <<>> /\ served'[n] = wire[n][Len(wire[n])]
          BY <3>1, <4>1, TailFacts
        <5> QED BY <2>2, <3>2, <5>1 DEF IsTold, LastIsRight, ServesRight
      <4>2. CASE Len(wire[n]) > 1
        <5>1. wire'[n] # <<>> /\ wire'[n][Len(wire'[n])] = wire[n][Len(wire[n])]
          BY <3>1, <4>2, TailFacts
        <5> QED BY <2>2, <3>2, <5>1 DEF IsTold, LastIsRight
      <4>3. Len(wire[n]) = 1 \/ Len(wire[n]) > 1
        BY <3>1, TailFacts, Zenon
      <4> QED BY <4>1, <4>2, <4>3, Zenon
    <3>3. IsTold(n)'
      BY <2>1, <2>3, <3>1, <3>2 DEF ToldInv, IsTold, ServesRight, WillAsk
    <3> QED BY <2>1, <3>1, <3>3 DEF ToldInv
  <2>5. CASE n # m
    <3>1. wire'[n] = wire[n] /\ served'[n] = served[n]
      BY <1>18, <2>5 DEF Deliver, TypeOK
    <3>2. Asks(n) => Asks(n)'
      BY <2>1, <3>1 DEF Asks, Current, Version
    <3> QED BY <2>1, <2>2, <3>1, <3>2, StillTold DEF ToldInv, AtWork, Owed
  <2> QED BY <2>4, <2>5
<1>19. ASSUME NEW c \in Clients, Linked(c) PROVE ToldInv'
  <2> SUFFICES ASSUME NEW n \in Nodes PROVE IsTold(n)' /\ (n \notin session => wire[n] = <<>>)'
    BY DEF ToldInv
  <2>1. UNCHANGED <<settings, base, pin, panel, watch, todo, missed, greeting, session, wire, served>>
    BY <1>19 DEF Linked, link, sent
  <2>2. \A k \in Publishers \cup Nodes : draft'[k] = draft[k]
    <3>1. \A k \in Renderers \ {c} : draft'[k] = draft[k]
      BY <1>19, DraftType, NodesRender DEF Linked
    <3> QED BY <3>1, NodesRender, NamesAssumption
  <2>3. ConfigFor(n)' = ConfigFor(n)
    BY <2>1, SameConfig
  <2> QED BY <2>1, <2>2, <2>3, StillTold DEF ToldInv, AtWork, Owed, Asks, Current, Version
<1>20. ASSUME NEW m \in Nodes, Lose(m) PROVE ToldInv'
  <2> SUFFICES ASSUME NEW n \in Nodes PROVE IsTold(n)' /\ (n \notin session => wire[n] = <<>>)'
    BY DEF ToldInv
  <2>1. UNCHANGED <<settings, base, pin, panel, watch, todo, draft, served>> /\ Closed(m)
    BY <1>20 DEF Lose, publishing
  <2>2. ConfigFor(n)' = ConfigFor(n)
    BY <2>1, SameConfig
  <2>3. n # m \/ wire[n] = <<>> => wire'[n] = wire[n]
    BY <2>1 DEF Closed, TypeOK
  <2>4. n = m => wire'[n] = <<>> /\ n \notin session'
    BY <2>1 DEF Closed, TypeOK
  <2>5. Asks(n) => Asks(n)'
    BY <2>1, <2>4 DEF Asks, Current, Version, Closed, TypeOK
  <2>6. missed \subseteq missed' /\ (n = m /\ wire[n] # <<>> => n \in missed')
    BY <1>20 DEF Lose
  <2>7. CASE n = m /\ wire[n] # <<>>
    BY <2>4, <2>6, <2>7 DEF IsTold
  <2>8. CASE n # m \/ wire[n] = <<>>
    <3>1. IsTold(n)'
      BY <2>1, <2>2, <2>3, <2>5, <2>6, <2>8, StillTold DEF ToldInv, AtWork, Owed
    <3>2. n # m => (n \in session <=> n \in session')
      BY <2>1 DEF Closed
    <3> QED BY <2>3, <2>4, <2>8, <3>1, <3>2 DEF ToldInv
  <2> QED BY <2>7, <2>8
<1>21. CASE Restart
  BY <1>21 DEF Restart, ToldInv, IsTold
<1>22. ASSUME NEW r \in Renderers, Renders(r) PROVE ToldInv'
  <2> SUFFICES ASSUME NEW n \in Nodes PROVE IsTold(n)' /\ (n \notin session => wire[n] = <<>>)'
    BY DEF ToldInv
  <2>1. UNCHANGED <<settings, base, panel, watch, todo, greeting, session, wire, served>>
    BY <1>22, RendersFrame
  <2>2. n \in missed' \/ (ConfigFor(n)' = ConfigFor(n) /\ (n \in missed => n \in missed'))
    <3>1. CASE UNCHANGED <<pin, missed, overlapped>>
      BY <2>1, <3>1, SameConfig
    <3>2. CASE Pins(r)
      <4>1. missed \subseteq missed'
        BY <3>2 DEF Pins
      <4> QED BY <3>2, <4>1, PinnedSame
    <3> QED BY <1>22, <3>1, <3>2, RendersFrame
  <2>3. /\ draft[r] # Nothing /\ draft'[r] # Nothing /\ draft'[r].node = draft[r].node
        /\ \A k \in Renderers \ {r} : draft'[k] = draft[k]
    BY <1>22, RendersType
  <2>4. Owed(n) => Owed(n)'
    BY <2>1, <2>3, StillOwed
  <2>5. Asks(n) => Asks(n)'
    <3> SUFFICES ASSUME Current(draft[n]) PROVE Current(draft[n])'
      BY <2>1 DEF Asks, Version
    <3>1. CASE n = r
      <4>1. draft'[n].config.version = settings.version
        <5>1. draft[n].at = "settings" \/ draft[n].config.version = settings.version
          BY <2>3, <3>1 DEF Current
        <5> QED BY <1>22, <3>1, <5>1, RendersType
      <4> QED BY <2>1, <4>1 DEF Current
    <3>2. CASE n # r
      BY <2>1, <2>3, <3>2, NodesRender DEF Current
    <3> QED BY <3>1, <3>2
  <2>6. CASE n \in missed'
    BY <2>1, <2>6 DEF ToldInv, IsTold
  <2>7. CASE ConfigFor(n)' = ConfigFor(n) /\ (n \in missed => n \in missed')
    BY <2>1, <2>4, <2>5, <2>7, StillTold DEF ToldInv, AtWork
  <2> QED BY <2>2, <2>6, <2>7
<1>23. CASE UNCHANGED vars
  BY <1>2, <1>23 DEF vars, AtWork, sent
<1>24. \A n \in Nodes : Hello(n) => ToldInv'
  BY <1>16 DEF Hello, link, sent
<1>25. \A c \in Clients, n \in Nodes : Links(c, n) => ToldInv'
  BY <1>16 DEF Links, link, sent
<1> QED BY <1>3, <1>4, <1>5, <1>6, <1>7, <1>8, <1>9, <1>10, <1>11, <1>12, <1>13, <1>14, <1>15, <1>17,
           <1>18, <1>19, <1>20, <1>21, <1>22, <1>23, <1>24, <1>25, NodesRender
        DEF Next, Panel, Watch, Rescue, Publish, Talk

(* When nobody is at work, a node that was sent everything, none of it     *)
(* refused or overtaken, and whose pin no stale rendering moved, serves    *)
(* what its links say (SetNodeConfig, currentConfig).                      *)
THEOREM WhatIsToldIsServed == Spec => []ToldIsServed
<1>1. ASSUME TypeOK, ToldInv PROVE ToldIsServed
  <2> SUFFICES ASSUME Quiet, NEW n \in Nodes, Settled(n) PROVE served[n] = ConfigFor(n)
    BY DEF ToldIsServed
  <2>1. ~AtWork /\ n \notin missed /\ n \in session /\ greeting[n] = Nothing /\ wire[n] = <<>>
    BY DEF Quiet, Settled, AtWork
  <2>2. ~Owed(n)
    BY DEF Quiet, Free, Owed
  <2>3. ~Asks(n)
    <3>1. Version(n) \in 0..MaxVersion
      BY <1>1, FleetConfigAssumption DEF TypeOK, Version, Configs
    <3>2. [reported |-> Version(n)] \in Hellos
      BY <3>1 DEF Hellos
    <3> QED BY <2>1, <3>2, NothingAssumption DEF Asks
  <2> QED BY <1>1, <2>1, <2>2, <2>3 DEF ToldInv, IsTold, LastIsRight, ServesRight, WillAsk
<1> QED BY <1>1, TypesInit, TypesStep, ToldInit, ToldStep, PTL DEF Spec
-----------------------------------------------------------------------------
(* Receipts: lists.                                                        *)

LEMMA ElementsOfBoth ==
  ASSUME NEW S, NEW s \in Seq(S), NEW t \in Seq(S)
  PROVE  ToSet(s \o t) = ToSet(s) \cup ToSet(t)
<1> DEFINE u == s \o t
<1>1. /\ u \in Seq(S) /\ Len(u) = Len(s) + Len(t) /\ Len(s) \in Nat /\ Len(t) \in Nat
      /\ DOMAIN u = 1..Len(u) /\ DOMAIN s = 1..Len(s) /\ DOMAIN t = 1..Len(t)
      /\ \A i \in 1..Len(u) : u[i] = IF i <= Len(s) THEN s[i] ELSE t[i - Len(s)]
  OBVIOUS
<1> HIDE DEF u
<1>2. ASSUME NEW i \in DOMAIN u PROVE u[i] \in ToSet(s) \cup ToSet(t)
  <2>1. CASE i <= Len(s)
    <3>1. i \in DOMAIN s /\ u[i] = s[i]
      BY <1>1, <2>1
    <3> QED BY <3>1 DEF ToSet
  <2>2. CASE ~(i <= Len(s))
    <3>1. i - Len(s) \in DOMAIN t /\ u[i] = t[i - Len(s)]
      BY <1>1, <2>2
    <3> QED BY <3>1 DEF ToSet
  <2> QED BY <2>1, <2>2
<1>3. ASSUME NEW i \in DOMAIN s PROVE s[i] \in ToSet(u)
  <2>1. i \in DOMAIN u /\ u[i] = s[i]
    BY <1>1
  <2> QED BY <2>1 DEF ToSet
<1>4. ASSUME NEW i \in DOMAIN t PROVE t[i] \in ToSet(u)
  <2>1. i + Len(s) \in DOMAIN u /\ u[i + Len(s)] = t[i]
    BY <1>1
  <2> QED BY <2>1 DEF ToSet
<1>5. ToSet(u) \subseteq ToSet(s) \cup ToSet(t)
  BY <1>2 DEF ToSet
<1>6. ToSet(s) \subseteq ToSet(u) /\ ToSet(t) \subseteq ToSet(u)
  BY <1>3, <1>4 DEF ToSet
<1> QED BY <1>5, <1>6 DEF u

(* A finite set is listed once and in full.                                *)
LEMMA ListedInFull ==
  ASSUME NEW S, IsFiniteSet(S)
  PROVE  SetToSeq(S) \in Seq(S) /\ Len(SetToSeq(S)) = Cardinality(S) /\ ToSet(SetToSeq(S)) = S
<1> DEFINE n == Cardinality(S)
           f == SetToSeq(S)
<1>1. n \in Nat /\ ExistsBijection(1..n, S)
  BY FS_CardinalityType
<1>2. \E g \in [1..n -> S] : IsInjective(g)
  BY <1>1 DEF ExistsBijection, Bijection, Injection
<1>3. f \in [1..n -> S] /\ IsInjective(f)
  BY <1>2 DEF SetToSeq
<1> HIDE DEF f, n
<1>4. IsFiniteSet(1..n) /\ Cardinality(1..n) = n
  BY <1>1, FS_Interval
<1>5. f \in Surjection(1..n, S)
  <2>1. f \in Injection(1..n, S)
    BY <1>3 DEF Injection
  <2> QED BY <1>4, <2>1, FS_Injection DEF n
<1>6. f \in Seq(S) /\ Len(f) = n
  BY <1>1, <1>3
<1>7. ToSet(f) = S
  BY <1>3, <1>5 DEF Surjection, ToSet
<1> QED BY <1>6, <1>7 DEF f, n

LEMMA OneMore ==
  ASSUME NEW S, NEW s \in Seq(S), NEW x \in S
  PROVE  /\ Append(s, x) \in Seq(S) /\ Len(Append(s, x)) = Len(s) + 1
         /\ DOMAIN Append(s, x) = 1..(Len(s) + 1)
         /\ \A i \in DOMAIN Append(s, x) : Append(s, x)[i] = IF i <= Len(s) THEN s[i] ELSE x
OBVIOUS

-----------------------------------------------------------------------------
(* What the client keeps are receipts, and it posts some of them.          *)
LEMMA PostedAreKept ==
  ASSUME ReceiptsTypeOK
  PROVE  Posted \subseteq ToSet(kept) /\ ToSet(kept) \subseteq Receipts
BY DEF ReceiptsTypeOK, Posted, ToSet

(* A receipt that is signed comes last, and pushes none out of the post.   *)
LEMMA SignedComesLast ==
  ASSUME ReceiptsTypeOK, NEW x \in Receipts, kept' = Append(kept, x)
  PROVE  /\ kept' \in Seq(Receipts) /\ ToSet(kept)' \subseteq ToSet(kept) \cup {x}
         /\ Posted' \subseteq Posted \cup {x}
<1>1. kept \in Seq(Receipts) /\ DOMAIN kept = 1..Len(kept) /\ Len(kept) \in Nat
  BY DEF ReceiptsTypeOK
<1>2. /\ kept' \in Seq(Receipts) /\ DOMAIN kept' = 1..(Len(kept) + 1)
      /\ \A i \in DOMAIN kept' : kept'[i] = IF i <= Len(kept) THEN kept[i] ELSE x
  BY <1>1, OneMore
<1>3. \A i \in DOMAIN kept' : kept'[i] = x \/ (i \in DOMAIN kept /\ kept'[i] = kept[i])
  BY <1>1, <1>2
<1> QED BY <1>2, <1>3 DEF Posted, ToSet

LEMMA NothingKept ==
  ASSUME kept' = <<>>
  PROVE  kept' \in Seq(Receipts) /\ ToSet(kept)' = {} /\ Posted' = {}
<1>1. DOMAIN kept' = {} /\ kept' \in Seq(Receipts)
  OBVIOUS
<1> QED BY <1>1 DEF ToSet, Posted

-----------------------------------------------------------------------------
(* What the door takes fits its queue.                                     *)
LEMMA EnqueuedFits ==
  ASSUME ReceiptsTypeOK, NEW taken \in SUBSET Receipts, Cardinality(taken) <= Room, Enqueue(taken)
  PROVE  /\ queue' \in Seq(Receipts) /\ Len(queue') <= QueueLimit
         /\ ToSet(queue') = ToSet(queue) \cup taken
<1>1. IsFiniteSet(taken)
  BY ReceiptsAssumption, FS_Subset
<1> DEFINE listed == SetToSeq(taken)
<1>2. listed \in Seq(taken) /\ Len(listed) = Cardinality(taken) /\ ToSet(listed) = taken
  BY <1>1, ListedInFull
<1> HIDE DEF listed
<1>3. listed \in Seq(Receipts)
  BY <1>2
<1>4. queue' = queue \o listed
  BY DEF Enqueue, listed
<1>5. queue \in Seq(Receipts) /\ Len(listed) <= QueueLimit - Len(queue)
  BY <1>2 DEF ReceiptsTypeOK, Room
<1>6. ToSet(queue') = ToSet(queue) \cup taken
  BY <1>2, <1>3, <1>4, <1>5, ElementsOfBoth
<1>7. queue' \in Seq(Receipts) /\ Len(queue') = Len(queue) + Len(listed)
  BY <1>3, <1>4, <1>5
<1>8. Len(queue) \in Nat /\ Len(listed) \in Nat /\ QueueLimit \in Nat
  BY <1>3, <1>5, ReceiptsAssumption
<1> QED BY <1>5, <1>6, <1>7, <1>8

(* What is stored of receipts is among them and checks, and is all that    *)
(* does unless there is a fault.                                           *)
LEMMA StoredFacts ==
  ASSUME ReceiptsTypeOK, NEW receipts \in SUBSET Receipts, Stores(receipts)
  PROVE  /\ stored \subseteq stored' /\ stored' \subseteq Receipts /\ faults' \in 0..MaxFaults
         /\ \/ faults' = faults /\ \A r \in receipts : Checks(r) => r \in stored'
            \/ faults' = faults + 1
<1>1. CASE stored' = stored \cup {r \in receipts : Checks(r)} /\ UNCHANGED faults
  BY <1>1 DEF ReceiptsTypeOK
<1>2. CASE Fault /\ \E written \in SUBSET {r \in receipts : Checks(r)} : stored' = stored \cup written
  BY <1>2, ReceiptsAssumption DEF ReceiptsTypeOK, Fault
<1> QED BY <1>1, <1>2 DEF Stores

(* What is on its way to the head are receipts.                            *)
LEMMA CarriedAreReceipts ==
  ASSUME ReceiptsTypeOK
  PROVE  ToSet(queue) \subseteq Receipts /\ ToSet(batch) \subseteq Receipts
BY DEF ReceiptsTypeOK, ToSet

LEMMA NoneCarried ==
  ASSUME NEW s, s = <<>>
  PROVE  s \in Seq(Receipts) /\ Len(s) <= QueueLimit /\ ToSet(s) = {}
<1>1. s \in Seq(Receipts)
  OBVIOUS
<1>2. Len(s) = 0 /\ 0 <= QueueLimit
  BY ReceiptsAssumption
<1>3. ToSet(s) = {}
  BY DEF ToSet
<1> QED BY <1>1, <1>2, <1>3

LEMMA ReceiptsInitType == ReceiptsInit => ReceiptsTypeOK
<1> SUFFICES ASSUME ReceiptsInit PROVE ReceiptsTypeOK
  OBVIOUS
<1>1. /\ signed \in [Receipts -> 0..MaxKeys] /\ age \in [Receipts -> 0..(MaxAge + 1)]
      /\ seen \in [Receipts -> Memory]
  BY ReceiptsAssumption DEF ReceiptsInit, Memory
<1>2. /\ queue \in Seq(Receipts) /\ Len(queue) <= QueueLimit
      /\ batch \in Seq(Receipts) /\ Len(batch) <= QueueLimit
  BY NoneCarried DEF ReceiptsInit
<1>3. /\ kept \in Seq(Receipts) /\ brought \subseteq Receipts /\ stored \subseteq Receipts
      /\ key \in 1..MaxKeys /\ current \in 1..MaxVersions /\ applied \in 0..MaxVersions
      /\ faults \in 0..MaxFaults
  BY ReceiptsAssumption DEF ReceiptsInit
<1>4. enabled \in BOOLEAN
  BY DEF ReceiptsInit
<1> QED BY <1>1, <1>2, <1>3, <1>4 DEF ReceiptsTypeOK

(* The types hold in every state: the door queues no more than there is    *)
(* room for (Post), and remembers, sends and stores only receipts.         *)
THEOREM ReceiptsTyped == ReceiptsSpec => []ReceiptsTypeOK
<1>1. ReceiptsInit => ReceiptsTypeOK
  BY ReceiptsInitType
<1>2. ReceiptsTypeOK /\ [ReceiptsNext]_receiptsVars => ReceiptsTypeOK'
  <2> SUFFICES ASSUME ReceiptsTypeOK, [ReceiptsNext]_receiptsVars
               PROVE  ReceiptsTypeOK'
    OBVIOUS
  <2> USE ReceiptsAssumption DEF ReceiptsTypeOK, client, node, door
  <2>1. ASSUME NEW r \in Receipts, Sign(r) PROVE ReceiptsTypeOK'
    <3>1. kept' \in Seq(Receipts)
      BY <2>1, SignedComesLast DEF Sign
    <3> QED BY <2>1, <3>1 DEF Sign
  <2>2. CASE RegisterKey
    <3>1. key' \in 1..MaxKeys
      BY <2>2 DEF RegisterKey
    <3> QED BY <2>2, <3>1 DEF RegisterKey
  <2>3. CASE SubmitReceipts
    <3>1. stored' \subseteq Receipts /\ faults' \in 0..MaxFaults
      BY <2>3, StoredFacts, PostedAreKept DEF SubmitReceipts
    <3>2. kept' \in Seq(Receipts)
      BY <2>3, NothingKept DEF SubmitReceipts
    <3> QED BY <2>3, <3>1, <3>2 DEF SubmitReceipts
  <2>4. CASE Post
    <3>1. PICK old \in SUBSET {r \in Posted : MayRemember(r)} :
            LET known == old \cup {r \in Posted : Remembers(r)} IN
            \E taken \in SUBSET (Posted \ known) :
              /\ Cardinality(taken) <= Room
              /\ taken = Posted \ known \/ Cardinality(taken) = Room
              /\ Enqueue(taken)
              /\ brought' = brought \cup known \cup taken
      BY <2>4 DEF Post
    <3> DEFINE known == old \cup {r \in Posted : Remembers(r)}
    <3>2. PICK taken \in SUBSET (Posted \ known) :
            Cardinality(taken) <= Room /\ Enqueue(taken) /\ brought' = brought \cup known \cup taken
      BY <3>1
    <3>3. taken \in SUBSET Receipts /\ known \subseteq Receipts
      BY PostedAreKept
    <3>4. queue' \in Seq(Receipts) /\ Len(queue') <= QueueLimit
      BY <3>2, <3>3, EnqueuedFits
    <3>5. seen' \in [Receipts -> Memory]
      BY <3>2 DEF Enqueue, Memory
    <3>6. brought' \subseteq Receipts
      BY <3>2, <3>3
    <3> HIDE DEF known
    <3> QED BY <2>4, <3>4, <3>5, <3>6 DEF Post
  <2>5. CASE PostAtClosedDoor
    BY <2>5, NothingKept DEF PostAtClosedDoor
  <2>6. CASE Drain
    BY <2>6 DEF Drain
  <2>7. CASE LoseBatch
    BY <2>7 DEF LoseBatch, Fault
  <2>8. CASE AcceptCarried
    <3>1. stored' \subseteq Receipts /\ faults' \in 0..MaxFaults
      BY <2>8, StoredFacts, CarriedAreReceipts DEF AcceptCarried
    <3> QED BY <2>8, <3>1 DEF AcceptCarried
  <2>9. CASE Hour
    <3>1. faults' \in 0..MaxFaults
      BY <2>9 DEF Hour, Fault
    <3>2. age' \in [Receipts -> 0..(MaxAge + 1)]
      BY <2>9 DEF Hour, Older
    <3>3. seen' \in [Receipts -> Memory]
      BY <2>9 DEF Hour, Forget, Memory
    <3> QED BY <2>9, <3>1, <3>2, <3>3 DEF Hour
  <2>10. CASE NewVersion
    BY <2>10 DEF NewVersion
  <2>11. CASE ApplyConfig
    BY <2>11 DEF ApplyConfig
  <2>12. CASE AgentRestarts
    <3>1. faults' \in 0..MaxFaults /\ seen' \in [Receipts -> Memory]
      BY <2>12 DEF AgentRestarts, Fault, Memory
    <3>2. enabled' \in BOOLEAN
      BY <2>12 DEF AgentRestarts
    <3>3. queue' \in Seq(Receipts) /\ Len(queue') <= QueueLimit
      BY <2>12, NoneCarried DEF AgentRestarts
    <3> QED BY <2>12, <3>1, <3>2, <3>3 DEF AgentRestarts
  <2>13. CASE UNCHANGED receiptsVars
    BY <2>13 DEF receiptsVars
  <2> QED BY <2>1, <2>2, <2>3, <2>4, <2>5, <2>6, <2>7, <2>8, <2>9, <2>10, <2>11, <2>12, <2>13 DEF ReceiptsNext
<1> QED BY <1>1, <1>2, PTL DEF ReceiptsSpec

-----------------------------------------------------------------------------
(* A receipt on its way, and the hours for which the door will not take it *)
(* from the client again.                                                  *)
InFlight(r) == r \in ToSet(queue) \cup ToSet(batch)

HoursOwed(r) ==
  CASE seen[r] = "fresh" -> 2
    [] seen[r] = "stale" -> 1
    [] OTHER -> IF r \in brought THEN 1 ELSE 0

(* A receipt that nobody carries was brought to the door no longer ago     *)
(* than the door remembers it: of the two hours each fault costs, those it *)
(* still owes are left.                                                    *)
Unsigned(r) == signed[r] = 0 => age[r] = 0 /\ r \notin ToSet(kept) /\ r \notin brought /\ seen[r] = "never"

Timely(r) ==
  r \in Posted \ stored /\ signed[r] = key =>
    /\ age[r] <= 2 * faults
    /\ age[r] <= MaxAge /\ ~InFlight(r) => age[r] + HoursOwed(r) <= 2 * faults

RetriesInv ==
  /\ ReceiptsTypeOK
  /\ \A r \in Receipts : signed[r] <= key
  /\ \A r \in Receipts : Unsigned(r)
  /\ \A r \in Receipts : Timely(r)

LEMMA HoursOwedRange ==
  ASSUME NEW r
  PROVE  HoursOwed(r) \in 0..2
BY DEF HoursOwed

(* Receipts the door and the client hold as before owe what they owed, and *)
(* one that is stored meanwhile is owed nothing.                           *)
LEMMA TimelyStays ==
  ASSUME NEW r \in Receipts, Timely(r),
         UNCHANGED <<signed, age, key, seen, brought, faults>>,
         Posted' \subseteq Posted, stored \subseteq stored',
         InFlight(r) => InFlight(r)' \/ r \in stored' \/ ~(signed[r] = key /\ age[r] <= MaxAge)
  PROVE  Timely(r)'
BY DEF Timely, HoursOwed

(* Every fault costs two hours, which is more than a restart, a lost batch *)
(* or a write that failed can take.                                        *)
LEMMA TimelyAfterFault ==
  ASSUME ReceiptsTypeOK, NEW r \in Receipts, Timely(r),
         UNCHANGED <<signed, age, key>>, faults' = faults + 1,
         Posted' \subseteq Posted, stored \subseteq stored'
  PROVE  Timely(r)'
<1>1. HoursOwed(r)' \in 0..2 /\ age[r] \in Nat /\ faults \in Nat
  BY HoursOwedRange, ReceiptsAssumption DEF HoursOwed, ReceiptsTypeOK
<1> SUFFICES ASSUME r \in Posted \ stored, signed[r] = key
             PROVE  age[r] <= 2 * (faults + 1) /\ age[r] + HoursOwed(r)' <= 2 * (faults + 1)
  BY DEF Timely
<1>2. age[r] <= 2 * faults
  BY DEF Timely
<1> HIDE DEF HoursOwed
<1> QED BY <1>1, <1>2

LEMMA RetriesInit == ReceiptsInit => RetriesInv
<1> SUFFICES ASSUME ReceiptsInit PROVE RetriesInv
  OBVIOUS
<1>1. ReceiptsTypeOK
  BY ReceiptsInitType
<1>2. \A r \in Receipts : signed[r] <= key
  BY DEF ReceiptsInit
<1>3. \A r \in Receipts : Unsigned(r)
  <2>1. ToSet(kept) = {}
    BY NoneCarried DEF ReceiptsInit
  <2> QED BY <2>1 DEF ReceiptsInit, Unsigned
<1>4. \A r \in Receipts : Timely(r)
  BY DEF ReceiptsInit, Timely, Posted
<1> QED BY <1>1, <1>2, <1>3, <1>4 DEF RetriesInv

LEMMA RetriesStep ==
  ASSUME RetriesInv, [ReceiptsNext]_receiptsVars, ReceiptsTypeOK'
  PROVE  RetriesInv'
<1> SUFFICES ASSUME NEW r \in Receipts
             PROVE  (signed[r] <= key)' /\ Unsigned(r)' /\ Timely(r)'
  BY DEF RetriesInv
<1>0. /\ ReceiptsTypeOK /\ signed[r] <= key /\ Unsigned(r) /\ Timely(r)
      /\ signed[r] \in Nat /\ key \in Nat /\ key # 0 /\ age[r] \in Nat /\ faults \in Nat /\ MaxAge \in Nat
  BY ReceiptsAssumption DEF RetriesInv, ReceiptsTypeOK
<1>a. Posted \subseteq ToSet(kept) /\ ToSet(kept) \subseteq Receipts
  BY <1>0, PostedAreKept
<1> USE DEF client, node, door
<1>b. kept' = kept => Posted' = Posted /\ ToSet(kept)' = ToSet(kept)
  BY DEF Posted
<1>1. ASSUME NEW x \in Receipts, Sign(x) PROVE (signed[r] <= key)' /\ Unsigned(r)' /\ Timely(r)'
  <2>3. /\ ToSet(kept)' \subseteq ToSet(kept) \cup {x} /\ Posted' \subseteq Posted \cup {x}
    BY <1>0, <1>1, SignedComesLast DEF Sign
  <2>1. CASE x = r
    <3>1. signed[r] = 0 /\ signed'[r] = key
      BY <1>1, <2>1 DEF Sign, ReceiptsTypeOK
    <3>2. age'[r] = 0 /\ HoursOwed(r)' = 0 /\ faults' = faults
      BY <1>0, <1>1, <3>1 DEF Sign, Unsigned, HoursOwed
    <3>3. Timely(r)'
      BY <1>0, <3>2 DEF Timely
    <3> QED BY <1>0, <1>1, <3>1, <3>3 DEF Sign, Unsigned
  <2>2. CASE x # r
    BY <1>0, <1>1, <2>2, <2>3 DEF Sign, Unsigned, Timely, HoursOwed, InFlight, ReceiptsTypeOK
  <2> QED BY <2>1, <2>2
<1>2. CASE RegisterKey
  BY <1>0, <1>2, <1>a, <1>b DEF RegisterKey, Unsigned, Timely
<1>3. CASE SubmitReceipts
  <2>1. ToSet(kept) \in SUBSET Receipts /\ ToSet(kept)' \subseteq ToSet(kept) /\ Posted' \subseteq Posted
    BY <1>3, <1>a, <1>b, NothingKept DEF SubmitReceipts
  <2>2. /\ stored \subseteq stored'
        /\ faults' = faults \/ faults' = faults + 1
    BY <1>0, <1>3, <2>1, StoredFacts DEF SubmitReceipts
  <2>3. Timely(r)'
    <3>1. CASE faults' = faults
      <4>1. InFlight(r) => InFlight(r)'
        BY <1>3 DEF SubmitReceipts, InFlight
      <4> QED BY <1>0, <1>3, <2>1, <2>2, <3>1, <4>1, TimelyStays DEF SubmitReceipts
    <3>2. CASE faults' = faults + 1
      BY <1>0, <1>3, <2>1, <2>2, <3>2, TimelyAfterFault DEF SubmitReceipts
    <3> QED BY <2>2, <3>1, <3>2
  <2> QED BY <1>0, <1>3, <2>1, <2>3 DEF SubmitReceipts, Unsigned
<1>4. CASE Post
  <2>1. PICK old \in SUBSET {x \in Posted : MayRemember(x)} :
          LET known == old \cup {x \in Posted : Remembers(x)} IN
          \E taken \in SUBSET (Posted \ known) :
            /\ Cardinality(taken) <= Room
            /\ taken = Posted \ known \/ Cardinality(taken) = Room
            /\ Enqueue(taken)
            /\ brought' = brought \cup known \cup taken
    BY <1>4 DEF Post
  <2> DEFINE known == old \cup {x \in Posted : Remembers(x)}
  <2>2. PICK taken \in SUBSET (Posted \ known) :
          Cardinality(taken) <= Room /\ Enqueue(taken) /\ brought' = brought \cup known \cup taken
    BY <2>1
  <2>3. taken \in SUBSET Receipts
    BY <1>a
  <2>4. ToSet(queue') = ToSet(queue) \cup taken
    BY <1>0, <2>2, <2>3, EnqueuedFits
  <2>5. known \subseteq Posted /\ \A x \in known : seen[x] \in {"fresh", "stale"}
    BY DEF Remembers, MayRemember
  <2>6. seen'[r] = IF r \in taken THEN "fresh" ELSE seen[r]
    BY <2>2 DEF Enqueue
  <2>7. UNCHANGED <<signed, age, key, kept, batch, stored, faults>>
    BY <1>4 DEF Post
  <2> HIDE DEF known
  <2>8. r \in ToSet(kept) \/ (r \notin taken /\ r \notin known)
    BY <1>a, <2>5
  <2>9. Unsigned(r)'
    BY <1>0, <1>b, <2>2, <2>6, <2>7, <2>8 DEF Unsigned
  <2>10. CASE r \in taken
    <3>1. InFlight(r)'
      BY <2>4, <2>10 DEF InFlight
    <3> QED BY <1>0, <1>b, <2>7, <2>9, <3>1 DEF Timely
  <2>11. CASE r \notin taken
    <3>1. HoursOwed(r)' = HoursOwed(r)
      BY <2>2, <2>5, <2>6, <2>11 DEF HoursOwed
    <3>2. InFlight(r)' = InFlight(r)
      BY <2>4, <2>7, <2>11 DEF InFlight
    <3> QED BY <1>0, <1>b, <2>7, <2>9, <3>1, <3>2 DEF Timely
  <2> QED BY <2>10, <2>11
<1>5. CASE PostAtClosedDoor
  BY <1>0, <1>5, NothingKept DEF PostAtClosedDoor, Unsigned, Timely
<1>6. CASE Drain
  <2>1. InFlight(r)' = InFlight(r)
    BY <1>6, NoneCarried DEF Drain, InFlight
  <2> QED BY <1>0, <1>6, <1>b, <2>1 DEF Drain, Unsigned, Timely, HoursOwed
<1>7. CASE LoseBatch
  <2>1. Timely(r)'
    BY <1>0, <1>7, <1>b, TimelyAfterFault DEF LoseBatch, Fault
  <2> QED BY <1>0, <1>7, <1>b, <2>1 DEF LoseBatch, Unsigned
<1>8. CASE AcceptCarried
  <2>1. ToSet(batch) \in SUBSET Receipts
    BY <1>0, CarriedAreReceipts
  <2>2. /\ stored \subseteq stored'
        /\ \/ faults' = faults /\ \A x \in ToSet(batch) : Checks(x) => x \in stored'
           \/ faults' = faults + 1
    BY <1>0, <1>8, <2>1, StoredFacts DEF AcceptCarried
  <2>3. Timely(r)'
    <3>1. CASE faults' = faults /\ \A x \in ToSet(batch) : Checks(x) => x \in stored'
      <4>1. InFlight(r) => InFlight(r)' \/ r \in stored' \/ ~(signed[r] = key /\ age[r] <= MaxAge)
        BY <1>8, <3>1 DEF AcceptCarried, InFlight, Checks
      <4> QED BY <1>0, <1>8, <1>b, <2>2, <3>1, <4>1, TimelyStays DEF AcceptCarried
    <3>2. CASE faults' = faults + 1
      BY <1>0, <1>8, <1>b, <2>2, <3>2, TimelyAfterFault DEF AcceptCarried
    <3> QED BY <2>2, <3>1, <3>2
  <2> QED BY <1>0, <1>8, <1>b, <2>3 DEF AcceptCarried, Unsigned
<1>9. CASE Hour
  <2>1. /\ UNCHANGED <<signed, kept, key, queue, batch, stored>>
        /\ brought' = {}
        /\ age'[r] = IF signed[r] # 0 /\ age[r] <= MaxAge THEN age[r] + 1 ELSE age[r]
        /\ seen'[r] = IF seen[r] = "fresh" THEN "stale" ELSE "never"
    BY <1>9 DEF Hour, Older, Forget
  <2>2. Unsigned(r)'
    BY <1>0, <1>b, <2>1 DEF Unsigned
  <2>3. HoursOwed(r)' \in {0, 1} /\ (seen[r] # "fresh" => HoursOwed(r)' = 0)
    BY <2>1 DEF HoursOwed
  <2>4. Timely(r)'
    <3> SUFFICES ASSUME r \in Posted \ stored, signed[r] = key
                 PROVE  /\ age'[r] <= 2 * faults'
                        /\ age'[r] <= MaxAge => age'[r] + HoursOwed(r)' <= 2 * faults'
      BY <1>b, <2>1 DEF Timely
    <3>1. age[r] <= 2 * faults /\ signed[r] # 0
      BY <1>0 DEF Timely
    <3>2. CASE faults' = faults + 1
      <4> DEFINE owed == HoursOwed(r)'
      <4>1. owed \in {0, 1}
        BY <2>3
      <4> HIDE DEF owed
      <4>2. age'[r] <= age[r] + 1 /\ age'[r] \in Nat
        BY <1>0, <2>1
      <4>3. age'[r] + owed <= 2 * faults'
        BY <1>0, <3>1, <3>2, <4>1, <4>2
      <4> QED BY <1>0, <3>2, <4>1, <4>2, <4>3 DEF owed
    <3>3. CASE Posted \subseteq brought /\ queue = <<>> /\ batch = <<>> /\ faults' = faults
      <4>1. ~InFlight(r)
        BY <3>3, NoneCarried DEF InFlight
      <4>2. r \in brought
        BY <3>3
      <4>3. HoursOwed(r) = 2 \/ (HoursOwed(r) = 1 /\ HoursOwed(r)' = 0)
        BY <2>1, <2>3, <4>2 DEF HoursOwed
      <4>4. CASE age[r] <= MaxAge
        <5> DEFINE owed == HoursOwed(r)'
                   owes == HoursOwed(r)
        <5>1. age[r] + owes <= 2 * faults
          BY <1>0, <4>1, <4>4 DEF Timely
        <5>2. owed \in {0, 1} /\ (owes = 2 \/ (owes = 1 /\ owed = 0))
          BY <2>3, <4>3
        <5> HIDE DEF owed, owes
        <5>3. age'[r] = age[r] + 1
          BY <2>1, <3>1, <4>4
        <5>4. age'[r] <= 2 * faults /\ age'[r] + owed <= 2 * faults
          BY <1>0, <5>1, <5>2, <5>3
        <5> QED BY <3>3, <5>4 DEF owed
      <4>5. CASE ~(age[r] <= MaxAge)
        BY <2>1, <3>1, <3>3, <4>5
      <4> QED BY <4>4, <4>5
    <3> QED BY <1>9, <3>2, <3>3 DEF Hour, Fault
  <2> QED BY <1>0, <2>1, <2>2, <2>4
<1>10. CASE NewVersion
  BY <1>0, <1>10, <1>b DEF NewVersion, Unsigned, Timely, HoursOwed, InFlight
<1>11. CASE ApplyConfig
  BY <1>0, <1>11, <1>b DEF ApplyConfig, Unsigned, Timely, HoursOwed, InFlight
<1>12. CASE AgentRestarts
  <2>1. Timely(r)'
    BY <1>0, <1>12, <1>b, TimelyAfterFault DEF AgentRestarts, Fault
  <2> QED BY <1>0, <1>12, <1>b, <2>1 DEF AgentRestarts, Unsigned
<1>13. CASE UNCHANGED receiptsVars
  BY <1>0, <1>13, <1>b DEF receiptsVars, Unsigned, Timely, HoursOwed, InFlight
<1> QED BY <1>1, <1>2, <1>3, <1>4, <1>5, <1>6, <1>7, <1>8, <1>9, <1>10, <1>11, <1>12, <1>13 DEF ReceiptsNext

(* A receipt among the first MaxPerRequest that the client keeps, signed   *)
(* with the key it has now, is in the head's table or its window ended no  *)
(* longer ago than two hours for each fault there was (agentclient.go,     *)
(* pump; receiptdoor.go, handle).                                          *)
THEOREM RetriesAreInTime == ReceiptsSpec => []RetriesOutliveFaults
<1>1. RetriesInv => RetriesOutliveFaults
  <2>1. ReceiptsTypeOK => Posted \subseteq Receipts
    BY PostedAreKept
  <2> QED BY <2>1 DEF RetriesInv, Timely, RetriesOutliveFaults
<1>2. RetriesInv /\ [ReceiptsNext]_receiptsVars /\ ReceiptsTypeOK' => RetriesInv'
  BY RetriesStep
<1> QED BY RetriesInit, ReceiptsTyped, <1>1, <1>2, PTL DEF ReceiptsSpec
=============================================================================
