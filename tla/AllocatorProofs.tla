--------------------------- MODULE AllocatorProofs ---------------------------
(* Proofs that the properties of Allocator hold for any number of users,   *)
(* nodes, devices and tokens and for any bound on the events around it.    *)
EXTENDS Allocator, FiniteSetTheorems, TLAPS

USE DEF Keys, Slots

(* A pick is a set of active nodes, spread, and no larger than asked for.  *)
LEMMA PickFacts ==
  ASSUME TypeOK, NEW current, NEW enough, NEW ns \in Picks(current, enough)
  PROVE  ns \subseteq active /\ Spread(ns) /\ Cardinality(ns) <= enough
<1>1. PICK kept \in Draws({}, current \cap active, enough) :
        ns \in UNION {Draws(kept, pool, enough) : pool \in Shortlists(active \ kept)}
  BY DEF Picks
<1>2. PICK pool \in Shortlists(active \ kept) : ns \in Draws(kept, pool, enough)
  BY <1>1
<1>3. kept \subseteq active /\ pool \subseteq active
  BY <1>1, <1>2 DEF Draws, Shortlists
<1> QED BY <1>2, <1>3 DEF Draws

(* What can be refused is part of what was pushed.                         *)
LEMMA RefusalFacts ==
  ASSUME NEW ks, NEW smooth, NEW refused \in Refusals(ks, smooth)
  PROVE  /\ refused \subseteq ks
         /\ \A k \in ks : k[1] \notin connected => k \in refused
BY DEF Refusals

WireType ==
  /\ connected \subseteq Nodes
  /\ hello \in [Nodes -> {"due", "read", "done"}]
  /\ snapshot \in [Users -> SUBSET Keys]
  /\ told \in [Users -> SUBSET Keys]
  /\ owed \subseteq Nodes
  /\ overtaken \subseteq Nodes

LEMMA PushType ==
  ASSUME TypeOK, NEW u \in Users, NEW gone \in SUBSET Keys, NEW new \in SUBSET Keys, NEW refused,
         Push(u, gone, new, refused)
  PROVE  WireType'
BY DEF TypeOK, Push, WireType, NodesIn

LEMMA PersistType ==
  ASSUME TypeOK, NEW smooth, Persist(smooth),
         profiles' \in [Users -> SUBSET Keys], sticky' \in [Users -> Nat],
         token' \in [Users -> Tokens \cup {NoToken}]
  PROVE  store' \in Rows /\ unsaved' \in BOOLEAN
<1>1. unsaved' \in BOOLEAN
  BY ZenonT(20) DEF Persist
<1>2. [profiles |-> profiles', sticky |-> sticky', token |-> token'] \in Rows
  BY DEF Rows
<1>3. store \in Rows
  BY DEF TypeOK
<1>4. store' \in Rows
  BY <1>2, <1>3 DEF Persist
<1> QED BY <1>1, <1>4

LEMMA EnrolType ==
  ASSUME TypeOK, NEW u \in Users, Enrol(u)
  PROVE  token' \in [Users -> Tokens \cup {NoToken}] /\ byToken' \in [Tokens -> Users \cup {NoUser}]
BY DEF TypeOK, Enrol

LEMMA SpanFacts ==
  ASSUME NEW s \in Spans \cup {NoSpan}, NEW at \in Nat
  PROVE  /\ Granted(s, at) \in Spans /\ Granted(s, at).until = Open
         /\ Revoked(s, at) \in Spans \cup {NoSpan}
BY DEF Granted, Revoked, Spans

LEMMA TakeAwayType ==
  ASSUME TypeOK, NEW u \in Users, NEW smooth, TakeAway(u, smooth)
  PROVE  /\ profiles' \in [Users -> SUBSET Keys]
         /\ span' \in [Users \X Nodes -> Spans \cup {NoSpan}]
         /\ WireType'
<1>1. PICK refused : Push(u, profiles[u], {}, refused)
  BY DEF TakeAway
<1>2. WireType'
  BY <1>1, PushType DEF TypeOK
<1>3. span' \in [Users \X Nodes -> Spans \cup {NoSpan}]
  BY SpanFacts DEF TypeOK, TakeAway
<1> QED BY <1>2, <1>3 DEF TypeOK, TakeAway

LEMMA JournalType ==
  ASSUME TypeOK, NEW u \in Users, NEW gone, NEW new, NEW refused
  PROVE  Journal(u, gone, new, refused) \in [Users \X Nodes -> Spans \cup {NoSpan}]
<1> SUFFICES ASSUME NEW x \in Users \X Nodes
             PROVE  Journal(u, gone, new, refused)[x] \in Spans \cup {NoSpan}
  BY DEF TypeOK, Journal
<1>1. /\ span[x] \in Spans \cup {NoSpan}
      /\ Revoked(span[x], now) \in Spans \cup {NoSpan}
      /\ Granted(span[x], now) \in Spans
  BY SpanFacts DEF TypeOK
<1> QED BY <1>1 DEF TypeOK, Journal

(* EnsureMoves with its pick and its refusals named.                       *)
Move(u, d, smooth, picked, refused) ==
  LET gone == Gone(u, picked)
      new == {<<n, Base>> : n \in picked} \ profiles[u]
      held == (profiles[u] \ gone) \cup (new \ refused)
  IN /\ Push(u, gone, new, refused)
     /\ profiles' = [profiles EXCEPT ![u] = held]
     /\ span' = Journal(u, gone, new, refused)
     /\ seen' = seen \cup ({u} \X NodesIn(new \ refused))
     /\ Enrol(u)
     /\ IF held = {}
        THEN UNCHANGED <<sticky, store, unsaved, awaiting>>
        ELSE /\ sticky' = [sticky EXCEPT ![u] = now + StickyFor]
             /\ Persist(smooth)
             /\ Proceed(u, d)

(* The pick is spread and no larger than the band, and every push to a     *)
(* node without a session was refused.                                     *)
LEMMA MoveFacts ==
  ASSUME TypeOK, NEW u \in Users, NEW d \in Slots, NEW smooth, EnsureMoves(u, d, smooth)
  PROVE  \E picked \in SUBSET Nodes : \E refused :
           /\ Spread(picked) /\ Cardinality(picked) <= want[u]
           /\ \A k \in Gone(u, picked) \cup ({<<n, Base>> : n \in picked} \ profiles[u]) :
                k[1] \notin connected => k \in refused
           /\ Move(u, d, smooth, picked, refused)
<1>1. PICK picked \in Picks(NodesIn(profiles[u]), want[u]) \ {{}} :
        \E refused \in Refusals(Gone(u, picked) \cup ({<<n, Base>> : n \in picked} \ profiles[u]), smooth) :
          Move(u, d, smooth, picked, refused)
  BY DEF EnsureMoves, Move
<1>2. picked \subseteq active /\ Spread(picked) /\ Cardinality(picked) <= want[u]
  BY PickFacts
<1>3. PICK refused \in Refusals(Gone(u, picked) \cup ({<<n, Base>> : n \in picked} \ profiles[u]), smooth) :
        Move(u, d, smooth, picked, refused)
  BY <1>1
<1>4. \A k \in Gone(u, picked) \cup ({<<n, Base>> : n \in picked} \ profiles[u]) :
        k[1] \notin connected => k \in refused
  BY RefusalFacts
<1>5. picked \in SUBSET Nodes
  BY <1>2 DEF TypeOK
<1> QED BY <1>2, <1>3, <1>4, <1>5

LEMMA MoveType ==
  ASSUME TypeOK, NEW u \in Users, NEW d \in Slots, NEW smooth,
         EnsureMoves(u, d, smooth), turns' \in Nat, drifted' \subseteq Users \X Pairs
  PROVE  TypeOK'
<1>1. PICK picked, refused : picked \in SUBSET Nodes /\ Move(u, d, smooth, picked, refused)
  BY MoveFacts
<1> DEFINE gone == Gone(u, picked)
           new == {<<n, Base>> : n \in picked} \ profiles[u]
           held == (profiles[u] \ gone) \cup (new \ refused)
<1>2. gone \in SUBSET Keys /\ new \in SUBSET Keys /\ held \in SUBSET Keys
  BY <1>1 DEF TypeOK, Gone
<1>3. profiles' \in [Users -> SUBSET Keys]
  BY <1>1, <1>2 DEF TypeOK, Move
<1>4. span' \in [Users \X Nodes -> Spans \cup {NoSpan}]
  BY <1>1, JournalType DEF Move
<1>5. WireType'
  BY <1>1, <1>2, PushType DEF Move
<1>6. token' \in [Users -> Tokens \cup {NoToken}] /\ byToken' \in [Tokens -> Users \cup {NoUser}]
  BY <1>1, EnrolType DEF Move
<1>7. sticky' \in [Users -> Nat]
  <2>1. now + StickyFor \in Nat
    BY ConstantsAssumption DEF TypeOK
  <2>2. sticky' = sticky \/ sticky' = [sticky EXCEPT ![u] = now + StickyFor]
    BY <1>1 DEF Move
  <2> QED BY <2>1, <2>2 DEF TypeOK
<1>8. store' \in Rows /\ unsaved' \in BOOLEAN
  BY <1>1, <1>3, <1>6, <1>7, PersistType DEF TypeOK, Move
<1>9. seen' \subseteq Users \X Nodes
  BY <1>1, <1>2 DEF TypeOK, NodesIn, Move
<1>10. awaiting' \subseteq Users \X Devices
  BY <1>1 DEF TypeOK, Proceed, Move
<1>11. UNCHANGED <<want, active, clash, now>>
  BY DEF EnsureMoves, fleetVars
<1> QED BY <1>3, <1>4, <1>5, <1>6, <1>7, <1>8, <1>9, <1>10, <1>11 DEF TypeOK, WireType

LEMMA RestartType ==
  ASSUME TypeOK, Restart, turns' \in Nat, drifted' \subseteq Users \X Pairs
  PROVE  TypeOK'
<1>1. /\ profiles' \in [Users -> SUBSET Keys]
      /\ sticky' \in [Users -> Nat]
      /\ token' \in [Users -> Tokens \cup {NoToken}]
      /\ store' \in Rows
  BY DEF TypeOK, Restart, Rows
<1>2. byToken' \in [Tokens -> Users \cup {NoUser}]
  <2> SUFFICES ASSUME NEW t \in Tokens, \E u \in Users : store.token[u] = t
               PROVE  (CHOOSE u \in Users : store.token[u] = t) \in Users
    BY DEF Restart
  <2> QED OBVIOUS
<1>3. span' \in [Users \X Nodes -> Spans \cup {NoSpan}]
  <2>1. [from |-> now - GrantMemory, until |-> Open] \in Spans
    BY ConstantsAssumption DEF TypeOK, Spans
  <2> QED BY <2>1 DEF TypeOK, Restart, LoadedJournal
<1>4. want' \in [Users -> 0 .. DefaultWant]
  BY ConstantsAssumption DEF Restart
<1> QED BY <1>1, <1>2, <1>3, <1>4 DEF TypeOK, Restart, fleetVars

LEMMA DropType ==
  ASSUME TypeOK, NEW n \in Nodes, DropNode(n), turns' \in Nat, drifted' \subseteq Users \X Pairs
  PROVE  TypeOK'
<1>1. profiles' \in [Users -> SUBSET Keys]
  BY DEF TypeOK, DropNode
<1>2. sticky' \in [Users -> Nat]
  BY DEF TypeOK, DropNode
<1>3. UNCHANGED <<token, byToken, span, want, awaiting, active, clash, connected, hello, snapshot,
                    told, overtaken, seen, now>>
  BY DEF DropNode, fleetVars
<1>4. store' \in Rows /\ unsaved' \in BOOLEAN
  <2>1. Persist(FALSE) \/ UNCHANGED <<store, unsaved>>
    BY DEF DropNode
  <2>2. token' \in [Users -> Tokens \cup {NoToken}]
    BY <1>3 DEF TypeOK
  <2> QED BY <2>1, <2>2, <1>1, <1>2, PersistType DEF TypeOK
<1>5. owed' \subseteq Nodes
  BY DEF TypeOK, DropNode
<1> QED BY <1>1, <1>2, <1>3, <1>4, <1>5 DEF TypeOK

LEMMA CallType ==
  ASSUME TypeOK, NEW smooth, Calls(smooth), turns' \in Nat, drifted' \subseteq Users \X Pairs
  PROVE  TypeOK'
<1>1. ASSUME NEW u \in Users, EnsureQuarantined(u, smooth) PROVE TypeOK'
  BY <1>1, EnrolType, TakeAwayType DEF TypeOK, EnsureQuarantined, WireType, fleetVars
<1>2. ASSUME NEW u \in Users, NEW d \in Slots, EnsureKeeps(u, d) PROVE TypeOK'
  BY <1>2 DEF TypeOK, EnsureKeeps, Proceed, heldVars, wireVars, fleetVars
<1>3. ASSUME NEW u \in Users, EnsureNoCapacity(u) PROVE TypeOK'
  BY <1>3, EnrolType DEF TypeOK, EnsureNoCapacity, wireVars, fleetVars
<1>4. ASSUME NEW u \in Users, NEW d \in Slots, EnsureMoves(u, d, smooth) PROVE TypeOK'
  BY <1>4, MoveType
<1>5. ASSUME NEW u \in Users, NEW d \in Devices, IssueDevice(u, d, smooth) PROVE TypeOK'
  <2> DEFINE new == {<<n, d>> : n \in NodesIn(profiles[u])} \ profiles[u]
  <2>1. new \in SUBSET Keys
    BY DEF TypeOK, NodesIn
  <2>2. PICK refused :
          /\ Push(u, {}, new, refused)
          /\ profiles' = [profiles EXCEPT ![u] = @ \cup (new \ refused)]
          /\ UNCHANGED <<sticky, token>>
          /\ IF new \subseteq refused THEN UNCHANGED <<store, unsaved>> ELSE Persist(smooth)
    BY <1>5 DEF IssueDevice
  <2>3. WireType'
    BY <2>1, <2>2, PushType
  <2>4. profiles' \in [Users -> SUBSET Keys]
    BY <2>1, <2>2 DEF TypeOK
  <2>5. store' \in Rows /\ unsaved' \in BOOLEAN
    BY <2>2, <2>4, PersistType DEF TypeOK
  <2>6. /\ awaiting' \subseteq Users \X Devices
        /\ UNCHANGED <<sticky, token, byToken, span, want, active, clash, seen, now>>
    BY <1>5, <2>2 DEF TypeOK, IssueDevice, fleetVars
  <2> QED BY <2>3, <2>4, <2>5, <2>6 DEF TypeOK, WireType
<1> QED BY <1>1, <1>2, <1>3, <1>4, <1>5 DEF Calls, Ensure

LEMMA RehomeType ==
  ASSUME TypeOK, NEW n \in Nodes, Rehome(n)
  PROVE  clash' \subseteq Pairs
<1>1. PICK near \in SUBSET (Nodes \ {n}) :
        clash' = {p \in clash : n \notin p} \cup {{n, m} : m \in near}
  BY DEF Rehome
<1>2. ASSUME NEW m \in near PROVE {n, m} \in Pairs
  <2>1. {n, m} \in SUBSET Nodes /\ n # m
    OBVIOUS
  <2>2. \E a, b \in {n, m} : a # b /\ {n, m} = {a, b}
    BY <2>1
  <2> QED BY <2>1, <2>2 DEF Pairs
<1> QED BY <1>1, <1>2 DEF TypeOK

LEMMA EventType ==
  ASSUME TypeOK, Events, turns' \in Nat, drifted' \subseteq Users \X Pairs
  PROVE  TypeOK'
<1>1. ASSUME NEW u \in Users, Revoke(u) PROVE TypeOK'
  <2>1. /\ profiles' \in [Users -> SUBSET Keys]
        /\ span' \in [Users \X Nodes -> Spans \cup {NoSpan}]
        /\ WireType'
    BY <1>1, TakeAwayType DEF Revoke
  <2>2. sticky' \in [Users -> Nat] /\ token' \in [Users -> Tokens \cup {NoToken}]
    BY <1>1 DEF TypeOK, Revoke
  <2>3. store' \in Rows /\ unsaved' \in BOOLEAN
    BY <1>1, <2>1, <2>2, PersistType DEF Revoke
  <2>4. byToken' \in [Tokens -> Users \cup {NoUser}]
    BY <1>1 DEF TypeOK, Revoke
  <2> QED BY <1>1, <2>1, <2>2, <2>3, <2>4 DEF TypeOK, Revoke, WireType, fleetVars
<1>2. ASSUME NEW u \in Users, AddUsage(u) PROVE TypeOK'
  <2>1. UNCHANGED <<heldVars, span, want, awaiting, fleetVars, wireVars, seen, now>>
    BY <1>2 DEF AddUsage
  <2>2. store' \in Rows /\ unsaved' \in BOOLEAN
    BY <1>2, <2>1, PersistType DEF AddUsage, heldVars, TypeOK
  <2> QED BY <2>1, <2>2 DEF TypeOK, heldVars, wireVars, fleetVars
<1>3. ASSUME NEW n \in Nodes, DropNode(n) PROVE TypeOK'
  BY <1>3, DropType
<1>4. CASE Restart
  BY <1>4, RestartType
<1>5. ASSUME NEW n \in Nodes, Connect(n) PROVE TypeOK'
  BY <1>5 DEF TypeOK, Connect, heldVars, fleetVars
<1>6. ASSUME NEW n \in Nodes, Disconnect(n) PROVE TypeOK'
  BY <1>6 DEF TypeOK, Disconnect, heldVars, fleetVars
<1>7. ASSUME NEW n \in Nodes, Rotate(n) PROVE TypeOK'
  BY <1>7 DEF TypeOK, Rotate, heldVars, wireVars
<1>8. ASSUME NEW u \in Users, NEW w \in 0 .. DefaultWant, SetBand(u, w) PROVE TypeOK'
  BY <1>8 DEF TypeOK, SetBand, heldVars, wireVars, fleetVars
<1>9. CASE Tick
  BY <1>9 DEF TypeOK, Tick, heldVars, wireVars, fleetVars
<1>10. ASSUME NEW n \in Nodes, Rehome(n) PROVE TypeOK'
  <2>1. clash' \subseteq Pairs
    BY <1>10, RehomeType
  <2>2. UNCHANGED <<heldVars, span, store, unsaved, want, awaiting, active, wireVars, seen, now>>
    BY <1>10 DEF Rehome
  <2> QED BY <2>1, <2>2 DEF TypeOK, heldVars, wireVars
<1> QED BY <1>1, <1>2, <1>3, <1>4, <1>5, <1>6, <1>7, <1>8, <1>9, <1>10 DEF Events

LEMMA HandlerType ==
  ASSUME TypeOK, Handlers, turns' \in Nat, drifted' \subseteq Users \X Pairs
  PROVE  TypeOK'
<1>1. ASSUME NEW n \in Nodes, ReadSpecs(n) PROVE TypeOK'
  BY <1>1 DEF TypeOK, ReadSpecs, heldVars, fleetVars, OnNode
<1>2. ASSUME NEW n \in Nodes, SendSpecs(n) PROVE TypeOK'
  BY <1>2 DEF TypeOK, SendSpecs, heldVars, fleetVars, OnNode
<1> QED BY <1>1, <1>2 DEF Handlers

(* A handler only reads what the allocator keeps.                          *)
LEMMA HandlerStep ==
  ASSUME Handlers
  PROVE  UNCHANGED <<heldVars, span, store, unsaved, want, awaiting, fleetVars, seen, now>>
BY DEF Handlers, ReadSpecs, SendSpecs

(* Only Rehome changes which nodes share a fate.                           *)
LEMMA ClashStep ==
  ASSUME TypeOK, Step
  PROVE  /\ clash' \subseteq Pairs
         /\ clash' # clash => \E n \in Nodes : Rehome(n)
<1>1. ASSUME NEW smooth, Calls(smooth) PROVE clash' = clash
  BY <1>1 DEF Calls, Ensure, EnsureQuarantined, EnsureKeeps, EnsureNoCapacity, EnsureMoves,
       IssueDevice, fleetVars
<1>2. ASSUME Handlers PROVE clash' = clash
  BY <1>2 DEF Handlers, ReadSpecs, SendSpecs, fleetVars
<1>3. ASSUME Events PROVE clash' = clash \/ \E n \in Nodes : Rehome(n)
  BY <1>3 DEF Events, Revoke, AddUsage, DropNode, Restart, Connect, Disconnect, Rotate,
       SetBand, Tick, fleetVars
<1>4. clash' = clash \/ \E n \in Nodes : Rehome(n)
  BY <1>1, <1>2, <1>3, Zenon DEF Step
<1> QED BY <1>4, RehomeType DEF TypeOK

LEMMA InitType == Init => TypeOK
<1> SUFFICES ASSUME Init PROVE TypeOK
  OBVIOUS
<1>1. store \in Rows
  BY DEF Init, Rows
<1>2. want \in [Users -> 0 .. DefaultWant] /\ turns \in Nat
  BY ConstantsAssumption DEF Init
<1> QED BY <1>1, <1>2 DEF Init, TypeOK

(* Every variable stays within its type.                                   *)
THEOREM TypeCorrect == Spec => []TypeOK
<1>1. TypeOK /\ [Next]_vars => TypeOK'
  <2> SUFFICES ASSUME TypeOK, [Next]_vars PROVE TypeOK'
    OBVIOUS
  <2>1. CASE UNCHANGED vars
    BY <2>1 DEF TypeOK, vars, heldVars, wireVars, fleetVars
  <2>2. CASE Next
    <3>1. turns' = turns \/ Turn
      BY <2>2, Zenon DEF Next, Step
    <3>2. turns' \in Nat
      BY <3>1 DEF TypeOK, Turn
    <3>3. drifted' \subseteq Users \X Pairs
      BY <2>2, ClashStep DEF Next, Drift
    <3> QED BY <2>2, <3>2, <3>3, CallType, HandlerType, EventType DEF Next, Step
  <2> QED BY <2>1, <2>2
<1> QED BY InitType, <1>1, PTL DEF Spec

-----------------------------------------------------------------------------
(* What a step does to the store, whichever it is: nothing, or a save of   *)
(* the whole state the step leaves behind.                                 *)

Snapshot == [profiles |-> profiles', sticky |-> sticky', token |-> token']

LEMMA PersistStep ==
  ASSUME NEW smooth, Persist(smooth)
  PROVE  store' = Snapshot \/ store' = store
BY DEF Persist, Snapshot

LEMMA StoreStep ==
  ASSUME TypeOK, [Next]_vars
  PROVE  store' = Snapshot \/ store' = store
<1>1. CASE UNCHANGED vars
  BY <1>1 DEF vars
<1>2. ASSUME NEW smooth, Calls(smooth) PROVE store' = Snapshot \/ store' = store
  <2>1. ASSUME NEW u \in Users, NEW d \in Slots, Ensure(u, d, smooth)
        PROVE  store' = Snapshot \/ store' = store
    <3>1. CASE EnsureMoves(u, d, smooth)
      BY <2>1, <3>1, MoveFacts, PersistStep DEF Move
    <3> QED BY <2>1, <3>1 DEF Ensure, EnsureQuarantined, EnsureKeeps, EnsureNoCapacity
  <2>2. ASSUME NEW u \in Users, NEW d \in Devices, IssueDevice(u, d, smooth)
        PROVE  store' = Snapshot \/ store' = store
    BY <2>2, PersistStep DEF IssueDevice
  <2> QED BY <1>2, <2>1, <2>2 DEF Calls
<1>3. CASE Events
  BY <1>3, PersistStep DEF Events, Revoke, AddUsage, DropNode, Restart, Connect,
       Disconnect, Rotate, Rehome, SetBand, Tick
<1> QED BY <1>1, <1>2, <1>3, HandlerStep DEF Next, Step

-----------------------------------------------------------------------------
(* The token index.  Handles on disk are distinct too, or the index could  *)
(* not be rebuilt from them.                                               *)

StoredTokensDiffer ==
  \A u, v \in Users :
    store.token[u] = store.token[v] /\ store.token[u] # NoToken => u = v

TokenInv == TokenIndexAgrees /\ StoredTokensDiffer

LEMMA EnrolTokens ==
  ASSUME TypeOK, TokenIndexAgrees, NEW u \in Users, Enrol(u)
  PROVE  TokenIndexAgrees'
BY ConstantsAssumption DEF TypeOK, TokenIndexAgrees, Enrol, Known

LEMMA RestartTokens ==
  ASSUME TypeOK, StoredTokensDiffer, Restart
  PROVE  TokenIndexAgrees'
<1> SUFFICES ASSUME NEW t \in Tokens, NEW u \in Users
             PROVE  byToken'[t] = u <=> store.token[u] = t
  BY DEF Restart, TokenIndexAgrees
<1>1. CASE \E v \in Users : store.token[v] = t
  <2>1. PICK v \in Users : store.token[v] = t /\ byToken'[t] = v
    BY <1>1 DEF Restart
  <2> QED BY <2>1, ConstantsAssumption DEF StoredTokensDiffer
<1>2. CASE ~ \E v \in Users : store.token[v] = t
  BY <1>2, ConstantsAssumption DEF Restart
<1> QED BY <1>1, <1>2

LEMMA TokenStep ==
  ASSUME TypeOK, TypeOK', TokenInv, [Next]_vars
  PROVE  TokenInv'
<1>1. TokenIndexAgrees'
  <2>1. CASE UNCHANGED <<token, byToken>>
    BY <2>1 DEF TokenInv, TokenIndexAgrees
  <2>2. ASSUME NEW smooth, Calls(smooth) PROVE TokenIndexAgrees'
    <3>1. ASSUME NEW u \in Users, NEW d \in Slots, Ensure(u, d, smooth) PROVE TokenIndexAgrees'
      <4>1. CASE Enrol(u)
        BY <4>1, EnrolTokens DEF TokenInv
      <4>2. CASE EnsureKeeps(u, d)
        BY <4>2, <2>1 DEF EnsureKeeps, heldVars
      <4>3. CASE EnsureMoves(u, d, smooth)
        BY <4>3, <4>1, MoveFacts DEF Move
      <4> QED BY <3>1, <4>1, <4>2, <4>3 DEF Ensure, EnsureQuarantined, EnsureNoCapacity
    <3>2. ASSUME NEW u \in Users, NEW d \in Devices, IssueDevice(u, d, smooth)
          PROVE  TokenIndexAgrees'
      BY <3>2, <2>1 DEF IssueDevice
    <3> QED BY <2>2, <3>1, <3>2 DEF Calls
  <2>3. ASSUME NEW u \in Users, Revoke(u) PROVE TokenIndexAgrees'
    BY <2>3, ConstantsAssumption DEF TypeOK, TokenInv, TokenIndexAgrees, Revoke, Known
  <2>4. CASE Restart
    BY <2>4, RestartTokens DEF TokenInv
  <2>5. CASE Events
    BY <2>1, <2>3, <2>4, <2>5 DEF Events, AddUsage, DropNode, Connect, Disconnect,
         Rotate, Rehome, SetBand, Tick, heldVars
  <2> QED BY <2>1, <2>2, <2>5, HandlerStep DEF Next, Step, vars, heldVars
<1>2. StoredTokensDiffer'
  <2>1. CASE store' = store
    BY <2>1 DEF TokenInv, StoredTokensDiffer
  <2>2. CASE store' = Snapshot
    <3>1. ASSUME NEW u \in Users, NEW v \in Users, token'[u] = token'[v], token'[u] # NoToken
          PROVE  u = v
      BY <1>1, <3>1 DEF TypeOK, TokenIndexAgrees
    <3> QED BY <2>2, <3>1 DEF StoredTokensDiffer, Snapshot
  <2> QED BY <2>1, <2>2, StoreStep
<1> QED BY <1>1, <1>2 DEF TokenInv

(* A handle leads to the user who was given it and to nobody else, at all  *)
(* times: across revocations, failed saves and restarts.                   *)
THEOREM TokensResolve == Spec => []TokenIndexAgrees
<1>1. Init => TokenInv
  BY ConstantsAssumption DEF Init, TokenInv, TokenIndexAgrees, StoredTokensDiffer
<1>2. TypeOK /\ TypeOK' /\ TokenInv /\ [Next]_vars => TokenInv'
  BY TokenStep
<1>3. TokenInv => TokenIndexAgrees
  BY DEF TokenInv
<1> QED BY <1>1, <1>2, <1>3, TypeCorrect, PTL DEF Spec

-----------------------------------------------------------------------------
(* What a step does to the profiles of one user: nodes are lost, or come   *)
(* from one pick, or from the store.                                       *)

Few(ns) == Cardinality(ns) <= DefaultWant

LEMMA FewSubset ==
  ASSUME NEW ns \in SUBSET Nodes, Few(ns), NEW ms, ms \subseteq ns
  PROVE  Few(ms)
<1>1. IsFiniteSet(ns) /\ IsFiniteSet(ms) /\ Cardinality(ms) <= Cardinality(ns)
  BY FS_Subset, ConstantsAssumption
<1>2. Cardinality(ns) \in Nat /\ Cardinality(ms) \in Nat
  BY <1>1, FS_CardinalityType
<1> QED BY <1>1, <1>2, ConstantsAssumption DEF Few

(* The nodes a user has after a move are among the picked ones.            *)
LEMMA MoveProfiles ==
  ASSUME TypeOK, NEW u \in Users, NEW d, NEW smooth, NEW picked \in SUBSET Nodes,
         NEW refused, Move(u, d, smooth, picked, refused)
  PROVE  /\ profiles' = [profiles EXCEPT ![u] = profiles'[u]]
         /\ NodesIn(profiles'[u]) \subseteq picked
         /\ \A k \in profiles'[u] : k[2] = Base \/ (k \in profiles[u] /\ k[1] \in picked)
         /\ \A k \in profiles[u] : k[1] \in picked => k \in profiles'[u]
<1> DEFINE gone == Gone(u, picked)
           new == {<<n, Base>> : n \in picked} \ profiles[u]
           held == (profiles[u] \ gone) \cup (new \ refused)
<1>1. profiles' = [profiles EXCEPT ![u] = held]
  BY DEF Move
<1>2. profiles'[u] = held
  BY <1>1 DEF TypeOK
<1>3. \A k \in held : k[1] \in picked /\ (k[2] = Base \/ k \in profiles[u])
  BY DEF Gone
<1>4. \A k \in profiles[u] : k[1] \in picked => k \in held
  BY DEF Gone
<1> HIDE DEF held
<1> QED BY <1>1, <1>2, <1>3, <1>4 DEF NodesIn

LEMMA ProfileStep ==
  ASSUME TypeOK, [Next]_vars, NEW u \in Users
  PROVE  \/ NodesIn(profiles'[u]) \subseteq NodesIn(profiles[u])
         \/ \E ns \in SUBSET Nodes : /\ Spread(ns) /\ Cardinality(ns) <= want[u]
                                     /\ NodesIn(profiles'[u]) \subseteq ns
                                     /\ clash' = clash
         \/ profiles'[u] = store.profiles[u]
<1> DEFINE Goal == \/ NodesIn(profiles'[u]) \subseteq NodesIn(profiles[u])
                   \/ \E ns \in SUBSET Nodes : /\ Spread(ns) /\ Cardinality(ns) <= want[u]
                                               /\ NodesIn(profiles'[u]) \subseteq ns
                                               /\ clash' = clash
                   \/ profiles'[u] = store.profiles[u]
<1>1. CASE UNCHANGED profiles
  BY <1>1
<1>2. ASSUME NEW v \in Users, NEW smooth, TakeAway(v, smooth) PROVE Goal
  BY <1>2 DEF TakeAway, TypeOK, NodesIn
<1>3. ASSUME NEW smooth, Calls(smooth) PROVE Goal
  <2>1. ASSUME NEW v \in Users, NEW d \in Slots, EnsureMoves(v, d, smooth) PROVE Goal
    <3>1. PICK picked, refused :
            /\ picked \in SUBSET Nodes
            /\ Spread(picked) /\ Cardinality(picked) <= want[v]
            /\ Move(v, d, smooth, picked, refused)
      BY <2>1, MoveFacts
    <3>2. CASE u = v
      <4>1. clash' = clash
        BY <2>1 DEF EnsureMoves, fleetVars
      <4> QED BY <3>1, <3>2, <4>1, MoveProfiles
    <3>3. CASE u # v
      <4>1. profiles' = [profiles EXCEPT ![v] = profiles'[v]]
        BY <3>1, MoveProfiles
      <4>2. profiles'[u] = profiles[u]
        BY <4>1, <3>3 DEF TypeOK
      <4> QED BY <4>2
    <3> QED BY <3>2, <3>3
  <2>2. ASSUME NEW v \in Users, NEW d \in Slots, Ensure(v, d, smooth) PROVE Goal
    BY <2>1, <2>2, <1>1, <1>2 DEF Ensure, EnsureQuarantined, EnsureKeeps, EnsureNoCapacity, heldVars
  <2>3. ASSUME NEW v \in Users, NEW d \in Devices, IssueDevice(v, d, smooth) PROVE Goal
    <3>1. PICK refused :
            profiles' = [profiles EXCEPT ![v] =
              @ \cup (({<<n, d>> : n \in NodesIn(profiles[v])} \ profiles[v]) \ refused)]
      BY <2>3 DEF IssueDevice
    <3> QED BY <3>1 DEF TypeOK, NodesIn
  <2> QED BY <1>3, <2>2, <2>3 DEF Calls
<1>4. ASSUME NEW n \in Nodes, DropNode(n) PROVE Goal
  BY <1>4 DEF DropNode, NodesIn, OnNode
<1>5. CASE Events
  BY <1>1, <1>2, <1>4, <1>5 DEF Events, Revoke, AddUsage, Restart, Connect, Disconnect,
       Rotate, Rehome, SetBand, Tick, heldVars
<1> QED BY <1>1, <1>3, <1>5, HandlerStep DEF Next, Step, vars, heldVars

-----------------------------------------------------------------------------
(* Nodes of a user that share a fate came to share it in the user's hands. *)

Explained(u, ns) == \A p \in clash : p \subseteq ns => <<u, p>> \in drifted

FateInv ==
  \A u \in Users :
    /\ Few(NodesIn(profiles[u])) /\ Few(NodesIn(store.profiles[u]))
    /\ Explained(u, NodesIn(profiles[u])) /\ Explained(u, NodesIn(store.profiles[u]))

(* A clash among nodes the user had together, in memory or on disk, and    *)
(* has after the step is drift.                                            *)
LEMMA DriftStep ==
  ASSUME FateInv, Drift, NEW u \in Users, NEW p \in clash', HasBoth(u, p), HasBoth(u, p)'
  PROVE  <<u, p>> \in drifted'
BY DEF FateInv, Explained, Drift, HasBoth

LEMMA FateStep ==
  ASSUME TypeOK, TypeOK', FateInv, [Next]_vars
  PROVE  FateInv'
<1>1. ASSUME NEW u \in Users PROVE Few(NodesIn(profiles'[u]))
  <2>1. CASE NodesIn(profiles'[u]) \subseteq NodesIn(profiles[u])
    <3>1. NodesIn(profiles[u]) \in SUBSET Nodes
      BY DEF TypeOK, NodesIn
    <3> QED BY <2>1, <3>1, FewSubset DEF FateInv
  <2>2. CASE \E ns \in SUBSET Nodes : /\ Spread(ns) /\ Cardinality(ns) <= want[u]
                                      /\ NodesIn(profiles'[u]) \subseteq ns
    <3>1. PICK ns \in SUBSET Nodes : /\ Spread(ns) /\ Cardinality(ns) <= want[u]
                                     /\ NodesIn(profiles'[u]) \subseteq ns
      BY <2>2
    <3>2. Cardinality(ns) \in Nat
      BY FS_Subset, FS_CardinalityType, ConstantsAssumption
    <3>3. Few(ns)
      BY <3>1, <3>2, ConstantsAssumption DEF TypeOK, Few
    <3> QED BY <3>1, <3>3, FewSubset
  <2>3. CASE profiles'[u] = store.profiles[u]
    BY <2>3 DEF FateInv
  <2> QED BY <2>1, <2>2, <2>3, ProfileStep
<1>2. ASSUME NEW u \in Users, NEW p \in clash', p \subseteq NodesIn(profiles'[u])
      PROVE  <<u, p>> \in drifted'
  <2>1. CASE UNCHANGED vars
    BY <1>2, <2>1 DEF vars, heldVars, fleetVars, FateInv, Explained
  <2>2. CASE Next
    <3>1. Drift /\ HasBoth(u, p)'
      BY <1>2, <2>2 DEF Next, HasBoth
    <3>2. CASE HasBoth(u, p)
      BY <3>1, <3>2, DriftStep
    <3>3. ASSUME NEW ns \in SUBSET Nodes, Spread(ns), NodesIn(profiles'[u]) \subseteq ns,
                 clash' = clash
          PROVE  FALSE
      <4>1. PICK a \in p, b \in p : a # b /\ p = {a, b}
        BY <1>2 DEF TypeOK, Pairs
      <4> QED BY <1>2, <3>3, <4>1 DEF Spread
    <3>4. NodesIn(profiles'[u]) \subseteq NodesIn(profiles[u]) \/ profiles'[u] = store.profiles[u]
          => HasBoth(u, p)
      BY <1>2 DEF HasBoth
    <3> QED BY <3>2, <3>3, <3>4, ProfileStep
  <2> QED BY <2>1, <2>2
<1>3. ASSUME NEW u \in Users
      PROVE  Few(NodesIn(store'.profiles[u])) /\ Explained(u, NodesIn(store.profiles[u]))'
  <2>1. CASE store' = Snapshot
    BY <2>1, <1>1, <1>2 DEF Snapshot, Explained
  <2>2. CASE store' = store
    <3>1. ASSUME NEW p \in clash', p \subseteq NodesIn(store.profiles[u])
          PROVE  <<u, p>> \in drifted'
      <4>1. CASE UNCHANGED vars
        BY <3>1, <4>1 DEF vars, fleetVars, FateInv, Explained
      <4>2. CASE Next
        <5>1. HasBoth(u, p) /\ HasBoth(u, p)' /\ Drift
          BY <2>2, <3>1, <4>2 DEF HasBoth, Next
        <5> QED BY <5>1, DriftStep
      <4> QED BY <4>1, <4>2
    <3> QED BY <2>2, <3>1 DEF FateInv, Explained
  <2> QED BY <2>1, <2>2, StoreStep
<1> QED BY <1>1, <1>2, <1>3 DEF FateInv, Explained, Few, NodesIn

(* Nodes of a user that share a donor, a network or a subnet came to share *)
(* it while the user had them, and they are never more than a user in good *)
(* standing is due.                                                        *)
THEOREM NodesStaySpread == Spec => []NodesShareNoFate
<1>1. Init => FateInv
  <2> SUFFICES ASSUME Init, NEW u \in Users
               PROVE  /\ Few(NodesIn(profiles[u])) /\ Few(NodesIn(store.profiles[u]))
                      /\ Explained(u, NodesIn(profiles[u]))
                      /\ Explained(u, NodesIn(store.profiles[u]))
    BY DEF FateInv
  <2>1. NodesIn(profiles[u]) = {} /\ NodesIn(store.profiles[u]) = {}
    BY DEF Init, NodesIn
  <2>2. Few({})
    BY FS_EmptySet, ConstantsAssumption DEF Few
  <2>3. \A p \in clash : ~(p \subseteq {})
    BY DEF Init, Pairs
  <2> QED BY <2>1, <2>2, <2>3 DEF Explained
<1>2. TypeOK /\ TypeOK' /\ FateInv /\ [Next]_vars => FateInv'
  BY FateStep
<1>3. FateInv => NodesShareNoFate
  BY DEF FateInv, NodesShareNoFate, Explained, Few
<1> QED BY <1>1, <1>2, <1>3, TypeCorrect, PTL DEF Spec

-----------------------------------------------------------------------------
(* A device's profiles are only where the owner's are.                     *)

Follow(ks) == \A n \in NodesIn(ks) : <<n, Base>> \in ks

LEMMA FollowStep ==
  ASSUME TypeOK, TypeOK', DevicesFollowOwner, [Next]_vars, NEW u \in Users
  PROVE  Follow(profiles'[u])
<1> DEFINE Goal == Follow(profiles'[u])
<1>0. Follow(profiles[u]) /\ Follow(store.profiles[u])
  BY DEF DevicesFollowOwner, Follow
<1>1. CASE UNCHANGED profiles
  BY <1>0, <1>1
<1>2. ASSUME NEW v \in Users, NEW smooth, TakeAway(v, smooth) PROVE Goal
  BY <1>0, <1>2 DEF TakeAway, TypeOK, NodesIn, Follow
<1>3. ASSUME NEW smooth, Calls(smooth) PROVE Goal
  <2>1. ASSUME NEW v \in Users, NEW d \in Slots, EnsureMoves(v, d, smooth) PROVE Goal
    <3>1. PICK picked, refused : picked \in SUBSET Nodes /\ Move(v, d, smooth, picked, refused)
      BY <2>1, MoveFacts
    <3>2. CASE u = v
      <4>1. \A k \in profiles'[u] : k[2] = Base \/ (k \in profiles[u] /\ k[1] \in picked)
        BY <3>1, <3>2, MoveProfiles
      <4>2. \A k \in profiles[u] : k[1] \in picked => k \in profiles'[u]
        BY <3>1, <3>2, MoveProfiles
      <4>3. ASSUME NEW k \in profiles'[u] PROVE <<k[1], Base>> \in profiles'[u]
        <5>1. profiles'[u] \in SUBSET Keys
          BY DEF TypeOK
        <5>2. CASE k[2] = Base
          BY <5>1, <5>2
        <5>3. CASE k \in profiles[u] /\ k[1] \in picked
          BY <1>0, <4>2, <5>3 DEF Follow, NodesIn
        <5> QED BY <4>1, <5>2, <5>3
      <4> QED BY <4>3 DEF Follow, NodesIn
    <3>3. CASE u # v
      <4>1. profiles' = [profiles EXCEPT ![v] = profiles'[v]]
        BY <3>1, MoveProfiles
      <4>2. profiles'[u] = profiles[u]
        BY <4>1, <3>3 DEF TypeOK
      <4> QED BY <1>0, <4>2
    <3> QED BY <3>2, <3>3
  <2>2. ASSUME NEW v \in Users, NEW d \in Slots, Ensure(v, d, smooth) PROVE Goal
    BY <2>1, <2>2, <1>1, <1>2 DEF Ensure, EnsureQuarantined, EnsureKeeps, EnsureNoCapacity, heldVars
  <2>3. ASSUME NEW v \in Users, NEW d \in Devices, IssueDevice(v, d, smooth) PROVE Goal
    <3>1. PICK refused :
            profiles' = [profiles EXCEPT ![v] =
              @ \cup (({<<n, d>> : n \in NodesIn(profiles[v])} \ profiles[v]) \ refused)]
      BY <2>3 DEF IssueDevice
    <3> QED BY <1>0, <3>1 DEF TypeOK, NodesIn, Follow
  <2> QED BY <1>3, <2>2, <2>3 DEF Calls
<1>4. ASSUME NEW n \in Nodes, DropNode(n) PROVE Goal
  BY <1>0, <1>4 DEF DropNode, NodesIn, OnNode, Follow
<1>5. CASE Events
  BY <1>0, <1>1, <1>2, <1>4, <1>5 DEF Events, Revoke, AddUsage, Restart, Connect, Disconnect,
       Rotate, Rehome, SetBand, Tick, heldVars
<1> QED BY <1>1, <1>3, <1>5, HandlerStep DEF Next, Step, vars, heldVars

(* Wherever a device has a profile its owner has one, in memory and on     *)
(* disk.                                                                   *)
THEOREM DevicesStayWithOwner == Spec => []DevicesFollowOwner
<1>1. Init => DevicesFollowOwner
  BY DEF Init, DevicesFollowOwner, NodesIn
<1>2. TypeOK /\ TypeOK' /\ DevicesFollowOwner /\ [Next]_vars => DevicesFollowOwner'
  <2> SUFFICES ASSUME TypeOK, TypeOK', DevicesFollowOwner, [Next]_vars, NEW u \in Users
               PROVE  Follow(profiles'[u]) /\ Follow(store'.profiles[u])
    BY DEF DevicesFollowOwner, Follow, NodesIn
  <2>1. \A v \in Users : Follow(profiles'[v])
    BY FollowStep
  <2>2. CASE store' = store
    BY <2>1, <2>2 DEF DevicesFollowOwner, Follow
  <2>3. CASE store' = Snapshot
    BY <2>1, <2>3 DEF Snapshot
  <2> QED BY <2>2, <2>3, StoreStep
<1> QED BY <1>1, <1>2, TypeCorrect, PTL DEF Spec

-----------------------------------------------------------------------------
(* The journal: an open line for every node held, no line that starts in   *)
(* the future, and nothing on it, held or stored that the user was not     *)
(* given.                                                                  *)

HeldNodes(u) == NodesIn(profiles[u])
StoredNodes(u) == NodesIn(store.profiles[u])

OpenLines ==
  \A u \in Users : \A n \in HeldNodes(u) :
    span[<<u, n>>] # NoSpan /\ span[<<u, n>>].until = Open

NoneAhead == \A x \in Users \X Nodes : span[x] # NoSpan => span[x].from <= now

AllGiven ==
  \A u \in Users, n \in Nodes :
    span[<<u, n>>] # NoSpan \/ n \in HeldNodes(u) \/ n \in StoredNodes(u)
      => <<u, n>> \in seen

JournalInv == OpenLines /\ NoneAhead /\ AllGiven

(* What the steps other than a save do to these three, in one statement:   *)
(* a line stays, ends, or is opened for a node that is given to the user.  *)
LineKept(u, n) ==
  /\ n \in HeldNodes(u)' => n \in HeldNodes(u)
  /\ \/ span'[<<u, n>>] = span[<<u, n>>]
     \/ span'[<<u, n>>] = Revoked(span[<<u, n>>], now) /\ n \notin HeldNodes(u)'
LineOpened(u, n) == span'[<<u, n>>] = Granted(span[<<u, n>>], now) /\ <<u, n>> \in seen'
LineLoaded(u, n) ==
  /\ n \in HeldNodes(u)' => n \in StoredNodes(u)
  /\ IF n \in StoredNodes(u)
       THEN span'[<<u, n>>] = [from |-> now - GrantMemory, until |-> Open]
       ELSE span'[<<u, n>>] = NoSpan

LEMMA MoveLines ==
  ASSUME TypeOK, NEW u \in Users, NEW d \in Slots, NEW smooth, EnsureMoves(u, d, smooth),
         NEW v \in Users, NEW n \in Nodes
  PROVE  LineKept(v, n) \/ LineOpened(v, n)
<1>1. PICK picked, refused : picked \in SUBSET Nodes /\ Move(u, d, smooth, picked, refused)
  BY MoveFacts
<1> DEFINE gone == Gone(u, picked)
           new == {<<m, Base>> : m \in picked} \ profiles[u]
           held == (profiles[u] \ gone) \cup (new \ refused)
<1>2. /\ profiles' = [profiles EXCEPT ![u] = held]
      /\ span' = Journal(u, gone, new, refused)
      /\ seen' = seen \cup ({u} \X NodesIn(new \ refused))
  BY <1>1 DEF Move
<1>3. <<v, n>> \in DOMAIN span /\ DOMAIN profiles = Users
  BY DEF TypeOK
<1>4. CASE v # u
  BY <1>2, <1>3, <1>4 DEF Journal, LineKept, HeldNodes
<1>5. CASE v = u
  <2>1. HeldNodes(u)' = NodesIn(held)
    BY <1>2, <1>3, <1>5 DEF HeldNodes
  <2>2. CASE n \in NodesIn(gone)
    <3>0. n \notin NodesIn(new \ refused)
      BY <2>2 DEF NodesIn, Gone
    <3>1. span'[<<u, n>>] = Revoked(span[<<u, n>>], now)
      BY <1>2, <1>3, <1>5, <2>2, <3>0 DEF Journal
    <3>2. n \notin NodesIn(held)
      BY <2>2 DEF NodesIn, Gone
    <3> QED BY <1>5, <2>1, <3>1, <3>2 DEF LineKept
  <2>3. CASE n \notin NodesIn(gone) /\ n \in NodesIn(new \ refused)
    BY <1>2, <1>3, <1>5, <2>3 DEF Journal, LineOpened
  <2>4. CASE n \notin NodesIn(gone) /\ n \notin NodesIn(new \ refused)
    <3>1. span'[<<u, n>>] = span[<<u, n>>]
      BY <1>2, <1>3, <1>5, <2>4 DEF Journal
    <3>2. n \in NodesIn(held) => n \in HeldNodes(u)
      BY <2>4 DEF NodesIn, HeldNodes
    <3> QED BY <1>5, <2>1, <3>1, <3>2 DEF LineKept
  <2> QED BY <2>2, <2>3, <2>4
<1> QED BY <1>4, <1>5

LEMMA LineStep ==
  ASSUME TypeOK, [Next]_vars, NEW v \in Users, NEW n \in Nodes
  PROVE  LineKept(v, n) \/ LineOpened(v, n) \/ LineLoaded(v, n)
<1> DEFINE Goal == LineKept(v, n) \/ LineOpened(v, n) \/ LineLoaded(v, n)
<1>1. CASE UNCHANGED <<profiles, span>>
  BY <1>1 DEF LineKept, HeldNodes
<1>2. ASSUME NEW u \in Users, NEW smooth, TakeAway(u, smooth) PROVE Goal
  <2>1. /\ profiles' = [profiles EXCEPT ![u] = {}]
        /\ span' = [x \in DOMAIN span |->
                      IF x[1] = u /\ x[2] \in NodesIn(profiles[u])
                        THEN Revoked(span[x], now) ELSE span[x]]
    BY <1>2 DEF TakeAway
  <2> QED BY <2>1 DEF TypeOK, LineKept, HeldNodes, NodesIn
<1>3. ASSUME NEW smooth, Calls(smooth) PROVE Goal
  <2>1. ASSUME NEW u \in Users, NEW d \in Slots, Ensure(u, d, smooth) PROVE Goal
    BY <2>1, <1>1, <1>2, MoveLines DEF Ensure, EnsureQuarantined, EnsureKeeps,
         EnsureNoCapacity, heldVars
  <2>2. ASSUME NEW u \in Users, NEW d \in Devices, IssueDevice(u, d, smooth) PROVE Goal
    <3>1. PICK refused :
            profiles' = [profiles EXCEPT ![u] =
              @ \cup (({<<m, d>> : m \in NodesIn(profiles[u])} \ profiles[u]) \ refused)]
      BY <2>2 DEF IssueDevice
    <3>2. span' = span
      BY <2>2 DEF IssueDevice
    <3> QED BY <3>1, <3>2 DEF TypeOK, LineKept, HeldNodes, NodesIn
  <2> QED BY <1>3, <2>1, <2>2 DEF Calls
<1>4. ASSUME NEW m \in Nodes, DropNode(m) PROVE Goal
  BY <1>4 DEF DropNode, TypeOK, LineKept, HeldNodes, NodesIn
<1>5. CASE Restart
  <2>1. HeldNodes(v)' = StoredNodes(v)
    BY <1>5 DEF Restart, HeldNodes, StoredNodes
  <2> QED BY <1>5, <2>1 DEF TypeOK, Restart, LoadedJournal, LineLoaded, StoredNodes
<1>6. CASE Events
  BY <1>1, <1>2, <1>4, <1>5, <1>6 DEF Events, Revoke, AddUsage, Connect, Disconnect,
       Rotate, Rehome, SetBand, Tick, heldVars
<1> QED BY <1>1, <1>3, <1>6, HandlerStep DEF Next, Step, vars, heldVars

(* Nothing is unseen, and the clock does not go back.                      *)
LEMMA ClockStep ==
  ASSUME TypeOK, [Next]_vars
  PROVE  seen \subseteq seen' /\ now <= now'
<1>1. ASSUME NEW smooth, Calls(smooth) PROVE seen \subseteq seen' /\ now' = now
  <2>1. ASSUME NEW u \in Users, NEW d \in Slots, EnsureMoves(u, d, smooth)
        PROVE  seen \subseteq seen' /\ now' = now
    BY <2>1, MoveFacts DEF EnsureMoves, Move
  <2>2. ASSUME NEW u \in Users, NEW d \in Slots, Ensure(u, d, smooth)
        PROVE  seen \subseteq seen' /\ now' = now
    BY <2>1, <2>2 DEF Ensure, EnsureQuarantined, EnsureKeeps, EnsureNoCapacity
  <2> QED BY <1>1, <2>2 DEF Calls, IssueDevice
<1>2. ASSUME Events PROVE seen \subseteq seen' /\ (now' = now \/ now' = now + 1)
  BY <1>2 DEF Events, Revoke, AddUsage, DropNode, Restart, Connect, Disconnect,
       Rotate, Rehome, SetBand, Tick
<1>3. CASE UNCHANGED vars
  BY <1>3 DEF TypeOK, vars
<1>4. CASE Next
  <2>1. Calls(TRUE) \/ Calls(FALSE) \/ Handlers \/ Events
    BY <1>4, Zenon DEF Next, Step
  <2>2. seen \subseteq seen' /\ (now' = now \/ now' = now + 1)
    BY <1>1, <1>2, <2>1, HandlerStep
  <2> QED BY <2>2 DEF TypeOK
<1> QED BY <1>3, <1>4

LEMMA JournalStep ==
  ASSUME TypeOK, TypeOK', JournalInv, [Next]_vars
  PROVE  JournalInv'
<1>1. ASSUME NEW u \in Users, NEW n \in Nodes
      PROVE  /\ n \in HeldNodes(u)' => span'[<<u, n>>] # NoSpan /\ span'[<<u, n>>].until = Open
             /\ span'[<<u, n>>] # NoSpan => span'[<<u, n>>].from <= now'
             /\ span'[<<u, n>>] # NoSpan \/ n \in HeldNodes(u)' => <<u, n>> \in seen'
  <2>1. now \in Nat /\ now' \in Nat /\ now <= now' /\ seen \subseteq seen'
    BY ClockStep DEF TypeOK
  <2>2. span[<<u, n>>] \in Spans \cup {NoSpan}
    BY DEF TypeOK
  <2>3. span[<<u, n>>] # NoSpan => span[<<u, n>>].from \in Int /\ span[<<u, n>>].from <= now
    BY <2>2 DEF JournalInv, NoneAhead, Spans
  <2>4. CASE LineKept(u, n)
    <3>1. CASE span'[<<u, n>>] = span[<<u, n>>]
      BY <2>1, <2>3, <2>4, <3>1 DEF LineKept, JournalInv, OpenLines, AllGiven
    <3>2. CASE span'[<<u, n>>] = Revoked(span[<<u, n>>], now) /\ n \notin HeldNodes(u)'
      BY <2>1, <2>3, <2>4, <3>2 DEF LineKept, JournalInv, AllGiven, Revoked
    <3> QED BY <2>4, <3>1, <3>2 DEF LineKept
  <2>5. CASE LineOpened(u, n)
    <3>1. Granted(span[<<u, n>>], now) # NoSpan
      BY <2>1, <2>2, SpanFacts, MarkersAssumption
    <3>2. /\ Granted(span[<<u, n>>], now).until = Open
          /\ Granted(span[<<u, n>>], now).from <= now'
          /\ Granted(span[<<u, n>>], now).from \in Int
      BY <2>1, <2>3 DEF Granted
    <3> QED BY <2>5, <3>1, <3>2 DEF LineOpened
  <2>6. CASE LineLoaded(u, n)
    <3>1. now - GrantMemory <= now' /\ [from |-> now - GrantMemory, until |-> Open] \in Spans
      BY <2>1, ConstantsAssumption DEF Spans
    <3>2. [from |-> now - GrantMemory, until |-> Open] # NoSpan
      BY <3>1, MarkersAssumption
    <3>3. n \in StoredNodes(u) => <<u, n>> \in seen'
      BY <2>1 DEF JournalInv, AllGiven
    <3> QED BY <2>6, <3>1, <3>2, <3>3 DEF LineLoaded
  <2> QED BY <2>4, <2>5, <2>6, LineStep
<1>2. ASSUME NEW u \in Users, NEW n \in Nodes, n \in StoredNodes(u)'
      PROVE  <<u, n>> \in seen'
  <2>1. CASE store' = store
    BY <1>2, <2>1, ClockStep DEF JournalInv, AllGiven, StoredNodes
  <2>2. CASE store' = Snapshot
    BY <1>1, <1>2, <2>2 DEF StoredNodes, HeldNodes, Snapshot
  <2> QED BY <2>1, <2>2, StoreStep
<1>3. \A u \in Users : HeldNodes(u)' \subseteq Nodes
  BY DEF TypeOK, HeldNodes, NodesIn
<1> QED BY <1>1, <1>2, <1>3 DEF JournalInv, OpenLines, NoneAhead, AllGiven

LEMMA JournalInductive == Spec => []JournalInv
<1>1. Init => JournalInv
  BY DEF Init, JournalInv, OpenLines, NoneAhead, AllGiven, HeldNodes, StoredNodes, NodesIn
<1>2. TypeOK /\ TypeOK' /\ JournalInv /\ [Next]_vars => JournalInv'
  BY JournalStep
<1> QED BY <1>1, <1>2, TypeCorrect, PTL DEF Spec

(* A receipt for a window that ends now is accepted for every node the     *)
(* user holds, whatever grants, revocations and restarts came before.      *)
THEOREM HoldersAreHonoured == Spec => []HoldingIsHonoured
<1>1. TypeOK /\ JournalInv => HoldingIsHonoured
  <2> SUFFICES ASSUME TypeOK, JournalInv, NEW u \in Users, NEW n \in NodesIn(profiles[u])
               PROVE  Held(u, n, now)
    BY DEF HoldingIsHonoured
  <2>1. n \in Nodes /\ n \in HeldNodes(u)
    BY DEF TypeOK, NodesIn, HeldNodes
  <2>2. span[<<u, n>>] # NoSpan /\ span[<<u, n>>].until = Open /\ span[<<u, n>>].from <= now
    BY <2>1 DEF JournalInv, OpenLines, NoneAhead
  <2>3. span[<<u, n>>].from \in Int /\ now \in Nat
    BY <2>1, <2>2 DEF TypeOK, Spans
  <2> QED BY <2>2, <2>3, ConstantsAssumption DEF Held
<1> QED BY <1>1, TypeCorrect, JournalInductive, PTL

(* The journal vouches only for nodes the user was really given.           *)
THEOREM JournalEarned == Spec => []JournalIsEarned
<1>1. JournalInv => JournalIsEarned
  BY DEF JournalInv, AllGiven, JournalIsEarned, Held
<1> QED BY <1>1, JournalInductive, PTL

-----------------------------------------------------------------------------
(* What the store lags behind in.                                          *)

Settled(u) ==
  /\ profiles'[u] \subseteq profiles[u]
  /\ profiles'[u] # {} => token'[u] = token[u]

(* A step saves everything, fails to, or only takes away from users, and   *)
(* leaves their handles to those who still have something.                 *)
SaveOutcome ==
  \/ store' = Snapshot
  \/ unsaved'
  \/ UNCHANGED <<store, unsaved>> /\ \A u \in Users : Settled(u)
  \/ profiles' = store'.profiles /\ token' = store'.token

LEMMA PersistOutcome ==
  ASSUME NEW smooth, Persist(smooth)
  PROVE  SaveOutcome
BY Zenon DEF Persist, SaveOutcome, Snapshot

LEMMA MoveOutcome ==
  ASSUME TypeOK, NEW u \in Users, NEW d \in Slots, NEW smooth, EnsureMoves(u, d, smooth)
  PROVE  SaveOutcome
<1>1. PICK picked, refused : picked \in SUBSET Nodes /\ Move(u, d, smooth, picked, refused)
  BY MoveFacts
<1> DEFINE held == (profiles[u] \ Gone(u, picked))
                     \cup (({<<n, Base>> : n \in picked} \ profiles[u]) \ refused)
<1>2. CASE held = {}
  <2>1. UNCHANGED <<store, unsaved>> /\ profiles' = [profiles EXCEPT ![u] = {}] /\ Enrol(u)
    BY <1>1, <1>2 DEF Move
  <2>2. ASSUME NEW v \in Users PROVE Settled(v)
    BY <2>1 DEF TypeOK, Settled, Enrol
  <2> QED BY <2>1, <2>2 DEF SaveOutcome
<1>3. CASE held # {}
  BY <1>1, <1>3, PersistOutcome DEF Move
<1> QED BY <1>2, <1>3

LEMMA SaveStep ==
  ASSUME TypeOK, [Next]_vars
  PROVE  SaveOutcome
<1>1. CASE UNCHANGED <<profiles, token, store, unsaved>>
  BY <1>1 DEF SaveOutcome, Settled
<1>2. ASSUME NEW smooth, Calls(smooth) PROVE SaveOutcome
  <2>1. ASSUME NEW u \in Users, EnsureQuarantined(u, smooth) PROVE SaveOutcome
    <3>1. UNCHANGED <<store, unsaved>> /\ profiles' = [profiles EXCEPT ![u] = {}] /\ Enrol(u)
      BY <2>1 DEF EnsureQuarantined, TakeAway
    <3>2. ASSUME NEW v \in Users PROVE Settled(v)
      BY <3>1 DEF TypeOK, Settled, Enrol
    <3> QED BY <3>1, <3>2 DEF SaveOutcome
  <2>2. ASSUME NEW u \in Users, EnsureNoCapacity(u) PROVE SaveOutcome
    <3>1. ASSUME NEW v \in Users PROVE Settled(v)
      BY <2>2 DEF TypeOK, Settled, Enrol, EnsureNoCapacity
    <3> QED BY <2>2, <3>1 DEF SaveOutcome, EnsureNoCapacity
  <2>3. ASSUME NEW u \in Users, NEW d \in Slots, Ensure(u, d, smooth) PROVE SaveOutcome
    BY <2>1, <2>2, <2>3, <1>1, MoveOutcome DEF Ensure, EnsureKeeps, heldVars
  <2>4. ASSUME NEW u \in Users, NEW d \in Devices, IssueDevice(u, d, smooth) PROVE SaveOutcome
    <3>1. PICK refused :
            /\ profiles' = [profiles EXCEPT ![u] =
                 @ \cup (({<<n, d>> : n \in NodesIn(profiles[u])} \ profiles[u]) \ refused)]
            /\ UNCHANGED <<sticky, token>>
            /\ IF {<<n, d>> : n \in NodesIn(profiles[u])} \ profiles[u] \subseteq refused
               THEN UNCHANGED <<store, unsaved>> ELSE Persist(smooth)
      BY <2>4 DEF IssueDevice
    <3>2. CASE Persist(smooth)
      BY <3>2, PersistOutcome
    <3>3. CASE {<<n, d>> : n \in NodesIn(profiles[u])} \ profiles[u] \subseteq refused
      <4>1. profiles' = profiles /\ UNCHANGED <<token, store, unsaved>>
        BY <3>1, <3>3 DEF TypeOK
      <4> QED BY <4>1, <1>1
    <3> QED BY <3>1, <3>2, <3>3
  <2> QED BY <1>2, <2>3, <2>4 DEF Calls
<1>3. ASSUME NEW n \in Nodes, DropNode(n) PROVE SaveOutcome
  <2>1. CASE Persist(FALSE)
    BY <2>1, PersistOutcome
  <2>2. CASE UNCHANGED <<store, unsaved>>
    BY <1>3, <2>2 DEF DropNode, TypeOK, SaveOutcome, Settled
  <2> QED BY <1>3, <2>1, <2>2 DEF DropNode
<1>4. CASE Restart
  BY <1>4 DEF Restart, SaveOutcome
<1>5. CASE Events
  BY <1>1, <1>3, <1>4, <1>5, PersistOutcome DEF Events, Revoke, AddUsage, Connect, Disconnect,
       Rotate, Rehome, SetBand, Tick, heldVars
<1> QED BY <1>1, <1>2, <1>5, HandlerStep DEF Next, Step, vars, heldVars

(* What a user holds survives a restart under the same handle, unless the  *)
(* last save failed.                                                       *)
THEOREM NothingForgotten == Spec => []NothingHeldIsForgotten
<1>1. Init => NothingHeldIsForgotten
  BY DEF Init, NothingHeldIsForgotten
<1>2. TypeOK /\ NothingHeldIsForgotten /\ [Next]_vars => NothingHeldIsForgotten'
  <2> SUFFICES ASSUME TypeOK, NothingHeldIsForgotten, [Next]_vars, ~unsaved', NEW u \in Users
               PROVE  /\ profiles'[u] \subseteq store'.profiles[u]
                      /\ profiles'[u] # {} => store'.token[u] = token'[u]
    BY DEF NothingHeldIsForgotten
  <2>1. CASE store' = Snapshot
    BY <2>1 DEF Snapshot
  <2>2. CASE UNCHANGED <<store, unsaved>> /\ \A v \in Users : Settled(v)
    BY <2>2 DEF NothingHeldIsForgotten, Settled
  <2>3. CASE profiles' = store'.profiles /\ token' = store'.token
    BY <2>3
  <2> QED BY <2>1, <2>2, <2>3, SaveStep DEF SaveOutcome
<1> QED BY <1>1, <1>2, TypeCorrect, PTL DEF Spec

-----------------------------------------------------------------------------
(* What sessions were told.  A session that is not open was told nothing.  *)

OpenSessionsOnly ==
  /\ \A u \in Users : \A k \in told[u] : k[1] \in connected
  /\ \A n \in Nodes : hello[n] # "due" => n \in connected
  /\ \A u \in Users : \A k \in snapshot[u] : hello[k[1]] = "read"

(* A list that was read and not overtaken is still what should be sent.    *)
ListsHold ==
  \A n \in connected \ (owed \cup overtaken) :
    hello[n] = "read" =>
      \A u \in Users : OnNode(snapshot[u], n) = OnNode(profiles[u], n)

SessionInv == OpenSessionsOnly /\ ListsHold /\ SessionsMatchSpecs

(* A push that is refused where there is no session keeps the sessions in  *)
(* step with the profiles, and the lists too where it did not fall between *)
(* the reading of the list and its sending.                                *)
LEMMA PushSession ==
  ASSUME TypeOK, SessionInv, NEW u \in Users, NEW gone \in SUBSET profiles[u],
         NEW new, NEW refused, \A k \in gone \cup new : k[1] \notin connected => k \in refused,
         Push(u, gone, new, refused),
         profiles' = [profiles EXCEPT ![u] = (@ \ gone) \cup (new \ refused)]
  PROVE  SessionInv'
<1>1. /\ told' = [told EXCEPT ![u] = (@ \ (gone \ refused)) \cup (new \ refused)]
      /\ owed' = owed \cup (NodesIn(gone \cap refused) \cap connected)
      /\ overtaken' = overtaken \cup
                        {n \in NodesIn((gone \cup new) \ refused) : hello[n] = "read"}
      /\ connected' = connected /\ hello' = hello /\ snapshot' = snapshot
  BY DEF Push
<1>2. OpenSessionsOnly'
  BY <1>1 DEF TypeOK, SessionInv, OpenSessionsOnly
<1>3. ASSUME NEW n \in connected, n \notin owed'
      PROVE  \A k \in gone : k[1] = n => k \notin refused
  BY <1>1, <1>3 DEF NodesIn
<1>5. ASSUME NEW n \in connected, n \notin owed' \cup overtaken', hello[n] = "done", NEW v \in Users
      PROVE  OnNode(told'[v], n) = OnNode(profiles'[v], n)
  <2>1. OnNode(told[v], n) = OnNode(profiles[v], n)
    BY <1>1, <1>5 DEF SessionInv, SessionsMatchSpecs
  <2>2. CASE v # u
    BY <1>1, <2>1, <2>2 DEF TypeOK
  <2>3. CASE v = u
    <3>1. OnNode(told'[u], n) = (OnNode(told[u], n) \ gone) \cup OnNode(new \ refused, n)
      BY <1>1, <1>3, <1>5 DEF TypeOK, OnNode
    <3>2. OnNode(profiles'[u], n) = (OnNode(profiles[u], n) \ gone) \cup OnNode(new \ refused, n)
      BY DEF TypeOK, OnNode
    <3> QED BY <2>1, <2>3, <3>1, <3>2
  <2> QED BY <2>2, <2>3
<1>6. ASSUME NEW n \in connected, n \notin owed' \cup overtaken', hello[n] = "read", NEW v \in Users
      PROVE  OnNode(snapshot[v], n) = OnNode(profiles'[v], n)
  <2>1. OnNode(snapshot[v], n) = OnNode(profiles[v], n)
    BY <1>1, <1>6 DEF SessionInv, ListsHold
  <2>2. \A k \in gone \cup (new \ refused) : k[1] # n
    BY <1>1, <1>3, <1>6 DEF NodesIn
  <2>3. OnNode(profiles'[v], n) = OnNode(profiles[v], n)
    BY <2>2 DEF TypeOK, OnNode
  <2> QED BY <2>1, <2>3
<1> QED BY <1>1, <1>2, <1>5, <1>6 DEF SessionInv, SessionsMatchSpecs, ListsHold

LEMMA SessionStep ==
  ASSUME TypeOK, SessionInv, [Next]_vars
  PROVE  SessionInv'
<1>1. CASE UNCHANGED <<profiles, wireVars>>
  BY <1>1 DEF wireVars, SessionInv, OpenSessionsOnly, ListsHold, SessionsMatchSpecs
<1>2. ASSUME NEW u \in Users, NEW smooth, TakeAway(u, smooth) PROVE SessionInv'
  <2>1. PICK refused \in Refusals(profiles[u], smooth) : Push(u, profiles[u], {}, refused)
    BY <1>2 DEF TakeAway
  <2>2. \A k \in profiles[u] \cup {} : k[1] \notin connected => k \in refused
    BY <2>1, RefusalFacts
  <2>3. profiles' = [profiles EXCEPT ![u] = (@ \ profiles[u]) \cup ({} \ refused)]
    BY <1>2 DEF TakeAway
  <2> QED BY <2>1, <2>2, <2>3, PushSession
<1>3. ASSUME NEW smooth, Calls(smooth) PROVE SessionInv'
  <2>1. ASSUME NEW u \in Users, NEW d \in Slots, EnsureMoves(u, d, smooth) PROVE SessionInv'
    <3>1. PICK picked, refused :
            /\ picked \in SUBSET Nodes
            /\ \A k \in Gone(u, picked) \cup ({<<n, Base>> : n \in picked} \ profiles[u]) :
                 k[1] \notin connected => k \in refused
            /\ Move(u, d, smooth, picked, refused)
      BY <2>1, MoveFacts
    <3> DEFINE gone == Gone(u, picked)
               new == {<<n, Base>> : n \in picked} \ profiles[u]
    <3>2. Push(u, gone, new, refused) /\ gone \in SUBSET profiles[u]
      BY <3>1 DEF Move, Gone
    <3>3. profiles' = [profiles EXCEPT ![u] = (@ \ gone) \cup (new \ refused)]
      BY <3>1 DEF Move
    <3> HIDE DEF gone, new
    <3>4. \A k \in gone \cup new : k[1] \notin connected => k \in refused
      BY <3>1 DEF gone, new
    <3> QED BY <3>2, <3>3, <3>4, PushSession
  <2>2. ASSUME NEW u \in Users, NEW d \in Slots, Ensure(u, d, smooth) PROVE SessionInv'
    BY <2>1, <2>2, <1>1, <1>2 DEF Ensure, EnsureQuarantined, EnsureKeeps, EnsureNoCapacity,
         heldVars
  <2>3. ASSUME NEW u \in Users, NEW d \in Devices, IssueDevice(u, d, smooth) PROVE SessionInv'
    <3> DEFINE new == {<<n, d>> : n \in NodesIn(profiles[u])} \ profiles[u]
    <3>1. PICK refused \in Refusals(new, smooth) :
            /\ Push(u, {}, new, refused)
            /\ profiles' = [profiles EXCEPT ![u] = @ \cup (new \ refused)]
      BY <2>3 DEF IssueDevice
    <3> HIDE DEF new
    <3>2. \A k \in {} \cup new : k[1] \notin connected => k \in refused
      BY <3>1, RefusalFacts
    <3>3. profiles' = [profiles EXCEPT ![u] = (@ \ {}) \cup (new \ refused)]
      BY <3>1 DEF TypeOK
    <3> QED BY <3>1, <3>2, <3>3, PushSession
  <2> QED BY <1>3, <2>2, <2>3 DEF Calls
<1>4. ASSUME NEW n \in Nodes, DropNode(n) PROVE SessionInv'
  <2>1. UNCHANGED <<connected, hello, snapshot, told, overtaken>>
    BY <1>4 DEF DropNode
  <2>2. CASE owed' = owed /\ profiles' = profiles
    BY <2>1, <2>2, <1>1 DEF wireVars
  <2>3. CASE owed' = owed \cup ({n} \cap connected)
    BY <1>4, <2>1, <2>3 DEF DropNode, TypeOK, OnNode, SessionInv, OpenSessionsOnly,
         ListsHold, SessionsMatchSpecs
  <2> QED BY <1>4, <2>2, <2>3 DEF DropNode, TypeOK, NodesIn, OnNode
<1>5. CASE Restart
  BY <1>5 DEF Restart, SessionInv, OpenSessionsOnly, ListsHold, SessionsMatchSpecs
<1>6. ASSUME NEW n \in Nodes, Connect(n) PROVE SessionInv'
  BY <1>6 DEF Connect, TypeOK, OnNode, SessionInv, OpenSessionsOnly, ListsHold,
       SessionsMatchSpecs, heldVars
<1>7. ASSUME NEW n \in Nodes, Disconnect(n) PROVE SessionInv'
  <2>1. OpenSessionsOnly'
    BY <1>7 DEF Disconnect, TypeOK, OnNode, SessionInv, OpenSessionsOnly
  <2>2. ListsHold' /\ SessionsMatchSpecs'
    BY <1>7 DEF Disconnect, TypeOK, OnNode, SessionInv, ListsHold, SessionsMatchSpecs, heldVars
  <2> QED BY <2>1, <2>2 DEF SessionInv
<1>8. ASSUME NEW n \in Nodes, ReadSpecs(n) PROVE SessionInv'
  <2>1. OpenSessionsOnly'
    BY <1>8 DEF ReadSpecs, TypeOK, OnNode, SessionInv, OpenSessionsOnly
  <2>2. ListsHold'
    <3>1. \A u \in Users : OnNode(snapshot[u], n) = {}
      BY <1>8 DEF ReadSpecs, SessionInv, OpenSessionsOnly, OnNode
    <3>2. \A u \in Users : OnNode(snapshot'[u], n) = OnNode(profiles[u], n)
      BY <1>8, <3>1 DEF ReadSpecs, TypeOK, OnNode
    <3>3. \A u \in Users, m \in Nodes : m # n => OnNode(snapshot'[u], m) = OnNode(snapshot[u], m)
      BY <1>8 DEF ReadSpecs, TypeOK, OnNode
    <3> QED BY <1>8, <3>2, <3>3 DEF ReadSpecs, TypeOK, SessionInv, ListsHold, heldVars
  <2>3. SessionsMatchSpecs'
    BY <1>8 DEF ReadSpecs, TypeOK, SessionInv, SessionsMatchSpecs, heldVars
  <2> QED BY <2>1, <2>2, <2>3 DEF SessionInv
<1>9. ASSUME NEW n \in Nodes, SendSpecs(n) PROVE SessionInv'
  <2>1. OpenSessionsOnly'
    BY <1>9 DEF SendSpecs, TypeOK, OnNode, SessionInv, OpenSessionsOnly
  <2>2. ListsHold'
    BY <1>9 DEF SendSpecs, TypeOK, OnNode, SessionInv, ListsHold, heldVars
  <2>3. SessionsMatchSpecs'
    <3>1. \A u \in Users : OnNode(told'[u], n) = OnNode(snapshot[u], n)
      BY <1>9 DEF SendSpecs, TypeOK, OnNode
    <3>2. \A u \in Users, m \in Nodes : m # n => OnNode(told'[u], m) = OnNode(told[u], m)
      BY <1>9 DEF SendSpecs, TypeOK, OnNode
    <3> QED BY <1>9, <3>1, <3>2 DEF SendSpecs, TypeOK, SessionInv, ListsHold, SessionsMatchSpecs,
              heldVars
  <2> QED BY <2>1, <2>2, <2>3 DEF SessionInv
<1>10. CASE Handlers
  BY <1>8, <1>9, <1>10 DEF Handlers
<1>11. CASE Events
  BY <1>1, <1>2, <1>4, <1>5, <1>6, <1>7, <1>11 DEF Events, Revoke, AddUsage,
       Rotate, Rehome, SetBand, Tick, heldVars
<1> QED BY <1>1, <1>3, <1>10, <1>11 DEF Next, Step, vars, heldVars

(* What a greeted session was told is what the head would tell it now,     *)
(* unless a removal was refused, the node was dropped, or a push fell      *)
(* between the reading and the sending of its list.                        *)
THEOREM SessionsInStep == Spec => []SessionsMatchSpecs
<1>1. Init => SessionInv
  BY DEF Init, SessionInv, OpenSessionsOnly, ListsHold, SessionsMatchSpecs
<1>2. TypeOK /\ SessionInv /\ [Next]_vars => SessionInv'
  BY SessionStep
<1>3. SessionInv => SessionsMatchSpecs
  BY DEF SessionInv
<1> QED BY <1>1, <1>2, <1>3, TypeCorrect, PTL DEF Spec

-----------------------------------------------------------------------------
(* Ensure keeps what works.                                                *)

(* A draw leaves out of its pool only what clashes with what it took,      *)
(* unless it has as many as it was asked for.                              *)
LEMMA DrawLeaves ==
  ASSUME NEW pool \in SUBSET Nodes, NEW enough, NEW ns \in Draws({}, pool, enough),
         NEW n \in pool \ ns
  PROVE  Cardinality(ns) = enough \/ \E m \in ns : {n, m} \in clash
<1>1. Spread(ns) /\ (Cardinality(ns) = enough \/ ~Spread(ns \cup {n}))
  BY DEF Draws
<1>2. CASE ~Spread(ns \cup {n})
  <2>1. PICK a \in ns \cup {n}, b \in ns \cup {n} : a # b /\ {a, b} \in clash
    BY <1>2 DEF Spread
  <2>2. ~(a \in ns /\ b \in ns)
    BY <1>1, <2>1 DEF Spread
  <2>3. {a, b} = {b, a}
    OBVIOUS
  <2> QED BY <2>1, <2>2, <2>3
<1> QED BY <1>1, <1>2

(* A working node that a pick leaves out clashes with one it keeps.        *)
LEMMA PicksKeep ==
  ASSUME TypeOK, NEW current \in SUBSET Nodes, NEW enough \in Nat,
         Cardinality(current) <= enough, NEW picked \in Picks(current, enough),
         NEW n \in (current \cap active) \ picked
  PROVE  \E m \in current \cap picked : {n, m} \in clash
<1>1. PICK kept \in Draws({}, current \cap active, enough) :
        picked \in UNION {Draws(kept, pool, enough) : pool \in Shortlists(active \ kept)}
  BY DEF Picks
<1>2. kept \subseteq picked /\ kept \subseteq current
  BY <1>1 DEF Draws
<1>3. Cardinality(kept) # enough
  <2>1. IsFiniteSet(current) /\ IsFiniteSet(kept) /\ kept # current
    BY <1>2, FS_Subset, ConstantsAssumption
  <2>2. Cardinality(kept) < Cardinality(current)
    BY <1>2, <2>1, FS_Subset, FS_CardinalityType
  <2> QED BY <2>1, <2>2, FS_CardinalityType
<1>4. \E m \in kept : {n, m} \in clash
  BY <1>1, <1>2, <1>3, DrawLeaves
<1> QED BY <1>2, <1>4

(* Ensure takes a working node from a user who is due as many nodes as     *)
(* before only where it clashes with one the user keeps.                   *)
THEOREM WorkingNodesStay == Spec => KeepsWhatWorks
<1> DEFINE had(u) == NodesIn(profiles[u])
           has(u) == NodesIn(profiles'[u])
<1>1. ASSUME TypeOK, NEW u \in Users, NEW d \in Slots, Ensure(u, d, FALSE),
             Cardinality(had(u)) <= want[u], NEW n \in (had(u) \ has(u)) \cap active
      PROVE  \E m \in had(u) \cap has(u) : {n, m} \in clash
  <2>1. had(u) \in SUBSET Nodes /\ want[u] \in Nat
    BY <1>1, ConstantsAssumption DEF TypeOK, NodesIn
  <2>2. profiles' # profiles
    BY <1>1
  <2>3. want[u] # 0
    <3>1. IsFiniteSet(had(u)) /\ Cardinality(had(u)) \in Nat /\ had(u) # {}
      BY <1>1, <2>1, FS_Subset, FS_CardinalityType, ConstantsAssumption
    <3>2. Cardinality(had(u)) # 0
      BY <3>1, FS_EmptySet
    <3> QED BY <1>1, <3>1, <3>2
  <2>4. EnsureMoves(u, d, FALSE)
    BY <1>1, <2>2, <2>3 DEF Ensure, EnsureQuarantined, EnsureKeeps, EnsureNoCapacity, heldVars
  <2>5. PICK picked \in Picks(had(u), want[u]) \ {{}} :
          \E refused : Move(u, d, FALSE, picked, refused)
    BY <2>4 DEF EnsureMoves, Move
  <2>6. picked \in SUBSET Nodes
    BY <1>1, <2>5, PickFacts DEF TypeOK
  <2>7. \A k \in profiles[u] : k[1] \in picked => k \in profiles'[u]
    BY <1>1, <2>5, <2>6, MoveProfiles
  <2>8. \A m \in had(u) \cap picked : m \in has(u)
    BY <2>7 DEF NodesIn
  <2>9. n \in (had(u) \cap active) \ picked
    BY <1>1, <2>8
  <2> HIDE DEF had, has
  <2>10. \E m \in had(u) \cap picked : {n, m} \in clash
    BY <1>1, <2>1, <2>5, <2>9, PicksKeep
  <2> QED BY <2>8, <2>10
<1>2. TypeOK /\ [Next]_vars => [EnsureTakesNoneThatWorks]_vars
  BY <1>1 DEF EnsureTakesNoneThatWorks
<1> QED BY <1>2, TypeCorrect, PTL DEF Spec, KeepsWhatWorks

=============================================================================
