------------------------------ MODULE Allocator ------------------------------
(***************************************************************************)
(* The head's allocator: which donated nodes a free user holds, the        *)
(* journal of who held what (against which receipts are checked), the      *)
(* index of subscription tokens, and the copy of all this on disk.         *)
(*                                                                         *)
(* Each operation of internal/head/allocator runs under the allocator's    *)
(* mutex, so each is one action; EnsureDevice takes the mutex twice and is *)
(* two (Ensure with a device, then IssueDevice).  The allocator talks to   *)
(* nodes only through pushes that may be refused: the node has no session, *)
(* or its outbound queue is full.  What the open session of a node has     *)
(* been told is recorded in `told'.  A node that opens a session is told   *)
(* what to serve by the handler of its Hello, outside the mutex: it        *)
(* registers the session, reads the list and sends it in three steps, and  *)
(* pushes fall between them.                                               *)
(*                                                                         *)
(* Abstractions.  A profile is identified by its key (user, node, slot);   *)
(* the random ids inside it are not modelled.  The score only decides the  *)
(* order of the pool, so a pick is any pick some order yields.  Byte       *)
(* counters are left out: AddUsage is modelled by what it persists.        *)
(***************************************************************************)
EXTENDS Integers, FiniteSets

CONSTANTS
  Users,         \* free users
  Nodes,         \* donated nodes
  Devices,       \* devices a user may name when fetching the subscription
  Base,          \* the slot of a profile that belongs to no device
  Tokens,        \* subscription handles
  NoToken,       \* a user the allocator has no record of
  NoUser,        \* a token nobody owns
  NoSpan,        \* no line in the journal
  Open,          \* a journal line without an end (the zero time)
  DefaultWant,   \* how many nodes a user in good standing is due
  TopK,          \* how many of the best nodes a pick is drawn from
  StickyFor,     \* how long a pick is not reconsidered
  GrantMemory,   \* how long a journal line outlives the revocation
  GrantSlack,    \* how long before the grant a window is still accepted
  MaxTurns       \* bound on events around the allocator: see Turn

ASSUME ConstantsAssumption ==
  /\ DefaultWant \in Nat \ {0} /\ TopK \in Nat \ {0}
  /\ StickyFor \in Nat /\ GrantMemory \in Nat /\ GrantSlack \in Nat
  /\ MaxTurns \in Nat
  /\ IsFiniteSet(Nodes) /\ Base \notin Devices
  /\ NoToken \notin Tokens /\ NoUser \notin Users

VARIABLES
  profiles,   \* a.state[u].Profiles: the keys a user holds
  sticky,     \* a.state[u].StickyUntil
  token,      \* a.state[u].SubToken, NoToken for a user not in a.state
  byToken,    \* a.byToken
  span,       \* a.grants.spans
  store,      \* the copy Save wrote last
  unsaved,    \* the last Save failed
  want,       \* what bandFor says a user is due
  awaiting,   \* EnsureDevice calls between their two critical sections
  active,     \* nodes that are ACTIVE, fresh and have an IPv4 address
  clash,      \* pairs of nodes that share a donor, an ASN or a /24 now
  connected,  \* nodes whose session is open
  hello,      \* how far the handler of a session's Hello is
  snapshot,   \* keys on the lists read for nodes and not sent yet
  told,       \* keys the open sessions have been told to serve
  owed,       \* connected nodes that missed a removal
  overtaken,  \* nodes whose list was read before a push and sent after it
  seen,       \* history: the nodes a user was ever given
  drifted,    \* history: pairs that came to clash while a user had both
  now,        \* the head's clock
  turns       \* how many events around the allocator are left

heldVars == <<profiles, sticky, token, byToken>>
fleetVars == <<active, clash>>
wireVars == <<connected, hello, snapshot, told, owed, overtaken>>
vars == <<heldVars, span, store, unsaved, want, awaiting, fleetVars, wireVars,
          seen, drifted, now, turns>>

Slots == Devices \cup {Base}
Keys == Nodes \X Slots
Pairs == {p \in SUBSET Nodes : \E a, b \in p : a # b /\ p = {a, b}}
Spans == [from : Int, until : Int \cup {Open}]
Rows == [profiles : [Users -> SUBSET Keys], sticky : [Users -> Nat],
         token : [Users -> Tokens \cup {NoToken}]]

ASSUME MarkersAssumption ==
  /\ Open \notin Int
  /\ NoSpan \notin Spans

TypeOK ==
  /\ profiles \in [Users -> SUBSET Keys]
  /\ sticky \in [Users -> Nat]
  /\ token \in [Users -> Tokens \cup {NoToken}]
  /\ byToken \in [Tokens -> Users \cup {NoUser}]
  /\ span \in [Users \X Nodes -> Spans \cup {NoSpan}]
  /\ store \in Rows
  /\ unsaved \in BOOLEAN
  /\ want \in [Users -> 0 .. DefaultWant]
  /\ awaiting \subseteq Users \X Devices
  /\ active \subseteq Nodes
  /\ clash \subseteq Pairs
  /\ connected \subseteq Nodes
  /\ hello \in [Nodes -> {"due", "read", "done"}]
  /\ snapshot \in [Users -> SUBSET Keys]
  /\ told \in [Users -> SUBSET Keys]
  /\ owed \subseteq Nodes
  /\ overtaken \subseteq Nodes
  /\ seen \subseteq Users \X Nodes
  /\ drifted \subseteq Users \X Pairs
  /\ now \in Nat
  /\ turns \in Nat

-----------------------------------------------------------------------------
(* Helpers.                                                                *)

NodesIn(ks) == {k[1] : k \in ks}
OnNode(ks, n) == {k \in ks : k[1] = n}
Known(u) == token[u] # NoToken

(* Grants.Granted: reopens the line if there is one, otherwise starts it.  *)
Granted(s, at) ==
  IF s = NoSpan THEN [from |-> at, until |-> Open]
                ELSE [from |-> s.from, until |-> Open]

(* Grants.Revoked: ends the line, if there is one.                         *)
Revoked(s, at) ==
  IF s = NoSpan THEN NoSpan ELSE [from |-> s.from, until |-> at]

(* Grants.Held: was the node the user's at the end w of a window?          *)
Held(u, n, w) ==
  LET s == span[<<u, n>>] IN
    /\ s # NoSpan
    /\ w >= s.from - GrantSlack
    /\ s.until = Open \/ w <= s.until + GrantMemory

(* spread.admits: no two of the nodes fail together, as things are now.    *)
Spread(ns) == \A a, b \in ns : a # b => {a, b} \notin clash

(* Mutant: the draw forgets the donors, networks and subnets taken.        *)
MutDraws(kept, pool, enough) ==
  {ns \in SUBSET (kept \cup pool) :
     /\ kept \subseteq ns
     /\ Cardinality(ns) <= enough
     /\ Cardinality(ns) = enough \/ pool \subseteq ns}

(* What a draw from `pool' that starts from `kept' can end in: it stops    *)
(* when it has enough, or when nothing left in the pool is admitted.       *)
Draws(kept, pool, enough) ==
  {ns \in SUBSET (kept \cup pool) :
     /\ kept \subseteq ns
     /\ Spread(ns)
     /\ Cardinality(ns) <= enough
     /\ \/ Cardinality(ns) = enough
        \/ \A n \in pool \ ns : ~Spread(ns \cup {n})}

(* The best TopK of what is left, in whatever order the scores put them.   *)
Shortlists(ns) ==
  {best \in SUBSET ns :
     Cardinality(best) = TopK \/ (Cardinality(ns) <= TopK /\ best = ns)}

(* Mutant: the pick does not start from what the user has.                 *)
MutPicks(current, enough) ==
  UNION {Draws({}, pool, enough) : pool \in Shortlists(active)}

(* assign.Pick: what the user has and may keep comes first, then the draw. *)
Picks(current, enough) ==
  UNION { UNION { Draws(kept, pool, enough) : pool \in Shortlists(active \ kept) } :
            kept \in Draws({}, current \cap active, enough) }

(* Which of the pushes of one operation did not get through: all to nodes  *)
(* without a session and, when the call is not smooth, any to the others,  *)
(* whose queues may be full.                                               *)
Refusals(ks, smooth) ==
  LET cut == {k \in ks : k[1] \notin connected} IN
    IF smooth THEN {cut} ELSE {r \in SUBSET ks : cut \subseteq r}

(* The removals of `gone' and the additions of `new' that were accepted    *)
(* reach the session; a connected node that missed a removal is owed one,  *)
(* and one whose list was read already will have it undone by that list.   *)
Push(u, gone, new, refused) ==
  /\ told' = [told EXCEPT ![u] = (@ \ (gone \ refused)) \cup (new \ refused)]
  /\ owed' = owed \cup (NodesIn(gone \cap refused) \cap connected)
  /\ overtaken' = overtaken \cup
                    {n \in NodesIn((gone \cup new) \ refused) : hello[n] = "read"}
  /\ UNCHANGED <<connected, hello, snapshot>>

(* persistLocked: the whole state or, if the store fails, nothing.         *)
Persist(smooth) ==
  \/ /\ store' = [profiles |-> profiles', sticky |-> sticky', token |-> token']
     /\ unsaved' = FALSE
  \/ /\ ~smooth
     /\ unsaved' = TRUE
     /\ UNCHANGED store

-----------------------------------------------------------------------------
(* A first start finds no file and no rows; by the time of the first call  *)
(* every node has dialled in and been told that it serves nobody.          *)
Init ==
  /\ profiles = [u \in Users |-> {}]
  /\ sticky = [u \in Users |-> 0]
  /\ token = [u \in Users |-> NoToken]
  /\ byToken = [t \in Tokens |-> NoUser]
  /\ span = [x \in Users \X Nodes |-> NoSpan]
  /\ store = [profiles |-> profiles, sticky |-> sticky, token |-> token]
  /\ unsaved = FALSE
  /\ want = [u \in Users |-> DefaultWant]
  /\ awaiting = {}
  /\ active \in SUBSET Nodes
  /\ clash \in SUBSET Pairs
  /\ connected = Nodes
  /\ hello = [n \in Nodes |-> "done"]
  /\ snapshot = [u \in Users |-> {}]
  /\ told = [u \in Users |-> {}]
  /\ owed = {}
  /\ overtaken = {}
  /\ seen = {}
  /\ drifted = {}
  /\ now = 0
  /\ turns = MaxTurns

(* A user not in a.state gets a row and a handle of 256 random bits, which *)
(* no other row, live or stored, has.                                      *)
Enrol(u) ==
  IF Known(u) THEN UNCHANGED <<token, byToken>>
  ELSE \E t \in Tokens :
         /\ \A v \in Users : token[v] # t /\ store.token[v] # t
         /\ token' = [token EXCEPT ![u] = t]
         /\ byToken' = [byToken EXCEPT ![t] = u]

(* The early return of Ensure: within the sticky window, with as many      *)
(* nodes as the user is due and all of them still serving.                 *)
StillSettled(u) ==
  LET current == NodesIn(profiles[u]) IN
    /\ Known(u)
    /\ now < sticky[u]
    /\ Cardinality(current) = want[u]
    /\ current # {}
    /\ current \subseteq active

(* EnsureDevice goes on to its second half only when Ensure succeeded.     *)
Proceed(u, d) == awaiting' = IF d = Base THEN awaiting ELSE awaiting \cup {<<u, d>>}

(* revokeLocked: everything the user holds is taken off its nodes and the  *)
(* journal lines end, whether or not the nodes could be told.              *)
TakeAway(u, smooth) ==
  /\ \E refused \in Refusals(profiles[u], smooth) : Push(u, profiles[u], {}, refused)
  /\ profiles' = [profiles EXCEPT ![u] = {}]
  /\ span' = [x \in DOMAIN span |->
                IF x[1] = u /\ x[2] \in NodesIn(profiles[u])
                  THEN Revoked(span[x], now) ELSE span[x]]

(* Ensure for a quarantined user.  Nothing is written to the store.        *)
EnsureQuarantined(u, smooth) ==
  /\ want[u] = 0
  /\ Enrol(u)
  /\ TakeAway(u, smooth)
  /\ UNCHANGED <<sticky, store, unsaved, want, awaiting, fleetVars, seen, now>>

(* Ensure returns what the user has: nothing to reconsider, or nothing     *)
(* better to offer.                                                        *)
EnsureKeeps(u, d) ==
  /\ want[u] > 0
  /\ profiles[u] # {}
  /\ StillSettled(u) \/ {} \in Picks(NodesIn(profiles[u]), want[u])
  /\ Proceed(u, d)
  /\ UNCHANGED <<heldVars, span, store, unsaved, want, fleetVars, wireVars, seen, now>>

(* Ensure finds no node for a user who has none: ErrNoCapacity, and the    *)
(* row made for a new user stays in memory.                                *)
EnsureNoCapacity(u) ==
  /\ want[u] > 0
  /\ profiles[u] = {}
  /\ {} \in Picks({}, want[u])
  /\ Enrol(u)
  /\ UNCHANGED <<profiles, sticky, span, store, unsaved, want, awaiting, fleetVars,
                 wireVars, seen, now>>

(* Mutant: only the owner's profile goes with the node.                    *)
MutGone(u, picked) == {k \in profiles[u] : k[1] \notin picked /\ k[2] = Base}

(* What leaves with the nodes that were not picked: every device's profile.*)
Gone(u, picked) == {k \in profiles[u] : k[1] \notin picked}

(* Mutant: a node that refused its profile is journalled all the same.     *)
MutJournal(u, gone, new, refused) ==
  [x \in DOMAIN span |->
     CASE x[1] = u /\ x[2] \in NodesIn(gone) -> Revoked(span[x], now)
       [] x[1] = u /\ x[2] \in NodesIn(new) -> Granted(span[x], now)
       [] OTHER -> span[x]]

(* The journal after Ensure dropped `gone' and offered `new'.              *)
Journal(u, gone, new, refused) ==
  [x \in DOMAIN span |->
     CASE x[1] = u /\ x[2] \in NodesIn(gone) -> Revoked(span[x], now)
       [] x[1] = u /\ x[2] \in NodesIn(new \ refused) -> Granted(span[x], now)
       [] OTHER -> span[x]]

(* The body of Ensure: nodes that were not picked are dropped for every    *)
(* device, the picked ones the user lacks are issued, and one that refuses *)
(* its profile is not recorded.  A user left with nothing gets             *)
(* ErrNoCapacity before the state is saved.                                *)
EnsureMoves(u, d, smooth) ==
  /\ want[u] > 0
  /\ ~StillSettled(u)
  /\ \E picked \in Picks(NodesIn(profiles[u]), want[u]) \ {{}} :
       LET gone == Gone(u, picked)
           new == {<<n, Base>> : n \in picked} \ profiles[u]
       IN \E refused \in Refusals(gone \cup new, smooth) :
            LET placed == new \ refused
                held == (profiles[u] \ gone) \cup placed
            IN /\ Push(u, gone, new, refused)
               /\ profiles' = [profiles EXCEPT ![u] = held]
               /\ span' = Journal(u, gone, new, refused)
               /\ seen' = seen \cup ({u} \X NodesIn(placed))
               /\ Enrol(u)
               /\ IF held = {}
                  THEN UNCHANGED <<sticky, store, unsaved, awaiting>>
                  ELSE /\ sticky' = [sticky EXCEPT ![u] = now + StickyFor]
                       /\ Persist(smooth)
                       /\ Proceed(u, d)
  /\ UNCHANGED <<want, fleetVars, now>>

Ensure(u, d, smooth) ==
  \/ EnsureQuarantined(u, smooth)
  \/ EnsureKeeps(u, d)
  \/ EnsureNoCapacity(u)
  \/ EnsureMoves(u, d, smooth)

(* Mutant: the device's profiles are not written down.                     *)
MutIssueUnsaved(u, d, smooth) ==
  /\ <<u, d>> \in awaiting
  /\ awaiting' = awaiting \ {<<u, d>>}
  /\ LET new == {<<n, d>> : n \in NodesIn(profiles[u])} \ profiles[u] IN
       \E refused \in Refusals(new, smooth) :
         /\ Push(u, {}, new, refused)
         /\ profiles' = [profiles EXCEPT ![u] = @ \cup (new \ refused)]
         /\ UNCHANGED <<sticky, token, store, unsaved>>
  /\ UNCHANGED <<byToken, span, want, fleetVars, seen, now>>

(* The second half of EnsureDevice: the device gets a profile of its own   *)
(* on every node the user holds by now.                                    *)
IssueDevice(u, d, smooth) ==
  /\ <<u, d>> \in awaiting
  /\ awaiting' = awaiting \ {<<u, d>>}
  /\ LET new == {<<n, d>> : n \in NodesIn(profiles[u])} \ profiles[u] IN
       \E refused \in Refusals(new, smooth) :
         /\ Push(u, {}, new, refused)
         /\ profiles' = [profiles EXCEPT ![u] = @ \cup (new \ refused)]
         /\ UNCHANGED <<sticky, token>>
         /\ IF new \subseteq refused THEN UNCHANGED <<store, unsaved>> ELSE Persist(smooth)
  /\ UNCHANGED <<byToken, span, want, fleetVars, seen, now>>

(* Revoke: off every node and out of the state, the handle included.       *)
Revoke(u) ==
  /\ Known(u)
  /\ TakeAway(u, FALSE)
  /\ sticky' = [sticky EXCEPT ![u] = 0]
  /\ token' = [token EXCEPT ![u] = NoToken]
  /\ byToken' = [byToken EXCEPT ![token[u]] = NoUser]
  /\ Persist(FALSE)
  /\ UNCHANGED <<want, awaiting, fleetVars, seen, now>>

(* A donor takes the machine back (RemoveNode): the allocations forget it  *)
(* without telling the node or the journal.  The registry forgets it in a  *)
(* step of its own (Rotate), and an Ensure may come in between.            *)
DropNode(n) ==
  LET hit == {u \in Users : n \in NodesIn(profiles[u])} IN
    /\ profiles' = [u \in Users |-> profiles[u] \ OnNode(profiles[u], n)]
    /\ sticky' = [u \in Users |-> IF u \in hit THEN 0 ELSE sticky[u]]
    /\ owed' = IF hit = {} THEN owed ELSE owed \cup ({n} \cap connected)
    /\ UNCHANGED <<token, byToken>>
    /\ IF hit = {} THEN UNCHANGED <<store, unsaved>> ELSE Persist(FALSE)
    /\ UNCHANGED <<span, want, awaiting, fleetVars, connected, hello, snapshot, told,
                   overtaken, seen, now>>

(* AddUsage writes the whole state, rows no one asked to save included.    *)
AddUsage(u) ==
  /\ profiles[u] # {}
  /\ UNCHANGED <<heldVars, span, want, awaiting, fleetVars, wireVars, seen, now>>
  /\ Persist(FALSE)

(* Mutant: the journal starts empty after a restart.                       *)
MutLoadedJournal == [x \in DOMAIN span |-> NoSpan]

(* The journal is not stored: a restart takes every stored node as granted *)
(* as long ago as a receipt may be late.                                   *)
LoadedJournal ==
  [x \in DOMAIN span |->
     IF x[2] \in NodesIn(store.profiles[x[1]])
       THEN [from |-> now - GrantMemory, until |-> Open] ELSE NoSpan]

(* The head starts again: the state is what the store has, the token index *)
(* and the journal are rebuilt from it, every session is gone, and the     *)
(* enforcer, which keeps its verdicts in memory, has none yet.             *)
Restart ==
  /\ profiles' = store.profiles
  /\ sticky' = store.sticky
  /\ token' = store.token
  /\ byToken' = [t \in Tokens |->
                   IF \E u \in Users : store.token[u] = t
                     THEN CHOOSE u \in Users : store.token[u] = t ELSE NoUser]
  /\ span' = LoadedJournal
  /\ unsaved' = FALSE
  /\ want' = [u \in Users |-> DefaultWant]
  /\ awaiting' = {}
  /\ connected' = {}
  /\ hello' = [n \in Nodes |-> "due"]
  /\ snapshot' = [u \in Users |-> {}]
  /\ told' = [u \in Users |-> {}]
  /\ owed' = {}
  /\ overtaken' = {}
  /\ UNCHANGED <<store, fleetVars, seen, now>>

-----------------------------------------------------------------------------
(* The rest of the head, as the allocator sees it.                         *)

(* A node opens a session: from here on pushes reach it.                   *)
Connect(n) ==
  /\ n \notin connected
  /\ connected' = connected \cup {n}
  /\ UNCHANGED <<heldVars, span, store, unsaved, want, awaiting, fleetVars, hello, snapshot,
                 told, owed, overtaken, seen, now>>

(* SpecsFor, called by the handler of Hello: everything the node should be *)
(* serving right now.  What it missed before no longer matters.            *)
ReadSpecs(n) ==
  /\ n \in connected /\ hello[n] = "due"
  /\ hello' = [hello EXCEPT ![n] = "read"]
  /\ snapshot' = [u \in Users |-> snapshot[u] \cup OnNode(profiles[u], n)]
  /\ owed' = owed \ {n}
  /\ UNCHANGED <<heldVars, span, store, unsaved, want, awaiting, fleetVars, connected, told,
                 overtaken, seen, now>>

(* Mutant: the list is added to what the session was told.                 *)
MutSendAdds(n) ==
  /\ hello[n] = "read"
  /\ hello' = [hello EXCEPT ![n] = "done"]
  /\ told' = [u \in Users |-> told[u] \cup OnNode(snapshot[u], n)]
  /\ snapshot' = [u \in Users |-> snapshot[u] \ OnNode(snapshot[u], n)]
  /\ UNCHANGED <<heldVars, span, store, unsaved, want, awaiting, fleetVars, connected, owed,
                 overtaken, seen, now>>

(* The list is queued behind what was pushed since the session opened, and *)
(* replaces it (Replace).  A full queue ends the session: see Disconnect.  *)
SendSpecs(n) ==
  /\ hello[n] = "read"
  /\ hello' = [hello EXCEPT ![n] = "done"]
  /\ told' = [u \in Users |-> (told[u] \ OnNode(told[u], n)) \cup OnNode(snapshot[u], n)]
  /\ snapshot' = [u \in Users |-> snapshot[u] \ OnNode(snapshot[u], n)]
  /\ UNCHANGED <<heldVars, span, store, unsaved, want, awaiting, fleetVars, connected, owed,
                 overtaken, seen, now>>

Disconnect(n) ==
  /\ n \in connected
  /\ connected' = connected \ {n}
  /\ hello' = [hello EXCEPT ![n] = "due"]
  /\ snapshot' = [u \in Users |-> snapshot[u] \ OnNode(snapshot[u], n)]
  /\ told' = [u \in Users |-> told[u] \ OnNode(told[u], n)]
  /\ owed' = owed \ {n}
  /\ overtaken' = overtaken \ {n}
  /\ UNCHANGED <<heldVars, span, store, unsaved, want, awaiting, fleetVars, seen, now>>

(* Rotation, heartbeats and probes change what the registry says.          *)
Rotate(n) ==
  /\ active' = IF n \in active THEN active \ {n} ELSE active \cup {n}
  /\ UNCHANGED <<heldVars, span, store, unsaved, want, awaiting, clash, wireVars, seen, now>>

(* A node's Hello carries a new passport, or a probe reaches it at another *)
(* address: it now shares an ASN or a subnet with `near' and nobody else.  *)
Rehome(n) ==
  \E near \in SUBSET (Nodes \ {n}) :
    /\ clash' = {p \in clash : n \notin p} \cup {{n, m} : m \in near}
    /\ UNCHANGED <<heldVars, span, store, unsaved, want, awaiting, active, wireVars, seen, now>>

(* The oracle's band changes: 2, 1 or 0 nodes.                             *)
SetBand(u, w) ==
  /\ want[u] # w
  /\ want' = [want EXCEPT ![u] = w]
  /\ UNCHANGED <<heldVars, span, store, unsaved, awaiting, fleetVars, wireVars, seen, now>>

Tick ==
  /\ now' = now + 1
  /\ UNCHANGED <<heldVars, span, store, unsaved, want, awaiting, fleetVars, wireVars, seen>>

(* Ensure and EnsureDevice may be called at any time, and the handlers of  *)
(* open sessions go on.  An event around them, or a call that a full queue *)
(* or a failing store spoils, takes one of MaxTurns turns, which is what   *)
(* keeps the state space finite.                                           *)
Turn ==
  /\ turns > 0
  /\ turns' = turns - 1

Calls(smooth) ==
  \/ \E u \in Users, d \in Slots : Ensure(u, d, smooth)
  \/ \E u \in Users, d \in Devices : IssueDevice(u, d, smooth)

Handlers ==
  \/ \E n \in Nodes : ReadSpecs(n)
  \/ \E n \in Nodes : SendSpecs(n)

Events ==
  \/ \E u \in Users : Revoke(u)
  \/ \E u \in Users : AddUsage(u)
  \/ \E n \in Nodes : DropNode(n)
  \/ Restart
  \/ \E n \in Nodes : Connect(n)
  \/ \E n \in Nodes : Disconnect(n)
  \/ \E n \in Nodes : Rotate(n)
  \/ \E n \in Nodes : Rehome(n)
  \/ \E u \in Users, w \in 0 .. DefaultWant : SetBand(u, w)
  \/ Tick

Step ==
  \/ (Calls(TRUE) \/ Handlers) /\ UNCHANGED turns
  \/ (Calls(FALSE) \/ Events) /\ Turn

(* The user has both nodes, in memory or on disk.                          *)
HasBoth(u, p) == p \subseteq NodesIn(profiles[u]) \/ p \subseteq NodesIn(store.profiles[u])

(* A pair the user has before and after a step drifts when it comes to     *)
(* clash in that step, and stays so while it clashes.                      *)
Drift ==
  drifted' = {x \in Users \X clash' :
                /\ HasBoth(x[1], x[2]) /\ HasBoth(x[1], x[2])'
                /\ x \in drifted \/ x[2] \notin clash}

Next == Step /\ Drift

Spec == Init /\ [][Next]_vars

-----------------------------------------------------------------------------
(* Properties.                                                             *)

(* A receipt for a window that ends now is accepted for every node the     *)
(* user holds: no grant, revocation, re-grant, device or restart leaves a  *)
(* held node off the journal (grants.go, and Open in allocator.go).        *)
HoldingIsHonoured ==
  \A u \in Users : \A n \in NodesIn(profiles[u]) : Held(u, n, now)

(* The journal vouches only for nodes the user was really given: "отбить   *)
(* подпись на ноду, которую человек не видел вовсе" (grants.go).           *)
JournalIsEarned ==
  \A u \in Users, n \in Nodes : Held(u, n, now) => <<u, n>> \in seen

(* A device has a profile only where its owner has one, in memory and on   *)
(* disk, although EnsureDevice lets go of the mutex halfway: the list of   *)
(* servers is the same on every device (EnsureDevice's comment).           *)
DevicesFollowOwner ==
  \A u \in Users :
    /\ \A n \in NodesIn(profiles[u]) : <<n, Base>> \in profiles[u]
    /\ \A n \in NodesIn(store.profiles[u]) : <<n, Base>> \in store.profiles[u]

(* The token index "can never disagree with the allocations themselves"    *)
(* (the field's comment), through revocations and restarts included.       *)
TokenIndexAgrees ==
  \A t \in Tokens, u \in Users : byToken[t] = u <=> token[u] = t

(* No two nodes of a user share a failure, unless they came to share it    *)
(* while the user had them, in memory or on disk: a pick never makes such  *)
(* a pair, over failed saves and restarts (spread in assign/pick.go).      *)
(* There are never more of them than a user in good standing is due.       *)
NodesShareNoFate ==
  \A u \in Users :
    /\ \A p \in clash : p \subseteq NodesIn(profiles[u]) => <<u, p>> \in drifted
    /\ Cardinality(NodesIn(profiles[u])) <= DefaultWant

(* What a greeted session was told is exactly what SpecsFor says, user by  *)
(* user: a refused addition is never recorded, an accepted one never       *)
(* forgotten.  Excepted are a node that missed a removal because the push  *)
(* was refused or the node was dropped (owed), and one whose list was read *)
(* before a push and sent after it (overtaken), both until the next Hello. *)
SessionsMatchSpecs ==
  \A n \in connected \ (owed \cup overtaken) :
    hello[n] = "done" =>
      \A u \in Users : OnNode(told[u], n) = OnNode(profiles[u], n)

(* What a user holds survives a restart, under the same handle, unless the *)
(* last save failed.  "Losing them would reissue every free user a new     *)
(* UUID and break every live client at once" (Store's comment).            *)
NothingHeldIsForgotten ==
  ~unsaved =>
    \A u \in Users :
      /\ profiles[u] \subseteq store.profiles[u]
      /\ profiles[u] # {} => store.token[u] = token[u]

(* Ensure takes a working node from a user who is due as many nodes as     *)
(* before only where it has come to clash with another the user keeps:     *)
(* "the existing nodes are kept while they remain eligible and only the    *)
(* gaps are filled" (Ensure's comment).                                    *)
EnsureTakesNoneThatWorks ==
  \A u \in Users :
    LET had == NodesIn(profiles[u])
        has == NodesIn(profiles'[u])
    IN /\ \E n \in (had \ has) \cap active : \A m \in had \cap has : {n, m} \notin clash
       /\ Cardinality(had) <= want[u]
       => \A d \in Slots : ~Ensure(u, d, FALSE)

KeepsWhatWorks == [][EnsureTakesNoneThatWorks]_vars

=============================================================================
