------------------------- MODULE ControlPlaneProofs -------------------------
(* The control plane drives its node only through the frames a supervisor  *)
(* handles, so what the supervisor keeps it keeps under a head too.        *)
EXTENDS ControlPlane, WellFoundedInduction, TLAPS

-----------------------------------------------------------------------------
(* The supervisor alone, whatever it is sent and whenever it or its core   *)
(* dies.                                                                   *)

(* A config that was written and not started yet was rendered with what is *)
(* staged now, because no frame is handled in between.                     *)
FileIsFresh == applying # Idle /\ applying.at = "written" => file = staged

(* Every version that is known anywhere was started.                       *)
KnownWereStarted ==
  /\ version # Unapplied => version \in started
  /\ applied # Unapplied => applied \in started
  /\ applying # Idle /\ applying.at = "started" => applying.version \in started

(* The inductive invariant.                                                *)
SupervisorInv ==
  /\ SupervisorTypeOK
  /\ CoreServesStaged
  /\ FileIsFresh
  /\ KnownWereStarted

(* A profile list that is handled stays within the profiles there are.     *)
LEMMA StagedType ==
  ASSUME SupervisorTypeOK, NEW d \in Deltas
  PROVE  Staged(d) \subseteq Profiles /\ Added(d) \subseteq Profiles
BY DEF SupervisorTypeOK, Deltas, Staged, Added

LEMMA SupervisorInitial == SupervisorInit => SupervisorInv
BY DEF SupervisorInit, SupervisorInv, SupervisorTypeOK, CoreServesStaged, FileIsFresh,
       KnownWereStarted

(* One step per action; all but ApplyProfiles leave the list alone or      *)
(* empty it together with the core.                                        *)
LEMMA SupervisorStep ==
  SupervisorInv /\ [SupervisorNext]_supervisorVars => SupervisorInv'
<1> SUFFICES ASSUME SupervisorInv, [SupervisorNext]_supervisorVars
             PROVE  SupervisorInv'
  OBVIOUS
<1> USE DEF SupervisorInv, SupervisorTypeOK, CoreServesStaged, FileIsFresh, KnownWereStarted
<1>1. ASSUME NEW v \in Versions, WriteConfig(v)
      PROVE  SupervisorInv'
  <2>1. applying' = [at |-> "written", version |-> v] /\ file' = staged /\ staged' = staged
    BY <1>1 DEF WriteConfig
  <2>2. applying'.at = "written"
    BY <2>1
  <2>3. SupervisorTypeOK'
    BY <1>1, <2>1 DEF WriteConfig
  <2> QED
    BY <1>1, <2>1, <2>2, <2>3 DEF WriteConfig
<1>2. CASE RestartForConfig
  <2>1. applying \in [at : {"written", "started"}, version : Versions] /\ file = staged
    BY <1>2 DEF RestartForConfig
  <2>2. CASE CoreStarts
    BY <1>2, <2>1, <2>2, SupervisorAssumption DEF RestartForConfig, CoreStarts, CoreStops
  <2>3. CASE CoreStops
    BY <1>2, <2>1, <2>3, SupervisorAssumption DEF RestartForConfig, CoreStarts, CoreStops
  <2> QED
    BY <1>2, <2>2, <2>3 DEF RestartForConfig
<1>3. CASE RecordVersion
  BY <1>3 DEF RecordVersion
<1>4. ASSUME NEW d \in Deltas, NEW failed \in SUBSET (Removed(d) \cup Added(d)),
             ApplyProfiles(d, failed)
      PROVE  SupervisorInv'
  <2>1. Staged(d) \subseteq Profiles /\ Added(d) \subseteq Profiles
    BY StagedType
  <2>2. SupervisorTypeOK'
    BY <1>4, <2>1 DEF ApplyProfiles
  <2>3. ASSUME running', ~strayed'
        PROVE  core' = staged'
    <3>1. running /\ ~strayed /\ failed = {}
      BY <1>4, <2>3 DEF ApplyProfiles
    <3>2. core' = (staged \ Removed(d)) \cup Added(d)
      BY <1>4, <3>1 DEF ApplyProfiles
    <3> QED
      BY <1>4, <3>2 DEF ApplyProfiles, Staged
  <2> QED
    BY <1>4, <2>2, <2>3 DEF ApplyProfiles
<1>5. ASSUME NEW s \in Rotations, SetRotationState(s)
      PROVE  SupervisorInv'
  BY <1>5 DEF SetRotationState, CoreStops
<1>6. CASE Upgrade
  BY <1>6 DEF Upgrade, CoreStarts, CoreStops
<1>7. CASE CoreExits
  BY <1>7 DEF CoreExits, CoreStops
<1>8. CASE AgentRestarts
  BY <1>8 DEF AgentRestarts, CoreStops
<1>9. CASE UNCHANGED supervisorVars
  BY <1>9 DEF supervisorVars
<1> QED
  BY <1>1, <1>2, <1>3, <1>4, <1>5, <1>6, <1>7, <1>8, <1>9 DEF SupervisorNext

LEMMA SupervisorInductive == SupervisorSpec => []SupervisorInv
BY SupervisorInitial, SupervisorStep, PTL DEF SupervisorSpec

(* Type correctness.                                                       *)
THEOREM SupervisorTyped == SupervisorSpec => []SupervisorTypeOK
<1>1. SupervisorInv => SupervisorTypeOK
  BY DEF SupervisorInv
<1> QED
  BY <1>1, SupervisorInductive, PTL

(* A running core none of whose calls failed and that was not restarted on *)
(* an old file serves exactly the staged profiles (ApplyProfiles).         *)
THEOREM CoreInStep == SupervisorSpec => []CoreServesStaged
<1>1. SupervisorInv => CoreServesStaged
  BY DEF SupervisorInv
<1> QED
  BY <1>1, SupervisorInductive, PTL

(* No version is reported that the core was never started for, so none is  *)
(* withheld from a node that still needs it (ConfigVersion, Session).      *)
THEOREM ReportsAreHonest == SupervisorSpec => []ReportedWasStarted
<1>1. SupervisorInv => ReportedWasStarted
  BY DEF SupervisorInv, KnownWereStarted, ReportedWasStarted, ReportedVersion
<1> QED
  BY <1>1, SupervisorInductive, PTL

-----------------------------------------------------------------------------
(* Frames.                                                                 *)

(* What the head sends is a frame.                                         *)
LEMMA SentAreFrames ==
  /\ \A v \in Versions : Config(v) \in Frames
  /\ \A a, r \in SUBSET Profiles : \A whole \in BOOLEAN : Delta(a, r, whole) \in Frames
  /\ \A s \in Rotations : Rotation(s) \in Frames
  /\ UpgradeCommand \in Frames
BY DEF Frames

(* The fields of a frame, by its kind.                                     *)
LEMMA FrameFields ==
  ASSUME NEW f \in Frames
  PROVE  /\ f.kind \in {"config", "delta", "rotation", "upgrade"}
         /\ f.kind = "config" => f.version \in Versions
         /\ f.kind = "delta" => /\ f.add \in SUBSET Profiles
                                /\ f.remove \in SUBSET Profiles
                                /\ f.replace \in BOOLEAN
         /\ f.kind = "rotation" => f.state \in Rotations
<1>1. CASE \E v \in Versions : f = Config(v)
  BY <1>1 DEF Config
<1>2. CASE \E a, r \in SUBSET Profiles, whole \in BOOLEAN : f = Delta(a, r, whole)
  BY <1>2 DEF Delta
<1>3. CASE \E s \in Rotations : f = Rotation(s)
  BY <1>3 DEF Rotation
<1>4. CASE f = UpgradeCommand
  BY <1>4 DEF UpgradeCommand
<1> QED
  BY <1>1, <1>2, <1>3, <1>4 DEF Frames

(* Handling a frame is a step of the supervisor.                           *)
LEMMA HandleIsSupervisorStep ==
  ASSUME NEW f \in Frames, NEW works \in BOOLEAN, Handle(f, works)
  PROVE  [SupervisorNext]_supervisorVars
<1>1. CASE f.kind = "config"
  BY <1>1, FrameFields DEF Handle, SupervisorNext
<1>2. CASE f.kind = "delta"
  <2> DEFINE d == [add |-> f.add, remove |-> f.remove, replace |-> f.replace]
  <2>1. d \in Deltas
    BY <1>2, FrameFields DEF Deltas
  <2>2. PICK failed \in IF works THEN {{}} ELSE SUBSET (Removed(f) \cup Added(f)) :
          ApplyProfiles(f, failed)
    BY <1>2 DEF Handle
  <2>3. failed \in SUBSET (Removed(f) \cup Added(f))
    BY <2>2
  <2>4. Removed(d) = Removed(f) /\ Added(d) = Added(f) /\ Staged(d) = Staged(f)
    BY DEF Removed, Added, Staged, Dropped
  <2>5. ApplyProfiles(d, failed)
    BY <2>2, <2>4 DEF ApplyProfiles
  <2> HIDE DEF d
  <2> QED
    BY <2>1, <2>3, <2>4, <2>5 DEF SupervisorNext
<1>3. CASE f.kind = "rotation"
  BY <1>3, FrameFields DEF Handle, SupervisorNext
<1>4. CASE f.kind = "upgrade"
  <2>1. Upgrade \/ UNCHANGED supervisorVars
    BY <1>4 DEF Handle
  <2> QED
    BY <2>1 DEF SupervisorNext
<1> QED
  BY <1>1, <1>2, <1>3, <1>4, FrameFields

-----------------------------------------------------------------------------
(* The state of the head and of the session stays well formed.             *)

LinkTypeOK ==
  /\ wanted \subseteq Profiles
  /\ fleetVersion \in Versions
  /\ announcing \in BOOLEAN
  /\ state \in Rotations
  /\ session \in Phases
  /\ wired \in BOOLEAN
  /\ hello \in Versions \cup {Unapplied}
  /\ snapshot \subseteq Profiles
  /\ queue \in Seq(Frames) /\ Len(queue) <= Depth
  /\ overtaken \in BOOLEAN
  /\ owed \in BOOLEAN
  /\ turns \in Nat

(* A frame that is queued where there is room fits.                        *)
LEMMA SendFits ==
  ASSUME LinkTypeOK, CanSend, NEW f \in Frames, Send(f)
  PROVE  queue' \in Seq(Frames) /\ Len(queue') <= Depth
<1>1. Len(queue') = Len(queue) + 1 /\ queue' \in Seq(Frames)
  BY DEF Send, LinkTypeOK
<1> QED
  BY <1>1, ControlPlaneAssumption DEF CanSend, LinkTypeOK

(* An emptied queue, and what is left of one, fit.                         *)
LEMMA QueueShrinks ==
  /\ <<>> \in Seq(Frames) /\ Len(<<>>) <= Depth
  /\ LinkTypeOK /\ queue # <<>> =>
       Head(queue) \in Frames /\ Tail(queue) \in Seq(Frames) /\ Len(Tail(queue)) <= Depth
BY ControlPlaneAssumption DEF LinkTypeOK

LEMMA LinkStep ==
  ASSUME TypeOK, Next
  PROVE  LinkTypeOK'
<1> LinkTypeOK
  BY DEF TypeOK, LinkTypeOK
<1>1. turns' \in Nat
  BY DEF Next, Turn, LinkTypeOK
<1>2. ASSUME NEW p \in Profiles, Grant(p)
      PROVE  LinkTypeOK'
  <2>1. Delta({p}, {}, FALSE) \in Frames
    BY SentAreFrames
  <2> QED
    BY <1>1, <1>2, <2>1, SendFits DEF Grant, LinkTypeOK
<1>3. ASSUME NEW p \in Profiles, Revoke(p)
      PROVE  LinkTypeOK'
  <2>1. Delta({}, {p}, FALSE) \in Frames
    BY SentAreFrames
  <2>2. queue' \in Seq(Frames) /\ Len(queue') <= Depth
    BY <1>3, <2>1, SendFits DEF Revoke, LinkTypeOK
  <2> QED
    BY <1>1, <1>3, <2>2 DEF Revoke, LinkTypeOK
<1>4. ASSUME NEW v \in Versions, SetNodeConfig(v)
      PROVE  LinkTypeOK'
  BY <1>1, <1>4 DEF SetNodeConfig, LinkTypeOK, linkVars
<1>5. CASE AnnounceConfig
  <2>1. queue' \in Seq(Frames) /\ Len(queue') <= Depth
    BY <1>5, SentAreFrames, SendFits DEF AnnounceConfig, LinkTypeOK
  <2> QED
    BY <1>1, <1>5, <2>1 DEF AnnounceConfig, LinkTypeOK
<1>6. ASSUME NEW s \in Rotations, Rotate(s)
      PROVE  LinkTypeOK'
  <2>1. queue' \in Seq(Frames) /\ Len(queue') <= Depth
    BY <1>6, SentAreFrames, SendFits DEF Rotate, LinkTypeOK
  <2> QED
    BY <1>1, <1>6, <2>1 DEF Rotate, LinkTypeOK
<1>7. CASE OrderUpgrade
  <2>1. queue' \in Seq(Frames) /\ Len(queue') <= Depth
    BY <1>7, SentAreFrames, SendFits DEF OrderUpgrade
  <2> QED
    BY <1>1, <1>7, <2>1 DEF OrderUpgrade, LinkTypeOK, headVars
<1>8. CASE Break \/ Notice
  BY <1>1, <1>8, QueueShrinks DEF Break, Notice, LinkTypeOK, headVars, Phases
<1>9. ASSUME NEW works \in BOOLEAN, Deliver(works)
      PROVE  LinkTypeOK'
  BY <1>1, <1>9, QueueShrinks DEF Deliver, LinkTypeOK, headVars
<1>10. CASE CoreDies \/ ProceedWithConfig
  BY <1>1, <1>10 DEF CoreDies, ProceedWithConfig, LinkTypeOK, headVars, linkVars
<1>11. CASE AgentDies
  BY <1>1, <1>11 DEF AgentDies, LinkTypeOK, headVars
<1>12. CASE Connect
  <2>1. ReportedVersion \in Versions \cup {Unapplied}
    BY DEF ReportedVersion, TypeOK, SupervisorTypeOK
  <2> QED
    BY <1>1, <1>12, <2>1, QueueShrinks DEF Connect, LinkTypeOK, headVars, Phases
<1>13. CASE CompareConfig
  <2>1. Config(fleetVersion) \in Frames
    BY SentAreFrames DEF LinkTypeOK
  <2>2. queue' \in Seq(Frames) /\ Len(queue') <= Depth
    BY <1>13, <2>1, SendFits, QueueShrinks DEF CompareConfig, LinkTypeOK
  <2>3. session' \in Phases
    BY <1>13 DEF CompareConfig, Phases
  <2>4. wired' \in BOOLEAN
    BY <1>13 DEF CompareConfig
  <2> QED
    BY <1>1, <1>13, <2>2, <2>3, <2>4 DEF CompareConfig, LinkTypeOK, headVars
<1>14. CASE ReadProfiles
  BY <1>1, <1>14 DEF ReadProfiles, LinkTypeOK, headVars, Phases
<1>15. CASE SendProfiles
  <2>1. Delta(snapshot, {}, TRUE) \in Frames
    BY SentAreFrames DEF LinkTypeOK
  <2>2. queue' \in Seq(Frames) /\ Len(queue') <= Depth
    BY <1>15, <2>1, SendFits, QueueShrinks DEF SendProfiles, LinkTypeOK
  <2>3. session' \in Phases
    BY <1>15 DEF SendProfiles, Phases
  <2>4. wired' \in BOOLEAN
    BY <1>15 DEF SendProfiles
  <2> QED
    BY <1>1, <1>15, <2>2, <2>3, <2>4 DEF SendProfiles, LinkTypeOK, headVars
<1> QED
  BY <1>2, <1>3, <1>4, <1>5, <1>6, <1>7, <1>8, <1>9, <1>10, <1>11, <1>12, <1>13, <1>14,
     <1>15 DEF Next, Events, Progress

-----------------------------------------------------------------------------
(* The control plane implements the supervisor.                            *)

LEMMA SupervisorStepOfNext ==
  ASSUME TypeOK, Next
  PROVE  [SupervisorNext]_supervisorVars
<1>1. ASSUME NEW works \in BOOLEAN, Deliver(works)
      PROVE  [SupervisorNext]_supervisorVars
  <2>1. Head(queue) \in Frames
    BY <1>1 DEF Deliver, TypeOK
  <2> QED
    BY <1>1, <2>1, HandleIsSupervisorStep DEF Deliver
<1>2. CASE ProceedWithConfig \/ CoreDies \/ AgentDies
  BY <1>2 DEF ProceedWithConfig, CoreDies, AgentDies, SupervisorNext
<1>3. CASE UNCHANGED supervisorVars
  BY <1>3
<1> QED
  BY <1>1, <1>2, <1>3 DEF Next, Events, Progress, Grant, Revoke, SetNodeConfig,
     AnnounceConfig, Rotate, OrderUpgrade, Break, Connect, CompareConfig, ReadProfiles,
     SendProfiles, Notice

(* Supervisor's invariant travels along, for it types what Connect reads.  *)
ControlInv == TypeOK /\ SupervisorInv

LEMMA ControlInitial == Init => ControlInv
<1> SUFFICES ASSUME Init PROVE ControlInv
  OBVIOUS
<1>1. SupervisorInv
  BY SupervisorInitial DEF Init
<1> QED
  BY <1>1, ControlPlaneAssumption, QueueShrinks
  DEF ControlInv, SupervisorInv, Init, TypeOK, Rotations, Phases

LEMMA ControlStep == ControlInv /\ [Next]_vars => ControlInv'
<1> SUFFICES ASSUME ControlInv, [Next]_vars PROVE ControlInv'
  OBVIOUS
<1>1. CASE Next
  <2>1. LinkTypeOK'
    BY <1>1, LinkStep DEF ControlInv
  <2>2. SupervisorInv'
    BY <1>1, SupervisorStepOfNext, SupervisorStep DEF ControlInv
  <2> QED
    BY <2>1, <2>2 DEF ControlInv, SupervisorInv, TypeOK, LinkTypeOK
<1>2. CASE UNCHANGED vars
  BY <1>2 DEF ControlInv, SupervisorInv, TypeOK, SupervisorTypeOK, CoreServesStaged,
     FileIsFresh, KnownWereStarted, vars, supervisorVars, headVars, linkVars
<1> QED
  BY <1>1, <1>2

LEMMA ControlInductive == Spec => []ControlInv
BY ControlInitial, ControlStep, PTL DEF Spec

(* Type correctness: the queue never outgrows its bound (session.send).    *)
THEOREM ControlTyped == Spec => []TypeOK
<1>1. ControlInv => TypeOK
  BY DEF ControlInv
<1> QED
  BY <1>1, ControlInductive, PTL

(* The node under a head is a supervisor: every frame, crash and reconnect *)
(* maps to one of its steps or to none.                                    *)
THEOREM DrivesSupervisor == Spec => SupervisorSpec
<1>1. Init => SupervisorInit
  BY DEF Init
<1>2. ControlInv /\ [Next]_vars => [SupervisorNext]_supervisorVars
  BY SupervisorStepOfNext DEF ControlInv, vars
<1> QED
  BY <1>1, <1>2, ControlInductive, PTL DEF Spec, SupervisorSpec

(* Under a head too, a core in good order serves what is staged.           *)
THEOREM CoreInStepUnderHead == Spec => []CoreServesStaged
BY DrivesSupervisor, CoreInStep, PTL

(* Under a head too, only versions that were started are reported.         *)
THEOREM ReportsAreHonestUnderHead == Spec => []ReportedWasStarted
BY DrivesSupervisor, ReportsAreHonest, PTL

-----------------------------------------------------------------------------
(* What a queue leads to.  A recursive function is the one that is chosen  *)
(* among those that satisfy its equation: that there is one is shown by    *)
(* induction on the length of the queue.                                   *)

(* A set of naturals has a least element, because < is well founded.       *)
LEMMA LeastNatural == ASSUME NEW T \in SUBSET Nat, T # {} PROVE \E x \in T : \A y \in T : x <= y
<1> DEFINE R == OpToRel(<, Nat)
<1>1. IsWellFoundedOn(R, Nat)
  BY NatLessThanWellFounded
<1>2. \A x, y \in Nat : x < y => <<x, y>> \in R
  BY DEF OpToRel
<1> HIDE DEF R
<1>3. PICK x \in T : \A y \in T : ~ (<<y, x>> \in R)
  BY <1>1, WFMin
<1>4. \A y \in T : ~ (y < x)
  BY <1>2, <1>3
<1> QED BY <1>4

(* Induction, with the set of the naturals that have the property.         *)
LEMMA Induction == ASSUME NEW T, 0 \in T, \A n \in Nat : n \in T => n + 1 \in T PROVE Nat \subseteq T
<1> SUFFICES ASSUME NEW k \in Nat, k \notin T PROVE FALSE
  OBVIOUS
<1> DEFINE B == Nat \ T
<1>1. B \in SUBSET Nat /\ B # {}
  OBVIOUS
<1>2. PICK x \in B : \A y \in B : x <= y
  <2> HIDE DEF B
  <2> QED BY <1>1, LeastNatural
<1>3. x # 0 /\ x - 1 \in Nat
  OBVIOUS
<1> QED BY <1>2, <1>3

(* The function that FoldLeft goes through for Handled: what it makes of   *)
(* the frames at the places t of s.                                        *)
IsFold(f, base, s) ==
  f = [t \in SUBSET (DOMAIN s) |->
         IF t = {} THEN base ELSE Handled(f[t \ {Max(t)}], s[Max(t)])]

(* FoldLeft, under a name that the provers take as it is.                  *)
Folded(base, s) == FoldLeft(Handled, base, s)

LEMMA FoldIsChosen ==
  ASSUME NEW base, NEW s
  PROVE  Folded(base, s) = (CHOOSE f : IsFold(f, base, s))[DOMAIN s]
BY DEF Folded, FoldLeft, MapThenFoldSet, IsFold

LEMMA MaxOfPrefix == ASSUME NEW n \in Nat, NEW t \in SUBSET (1..(n + 1)), n + 1 \in t PROVE Max(t) = n + 1
<1>1. \A y \in t : y \in Nat /\ n + 1 >= y
  OBVIOUS
<1>2. \A x \in t : (\A y \in t : x >= y) <=> x = n + 1
  BY <1>1
<1> QED BY <1>1, <1>2 DEF Max

LEMMA FoldExists ==
  ASSUME NEW base, NEW S, NEW s \in Seq(S)
  PROVE  \E f : IsFold(f, base, s)
<1> DEFINE Upto(f, n) == f = [t \in SUBSET (1..n) |->
                            IF t = {} THEN base ELSE Handled(f[t \ {Max(t)}], s[Max(t)])]
<1> DEFINE T == {n \in Nat : \E f : Upto(f, n)}
<1>1. 0 \in T
  <2>1. SUBSET (1..0) = {{}}
    OBVIOUS
  <2>2. Upto([t \in SUBSET (1..0) |-> base], 0)
    BY <2>1
  <2> QED BY <2>2
<1>2. ASSUME NEW n \in Nat, n \in T PROVE n + 1 \in T
  <2>1. PICK f : Upto(f, n)
    BY <1>2
  <2> DEFINE g == [t \in SUBSET (1..(n + 1)) |->
                   IF n + 1 \in t THEN Handled(f[t \ {n + 1}], s[n + 1]) ELSE f[t]]
  <2>2. ASSUME NEW t \in SUBSET (1..(n + 1))
        PROVE  g[t] = IF t = {} THEN base ELSE Handled(g[t \ {Max(t)}], s[Max(t)])
    <3>1. CASE n + 1 \in t
      <4>1. Max(t) = n + 1
        BY <3>1, MaxOfPrefix
      <4>2. g[t \ {n + 1}] = f[t \ {n + 1}]
        OBVIOUS
      <4>3. g[t] = Handled(f[t \ {n + 1}], s[n + 1])
        BY <3>1
      <4> HIDE DEF g
      <4> QED BY <3>1, <4>1, <4>2, <4>3
    <3>2. CASE n + 1 \notin t
      <4>1. t \in SUBSET (1..n) /\ t \ {Max(t)} \in SUBSET (1..n)
        <5>1. \A i \in t : i \in 1..n
          BY <3>2
        <5> QED BY <5>1
      <4>2. g[t] = f[t] /\ g[t \ {Max(t)}] = f[t \ {Max(t)}]
        BY <3>2
      <4>3. f[t] = IF t = {} THEN base ELSE Handled(f[t \ {Max(t)}], s[Max(t)])
        BY <2>1, <4>1, Zenon
      <4> HIDE DEF g
      <4> QED BY <4>2, <4>3
    <3> QED BY <3>1, <3>2
  <2>3. Upto(g, n + 1)
    <3>1. g = [t \in SUBSET (1..(n + 1)) |-> g[t]]
      OBVIOUS
    <3>2. \A t \in SUBSET (1..(n + 1)) :
            g[t] = IF t = {} THEN base ELSE Handled(g[t \ {Max(t)}], s[Max(t)])
      BY <2>2
    <3> HIDE DEF g
    <3>3. [t \in SUBSET (1..(n + 1)) |-> g[t]]
            = [t \in SUBSET (1..(n + 1)) |->
                 IF t = {} THEN base ELSE Handled(g[t \ {Max(t)}], s[Max(t)])]
      BY <3>2
    <3> QED BY <3>1, <3>3, Zenon
  <2> HIDE DEF Upto
  <2> QED BY <2>3
<1>3. Nat \subseteq T
  <2> HIDE DEF T
  <2> QED BY <1>1, <1>2, Induction
<1>4. DOMAIN s = 1..Len(s) /\ Len(s) \in Nat
  OBVIOUS
<1>5. PICK f : Upto(f, Len(s))
  BY <1>3, <1>4
<1>6. IsFold(f, base, s)
  BY <1>4, <1>5, Zenon DEF IsFold
<1> QED BY <1>6

(* What f goes through on the way, a step for each place.                  *)
FoldsBy(f, base, s) ==
  /\ f[1..0] = base
  /\ \A k \in 0..(Len(s) - 1) : f[1..(k + 1)] = Handled(f[1..k], s[k + 1])

(* FoldLeft of the frames up to the k-th.                                  *)
LEMMA FoldSteps ==
  ASSUME NEW base, NEW S, NEW s \in Seq(S), NEW f, IsFold(f, base, s)
  PROVE  FoldsBy(f, base, s)
<1>1. DOMAIN s = 1..Len(s) /\ Len(s) \in Nat
  OBVIOUS
<1>2. \A t \in SUBSET (DOMAIN s) : f[t] = IF t = {} THEN base ELSE Handled(f[t \ {Max(t)}], s[Max(t)])
  BY Zenon DEF IsFold
<1>3. f[1..0] = base
  <2>1. 1..0 = {} /\ {} \in SUBSET (DOMAIN s)
    OBVIOUS
  <2> QED BY <1>2, <2>1
<1>4. ASSUME NEW k \in 0..(Len(s) - 1)
      PROVE  f[1..(k + 1)] = Handled(f[1..k], s[k + 1])
  <2>1. 1..(k + 1) \in SUBSET (DOMAIN s) /\ 1..(k + 1) # {} /\ k \in Nat
    <3>1. k \in Nat /\ k + 1 <= Len(s)
      BY <1>1
    <3>2. 1 \in 1..(k + 1)
      BY <3>1
    <3>3. \A i \in 1..(k + 1) : i \in 1..Len(s)
      BY <1>1, <3>1
    <3> QED BY <1>1, <3>1, <3>2, <3>3
  <2>2. Max(1..(k + 1)) = k + 1 /\ (1..(k + 1)) \ {k + 1} = 1..k
    BY <2>1, MaxOfPrefix
  <2> QED BY <1>2, <2>1, <2>2
<1> QED BY <1>3, <1>4 DEF FoldsBy

LEMMA FoldOf ==
  ASSUME NEW base, NEW S, NEW s \in Seq(S)
  PROVE  \E f : Folded(base, s) = f[1..Len(s)] /\ FoldsBy(f, base, s)
<1> DEFINE c == CHOOSE f : IsFold(f, base, s)
<1>1. IsFold(c, base, s)
  BY FoldExists, Zenon
<1>2. Folded(base, s) = c[DOMAIN s]
  BY FoldIsChosen
<1>3. DOMAIN s = 1..Len(s)
  OBVIOUS
<1> HIDE DEF c
<1>4. FoldsBy(c, base, s)
  BY <1>1, FoldSteps, Zenon
<1> QED BY <1>2, <1>3, <1>4

(* A frame that is appended is handled last.                               *)
LEMMA FoldOfAppend ==
  ASSUME NEW base, NEW S, NEW s \in Seq(S), NEW x \in S
  PROVE  Folded(base, Append(s, x)) = Handled(Folded(base, s), x)
<1> DEFINE a == Append(s, x)
<1>1. a \in Seq(S) /\ Len(a) = Len(s) + 1 /\ Len(s) \in Nat
      /\ a[Len(s) + 1] = x /\ \A i \in 1..Len(s) : a[i] = s[i]
  OBVIOUS
<1> HIDE DEF a
<1>2. PICK f : Folded(base, s) = f[1..Len(s)] /\ FoldsBy(f, base, s)
  BY FoldOf, Zenon
<1>3. PICK g : Folded(base, a) = g[1..Len(a)] /\ FoldsBy(g, base, a)
  BY <1>1, FoldOf, Zenon
<1> USE DEF FoldsBy
<1> DEFINE T == {k \in Nat : k <= Len(s) => g[1..k] = f[1..k]}
<1>6. 0 \in T
  BY <1>2, <1>3
<1>7. ASSUME NEW k \in Nat, k \in T PROVE k + 1 \in T
  <2> SUFFICES ASSUME k + 1 <= Len(s) PROVE g[1..(k + 1)] = f[1..(k + 1)]
    OBVIOUS
  <2>1. k \in 0..(Len(s) - 1) /\ k \in 0..(Len(a) - 1) /\ k + 1 \in 1..Len(s)
    BY <1>1
  <2>2. a[k + 1] = s[k + 1] /\ g[1..k] = f[1..k]
    BY <1>1, <1>7, <2>1
  <2> QED BY <1>2, <1>3, <2>1, <2>2
<1>8. Nat \subseteq T
  <2> HIDE DEF T
  <2> QED BY <1>6, <1>7, Induction
<1>9. g[1..Len(s)] = f[1..Len(s)]
  BY <1>1, <1>8
<1>10. g[1..(Len(s) + 1)] = Handled(g[1..Len(s)], x)
  BY <1>1, <1>3
<1> QED BY <1>1, <1>2, <1>3, <1>9, <1>10 DEF a

(* The first frame is handled first.                                       *)
LEMMA FoldOfTail ==
  ASSUME NEW base, NEW S, NEW s \in Seq(S), s # <<>>
  PROVE  Folded(base, s) = Folded(Handled(base, Head(s)), Tail(s))
<1> DEFINE r == Tail(s)
           b == Handled(base, Head(s))
<1>1. r \in Seq(S) /\ Len(s) = Len(r) + 1 /\ Len(r) \in Nat
      /\ Head(s) = s[1] /\ \A i \in 1..Len(r) : r[i] = s[i + 1]
  OBVIOUS
<1> HIDE DEF r
<1>2. PICK f : Folded(base, s) = f[1..Len(s)] /\ FoldsBy(f, base, s)
  BY FoldOf, Zenon
<1>3. PICK g : Folded(b, r) = g[1..Len(r)] /\ FoldsBy(g, b, r)
  BY <1>1, FoldOf, Zenon
<1> USE DEF FoldsBy
<1> DEFINE T == {k \in Nat : k <= Len(r) => g[1..k] = f[1..(k + 1)]}
<1>6. 0 \in T
  <2>1. f[1..(0 + 1)] = Handled(f[1..0], s[0 + 1])
    <3>1. 0 \in 0..(Len(s) - 1)
      BY <1>1
    <3> QED BY <1>2, <3>1
  <2> QED BY <1>1, <1>2, <1>3, <2>1
<1>7. ASSUME NEW k \in Nat, k \in T PROVE k + 1 \in T
  <2> SUFFICES ASSUME k + 1 <= Len(r) PROVE g[1..(k + 1)] = f[1..((k + 1) + 1)]
    OBVIOUS
  <2>1. k \in 0..(Len(r) - 1) /\ k + 1 \in 0..(Len(s) - 1) /\ k + 1 \in 1..Len(r)
    BY <1>1
  <2>2. r[k + 1] = s[(k + 1) + 1] /\ g[1..k] = f[1..(k + 1)]
    BY <1>1, <1>7, <2>1
  <2>3. g[1..(k + 1)] = Handled(g[1..k], r[k + 1])
    BY <1>3, <2>1
  <2>4. f[1..((k + 1) + 1)] = Handled(f[1..(k + 1)], s[(k + 1) + 1])
    BY <1>2, <2>1
  <2> QED BY <2>2, <2>3, <2>4
<1>8. Nat \subseteq T
  <2> HIDE DEF T
  <2> QED BY <1>6, <1>7, Induction
<1>9. g[1..Len(r)] = f[1..(Len(r) + 1)]
  BY <1>1, <1>8
<1> QED BY <1>1, <1>2, <1>3, <1>9 DEF r


LEMMA AfterQueueIsFolded == AfterQueue = Folded(staged, queue) /\ AfterQueue' = Folded(staged', queue')
BY DEF AfterQueue, Folded

(* A frame that is sent changes what the queue leads to as the node will   *)
(* change its list on it.                                                  *)
LEMMA SendingIsHandledLast ==
  ASSUME queue \in Seq(Frames), NEW f \in Frames, Send(f), staged' = staged
  PROVE  AfterQueue' = Handled(AfterQueue, f)
<1>1. Folded(staged, Append(queue, f)) = Handled(Folded(staged, queue), f)
  BY FoldOfAppend
<1> QED
  BY <1>1, AfterQueueIsFolded DEF Send

(* The node changes its list as Handled says, whatever calls to its core   *)
(* fail.                                                                   *)
LEMMA NodeHandles ==
  ASSUME NEW f \in Frames, NEW works \in BOOLEAN, Handle(f, works)
  PROVE  staged' = Handled(staged, f)
<1>1. CASE f.kind = "config"
  BY <1>1 DEF Handle, WriteConfig, Handled, supervisorVars
<1>2. CASE f.kind = "delta"
  <2>1. PICK failed \in IF works THEN {{}} ELSE SUBSET (Removed(f) \cup Added(f)) :
          ApplyProfiles(f, failed)
    BY <1>2 DEF Handle
  <2>2. staged' = Staged(f)
    BY <2>1 DEF ApplyProfiles
  <2>3. Staged(f) = (IF f.replace THEN staged \cap f.add ELSE staged \ f.remove) \cup f.add
    BY <1>2, FrameFields DEF Staged, Removed, Added, Dropped
  <2> QED
    BY <1>2, <2>2, <2>3 DEF Handled
<1>3. CASE f.kind = "rotation"
  BY <1>3 DEF Handle, SetRotationState, Handled
<1>4. CASE f.kind = "upgrade"
  BY <1>4 DEF Handle, Upgrade, Handled, supervisorVars
<1> QED
  BY <1>1, <1>2, <1>3, <1>4, FrameFields

(* Delivery leaves what the queue leads to as it is.                       *)
LEMMA DeliveryChangesNothing ==
  ASSUME queue \in Seq(Frames), NEW works \in BOOLEAN, Deliver(works)
  PROVE  AfterQueue' = AfterQueue
<1>1. queue # <<>> /\ Head(queue) \in Frames /\ queue' = Tail(queue)
  BY DEF Deliver
<1>2. staged' = Handled(staged, Head(queue))
  BY <1>1, NodeHandles DEF Deliver
<1>3. Folded(staged, queue) = Folded(Handled(staged, Head(queue)), Tail(queue))
  BY <1>1, FoldOfTail
<1> QED
  BY <1>1, <1>2, <1>3, AfterQueueIsFolded

(* The strengthening: the snapshot a Hello's handler has read is what is   *)
(* wanted for as long as no push overtakes it.                             *)
SnapshotIsCurrent == session = "read" /\ ~overtaken => snapshot = wanted

ReconciledInv == QueueLeadsToWanted /\ SnapshotIsCurrent

(* A step that leaves both lists, the queue and the session alone, or ends *)
(* the session, disturbs nothing.                                          *)
LEMMA ReconciledStays ==
  ASSUME ReconciledInv, UNCHANGED <<staged, queue, wanted, snapshot, session, wired, overtaken, owed>>
  PROVE  ReconciledInv'
<1>1. AfterQueue' = AfterQueue
  BY AfterQueueIsFolded
<1> QED
  BY <1>1 DEF ReconciledInv, QueueLeadsToWanted, SnapshotIsCurrent

(* Frames that are not about profiles lead nowhere.                        *)
LEMMA OtherFramesLeadNowhere ==
  ASSUME ReconciledInv, queue \in Seq(Frames), NEW f \in Frames, f.kind # "delta",
         Send(f) \/ UNCHANGED queue,
         UNCHANGED <<staged, wanted, snapshot, session, wired, overtaken, owed>>
  PROVE  ReconciledInv'
<1>1. CASE UNCHANGED queue
  BY <1>1, ReconciledStays
<1>2. CASE Send(f)
  <2>1. AfterQueue' = AfterQueue
    BY <1>2, SendingIsHandledLast DEF Handled
  <2> QED
    BY <2>1 DEF ReconciledInv, QueueLeadsToWanted, SnapshotIsCurrent
<1> QED
  BY <1>1, <1>2

LEMMA ReconciledStep == TypeOK /\ ReconciledInv /\ [Next]_vars => ReconciledInv'
<1> SUFFICES ASSUME TypeOK, ReconciledInv, [Next]_vars PROVE ReconciledInv'
  OBVIOUS
<1> queue \in Seq(Frames)
  BY DEF TypeOK
<1> USE DEF ReconciledInv, QueueLeadsToWanted, SnapshotIsCurrent
<1>1. ASSUME NEW p \in Profiles, Grant(p)
      PROVE  ReconciledInv'
  <2> DEFINE f == Delta({p}, {}, FALSE)
  <2>1. f \in Frames /\ Handled(AfterQueue, f) = AfterQueue \cup {p}
    BY SentAreFrames DEF Handled, Delta
  <2>2. Send(f) /\ staged' = staged
    BY <1>1 DEF Grant, supervisorVars
  <2> HIDE DEF f
  <2>3. AfterQueue' = AfterQueue \cup {p}
    BY <2>1, <2>2, SendingIsHandledLast
  <2> QED
    BY <1>1, <2>3 DEF Grant, supervisorVars
<1>2. ASSUME NEW p \in Profiles, Revoke(p)
      PROVE  ReconciledInv'
  <2>1. CASE CanSend
    <3> DEFINE f == Delta({}, {p}, FALSE)
    <3>1. f \in Frames /\ Handled(AfterQueue, f) = AfterQueue \ {p}
      BY SentAreFrames DEF Handled, Delta
    <3>2. Send(f) /\ staged' = staged /\ owed' = owed
      BY <1>2, <2>1 DEF Revoke, supervisorVars
    <3> HIDE DEF f
    <3>3. AfterQueue' = AfterQueue \ {p}
      BY <3>1, <3>2, SendingIsHandledLast
    <3> QED
      BY <1>2, <3>2, <3>3 DEF Revoke
  <2>2. CASE ~CanSend
    BY <1>2, <2>2 DEF Revoke
  <2> QED
    BY <2>1, <2>2
<1>3. ASSUME NEW v \in Versions, SetNodeConfig(v)
      PROVE  ReconciledInv'
  BY <1>3, ReconciledStays DEF SetNodeConfig, linkVars, supervisorVars
<1>4. CASE AnnounceConfig
  <2>1. Config(fleetVersion) \in Frames /\ Config(fleetVersion).kind # "delta"
    BY SentAreFrames DEF TypeOK, Config
  <2> QED
    BY <1>4, <2>1, OtherFramesLeadNowhere DEF AnnounceConfig, supervisorVars
<1>5. ASSUME NEW s \in Rotations, Rotate(s)
      PROVE  ReconciledInv'
  <2>1. Rotation(s) \in Frames /\ Rotation(s).kind # "delta"
    BY SentAreFrames DEF Rotation
  <2> QED
    BY <1>5, <2>1, OtherFramesLeadNowhere DEF Rotate, supervisorVars
<1>6. CASE OrderUpgrade
  <2>1. UpgradeCommand \in Frames /\ UpgradeCommand.kind # "delta"
    BY SentAreFrames DEF UpgradeCommand
  <2> QED
    BY <1>6, <2>1, OtherFramesLeadNowhere DEF OrderUpgrade, supervisorVars, headVars
<1>7. CASE Break \/ AgentDies
  BY <1>7 DEF Break, AgentDies, headVars
<1>8. CASE Notice \/ Connect
  BY <1>8 DEF Notice, Connect, headVars
<1>9. ASSUME NEW works \in BOOLEAN, Deliver(works)
      PROVE  ReconciledInv'
  BY <1>9, DeliveryChangesNothing DEF Deliver, headVars
<1>10. CASE CoreDies \/ ProceedWithConfig
  BY <1>10, ReconciledStays DEF CoreDies, CoreExits, ProceedWithConfig, RestartForConfig,
     RecordVersion, headVars, linkVars
<1>11. CASE CompareConfig
  BY <1>11 DEF CompareConfig, headVars
<1>12. CASE ReadProfiles
  BY <1>12 DEF ReadProfiles, headVars
<1>13. CASE SendProfiles
  <2>1. CASE CanSend
    <3> DEFINE f == Delta(snapshot, {}, TRUE)
    <3>1. f \in Frames /\ Handled(AfterQueue, f) = snapshot
      BY SentAreFrames DEF Handled, Delta, TypeOK
    <3>2. Send(f) /\ staged' = staged
      BY <1>13, <2>1 DEF SendProfiles, supervisorVars
    <3> HIDE DEF f
    <3>3. AfterQueue' = snapshot
      BY <3>1, <3>2, SendingIsHandledLast
    <3> QED
      BY <1>13, <3>3 DEF SendProfiles, headVars
  <2>2. CASE ~CanSend
    BY <1>13, <2>2 DEF SendProfiles
  <2> QED
    BY <2>1, <2>2
<1>14. CASE UNCHANGED vars
  BY <1>14, ReconciledStays DEF vars, linkVars, headVars, supervisorVars
<1> QED
  BY <1>1, <1>2, <1>3, <1>4, <1>5, <1>6, <1>7, <1>8, <1>9, <1>10, <1>11, <1>12, <1>13,
     <1>14 DEF Next, Events, Progress

(* For any profiles, versions and depth of the queue: what is queued for a *)
(* reconciled node leads to exactly what the head wants there, however     *)
(* pushes, the Hello handler's steps, deliveries that fail and broken      *)
(* streams interleave (Session on Hello, session.send).                    *)
THEOREM QueuesLeadToWanted == Spec => []QueueLeadsToWanted
<1>1. Init => ReconciledInv
  BY DEF Init, ReconciledInv, QueueLeadsToWanted, SnapshotIsCurrent
<1>2. ReconciledInv => QueueLeadsToWanted
  BY DEF ReconciledInv
<1> QED
  BY <1>1, <1>2, ReconciledStep, ControlTyped, PTL DEF Spec

=============================================================================
