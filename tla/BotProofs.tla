------------------------------- MODULE BotProofs -------------------------------
(***************************************************************************)
(* Proofs about the bot, for every value of the constants.  What holds of    *)
(* HuntStep for every set of targets and every duration, and what an          *)
(* observer of the bot can rely on (HuntHistory); what WalkInput keeps of the  *)
(* mouse that the hunt walks with, and BotConfigReload of the hunt's           *)
(* settings; what the rings of packets bring to the bot (the lemmas about one  *)
(* ring are PacketRing's; here they meet its history, and the two rings of     *)
(* the bot), and to the player's notices.                                     *)
(***************************************************************************)
EXTENDS HuntHistory, WalkInput, BotConfigReload, BotEngine, MCServerPackets, PickupNotices,
    SequenceTheorems, FiniteSetTheorems, TLAPS

-----------------------------------------------------------------------------
(* The memory.                                                             *)

LEMMA OlderType ==
    ASSUME NEW cap \in Nat, NEW passed \in {Never} \cup 0..cap, NEW lapse \in Nat
    PROVE  /\ Older(passed, lapse, cap) \in {Never} \cup 0..cap
           /\ passed # Never => Older(passed, lapse, cap) \in 0..cap
  BY DEF Older, Never

LEMMA OneMoreType ==
    ASSUME NEW cap \in Nat, NEW n \in 0..cap
    PROVE  OneMore(n, cap) \in 0..cap
  BY DEF OneMore

\* The memory a new context starts with.
LEMMA EmptyMemoryType == EmptyMemory \in TacticalMemory
  BY MemoryAssumption DEF EmptyMemory, TacticalMemory, NoRecord, FailureRecord, Never

LEMMA ElapsedType ==
    ASSUME NEW m \in TacticalMemory, NEW lapse \in Nat
    PROVE  Elapsed(m, lapse) \in TacticalMemory
  <1>1. \A t \in Targets : Expired(m.failed[t], lapse) \in FailureRecord
    BY MemoryAssumption DEF Expired, NoRecord, FailureRecord, TacticalMemory
  <1>2. /\ Older(m.attackAge, lapse, AttackCooldown) \in 0..AttackCooldown
        /\ Older(m.skillAge, lapse, SkillCooldown) \in 0..SkillCooldown
        /\ Older(m.teleportAge, lapse, ScrollCooldown) \in 0..ScrollCooldown
        /\ Older(m.activityAge, lapse, InactivityReset) \in {Never} \cup 0..InactivityReset
        /\ Older(m.idleAge, lapse, IdleTeleport) \in {Never} \cup 0..IdleTeleport
    BY MemoryAssumption DEF TacticalMemory, Older, Never
  <1> QED
    BY <1>1, <1>2 DEF Elapsed, TacticalMemory

\* A memory stays one when its fields are replaced by values of their types.
LEMMA ReplacedType ==
    ASSUME NEW m \in TacticalMemory, NEW f \in [Targets -> FailureRecord],
           NEW a \in 0..AttackCooldown, NEW s \in 0..SkillCooldown,
           NEW t \in 0..ScrollCooldown, NEW c \in {Never} \cup 0..InactivityReset,
           NEW i \in {Never} \cup 0..IdleTeleport, NEW e \in 0..ExploreBudget,
           NEW p \in Targets \cup {NoTarget}, NEW w \in BOOLEAN,
           NEW x \in 0..StallWindow, NEW q \in 0..StallWindow
    PROVE  [m EXCEPT !.failed = f, !.still = x, !.quiet = q, !.walked = w,
                     !.attackAge = a, !.skillAge = s, !.teleportAge = t,
                     !.activityAge = c, !.pending = p, !.idleAge = i,
                     !.emptyWalks = e] \in TacticalMemory
  BY DEF TacticalMemory

LEMMA SampledType ==
    ASSUME NEW m \in TacticalMemory, NEW moved \in BOOLEAN
    PROVE  Sampled(m, moved) \in TacticalMemory
  <1> DEFINE x == IF PositionChanged(m, moved) THEN 1 ELSE OneMore(m.still, StallWindow)
             q == IF m.walked THEN OneMore(m.quiet, StallWindow) ELSE 0
             c == IF PositionChanged(m, moved) THEN 0 ELSE m.activityAge
  <1>1. x \in 0..StallWindow /\ q \in 0..StallWindow
    BY MemoryAssumption, OneMoreType DEF TacticalMemory
  <1>2. c \in {Never} \cup 0..InactivityReset
    BY MemoryAssumption DEF TacticalMemory
  <1>3. Sampled(m, moved) = [m EXCEPT !.still = x, !.quiet = q, !.activityAge = c]
    BY DEF Sampled
  <1> HIDE DEF x, q, c
  <1> QED
    BY <1>1, <1>2, <1>3 DEF TacticalMemory

LEMMA MarkedType ==
    ASSUME NEW failed \in [Targets -> FailureRecord], NEW t \in Targets,
           NEW cause \in FailureCauses \cup {"none"}
    PROVE  Marked(failed, t, cause) \in [Targets -> FailureRecord]
  BY MemoryAssumption DEF Marked, FailureRecord

LEMMA AppliedType ==
    ASSUME NEW m \in TacticalMemory, NEW u \in MemoryUpdate, NEW here \in BOOLEAN
    PROVE  Applied(m, u, here) \in TacticalMemory
  <1> DEFINE walks == IF u.clearWalks THEN 0 ELSE m.emptyWalks
             idle == IF u.clearIdle THEN Never ELSE m.idleAge
             f == IF u.fail = NoTarget THEN m.failed
                  ELSE Marked(m.failed, u.fail, u.cause)
             x == IF u.forgetPositions THEN 0 ELSE m.still
             q == IF u.forgetPositions THEN 0
                  ELSE IF u.walk THEN IF here THEN 1 ELSE 0 ELSE m.quiet
             w == IF u.walk THEN TRUE ELSE m.walked
             a == IF u.attack THEN 0 ELSE m.attackAge
             s == IF u.skillOn = NoTarget THEN m.skillAge ELSE 0
             t == IF u.teleport THEN 0 ELSE m.teleportAge
             c == IF u.attack \/ u.skillOn # NoTarget \/ u.teleport
                  THEN 0 ELSE m.activityAge
             p == IF u.basicDone THEN NoTarget
                  ELSE IF u.skillOn = NoTarget THEN m.pending ELSE u.skillOn
             i == IF u.startIdle /\ idle = Never THEN 0 ELSE idle
             e == IF u.countWalk THEN OneMore(walks, ExploreBudget) ELSE walks
  <1>1. e \in 0..ExploreBudget
    <2>1. walks \in 0..ExploreBudget /\ ExploreBudget \in Nat
      BY MemoryAssumption DEF TacticalMemory
    <2> HIDE DEF walks
    <2> QED
      BY <2>1, OneMoreType
  <1>2. f \in [Targets -> FailureRecord]
    BY MarkedType DEF MemoryUpdate, TacticalMemory
  <1>3. /\ i \in {Never} \cup 0..IdleTeleport
        /\ c \in {Never} \cup 0..InactivityReset
    BY MemoryAssumption DEF TacticalMemory
  <1>4. w \in BOOLEAN
    BY DEF TacticalMemory
  <1>5. x \in 0..StallWindow /\ q \in 0..StallWindow
    BY MemoryAssumption DEF TacticalMemory
  <1>6. a \in 0..AttackCooldown /\ s \in 0..SkillCooldown /\ t \in 0..ScrollCooldown
    BY MemoryAssumption DEF TacticalMemory
  <1>7. p \in Targets \cup {NoTarget}
    BY DEF TacticalMemory, MemoryUpdate
  <1>8. Applied(m, u, here) =
            [m EXCEPT !.failed = f, !.still = x, !.quiet = q, !.walked = w,
                      !.attackAge = a, !.skillAge = s, !.teleportAge = t,
                      !.activityAge = c, !.pending = p, !.idleAge = i,
                      !.emptyWalks = e]
    BY DEF Applied
  <1> HIDE DEF f, x, q, w, a, s, t, c, p, i, e
  <1> QED
    <2>1. [m EXCEPT !.failed = f, !.still = x, !.quiet = q, !.walked = w,
                    !.attackAge = a, !.skillAge = s, !.teleportAge = t,
                    !.activityAge = c, !.pending = p, !.idleAge = i,
                    !.emptyWalks = e] \in TacticalMemory
      BY <1>1, <1>2, <1>3, <1>4, <1>5, <1>6, <1>7 DEF TacticalMemory
    <2> QED
      BY <1>8, <2>1, Zenon

\* An update makes a record of no target but the failed one.
LEMMA AppliedFailed ==
    ASSUME NEW m \in TacticalMemory, NEW u \in MemoryUpdate, NEW here \in BOOLEAN,
           NEW t \in Targets, u.fail # t
    PROVE  Applied(m, u, here).failed[t] = m.failed[t]
  <1>1. Applied(m, u, here).failed = IF u.fail = NoTarget THEN m.failed
                                     ELSE Marked(m.failed, u.fail, u.cause)
    BY DEF Applied, TacticalMemory
  <1> QED
    BY <1>1 DEF Marked, TacticalMemory

-----------------------------------------------------------------------------
(* The variables, by what changes them.                                    *)

MachineType ==
    /\ label \in Labels
    /\ lock \in Targets \cup {NoTarget}
    /\ wait \in Nat
    /\ since \in 0..SinceCap

DispatchType ==
    /\ watch \in [target: Targets \cup {NoTarget}, age: 0..NoProgress - 1]
    /\ outcome \in [kind: OutcomeKinds, target: Targets \cup {NoTarget}]
    /\ bootstrapped \in Targets \cup {NoTarget}
    /\ client \in [auto: BOOLEAN, target: Targets \cup {NoTarget},
                   walking: BOOLEAN, deaf: BOOLEAN]
    /\ act \in [kind: ActionKinds, target: Targets \cup {NoTarget}]

FrameType ==
    frame \in [lapse: Lapses \cup {0}, here: BOOLEAN, moved: BOOLEAN, hit: BOOLEAN]

LEMMA TypeParts ==
    TypeOK <=> MachineType /\ DispatchType /\ FrameType /\ memory \in TacticalMemory
  BY DEF TypeOK, MachineType, DispatchType, FrameType

LEMMA SinceCapType == SinceCap \in Nat
  BY MemoryAssumption, StepAssumption DEF SinceCap

LEMMA EnterType ==
    ASSUME NEW l \in Labels, NEW t \in Targets \cup {NoTarget}, NEW w \in Nat,
           Enter(l, t, w)
    PROVE  MachineType'
  BY SinceCapType DEF Enter, MachineType

LEMMA RememberType ==
    ASSUME TypeOK, NEW u \in MemoryUpdate, Remember(u)
    PROVE  memory' \in TacticalMemory
  BY AppliedType DEF TypeOK, Remember

LEMMA NoopType == ASSUME TypeOK, Noop PROVE DispatchType' /\ ~client'.walking
  BY DEF TypeOK, Noop, DispatchType, Released, NoOutcome, OutcomeKinds, ActionKinds

LEMMA WalkType == ASSUME TypeOK, Walk PROVE DispatchType'
  <1>1. act' \in [kind: ActionKinds, target: Targets \cup {NoTarget}]
    BY DEF Walk, ActionKinds
  <1>2. outcome' \in [kind: OutcomeKinds, target: Targets \cup {NoTarget}]
    BY DEF Walk, NoOutcome, OutcomeKinds
  <1>3. client' \in [auto: BOOLEAN, target: Targets \cup {NoTarget},
                     walking: BOOLEAN, deaf: BOOLEAN]
    BY DEF TypeOK, Walk
  <1> QED
    BY <1>1, <1>2, <1>3 DEF TypeOK, Walk, DispatchType

LEMMA WatchType ==
    ASSUME TypeOK, NEW t \in Targets, NEW ok \in BOOLEAN, WatchAfterAttack(t, ok)
    PROVE  watch' \in [target: Targets \cup {NoTarget}, age: 0..NoProgress - 1]
  BY StepAssumption DEF TypeOK, WatchAfterAttack, NoWatch

LEMMA BootstrapType ==
    ASSUME TypeOK, NEW t \in Targets, Bootstrap(t)
    PROVE  DispatchType' /\ ~client'.walking
  <1>1. PICK ok, aimed, armed \in BOOLEAN :
            /\ client' = [auto |-> client.auto \/ armed,
                          target |-> IF aimed THEN t ELSE client.target,
                          walking |-> FALSE, deaf |-> FALSE]
            /\ bootstrapped' = IF ok THEN t ELSE bootstrapped
            /\ outcome' = [kind |-> IF ok THEN "AttackOk" ELSE "AttackFailed",
                           target |-> t]
            /\ WatchAfterAttack(t, ok)
    BY DEF Bootstrap
  <1>2. client' \in [auto: BOOLEAN, target: Targets \cup {NoTarget},
                    walking: BOOLEAN, deaf: BOOLEAN]
    BY <1>1 DEF TypeOK
  <1>3. outcome' \in [kind: OutcomeKinds, target: Targets \cup {NoTarget}]
    BY <1>1 DEF OutcomeKinds
  <1>4. watch' \in [target: Targets \cup {NoTarget}, age: 0..NoProgress - 1]
    BY <1>1, WatchType
  <1>5. act' \in [kind: ActionKinds, target: Targets \cup {NoTarget}]
    BY DEF Bootstrap, ActionKinds
  <1>6. bootstrapped' \in Targets \cup {NoTarget} /\ ~client'.walking
    BY <1>1 DEF TypeOK
  <1> QED
    BY <1>2, <1>3, <1>4, <1>5, <1>6 DEF DispatchType

LEMMA CastType ==
    ASSUME TypeOK, NEW t \in Targets, Cast(t)
    PROVE  DispatchType' /\ ~client'.walking
  <1>1. PICK ok, found \in BOOLEAN :
            /\ bootstrapped' = IF found THEN NoTarget ELSE bootstrapped
            /\ outcome' = [kind |-> IF ok THEN "AttackOk" ELSE "AttackFailed",
                           target |-> t]
            /\ WatchAfterAttack(t, ok)
    BY DEF Cast
  <1>2. watch' \in [target: Targets \cup {NoTarget}, age: 0..NoProgress - 1]
    BY <1>1, WatchType
  <1> QED
    BY <1>1, <1>2 DEF Cast, TypeOK, DispatchType, Released, OutcomeKinds, ActionKinds

LEMMA ScrollType ==
    ASSUME TypeOK, UseScroll
    PROVE  DispatchType' /\ ~client'.walking /\ (client'.auto => client'.deaf)
  BY DEF TypeOK, UseScroll, DispatchType, Released, NoOutcome, OutcomeKinds, ActionKinds

-----------------------------------------------------------------------------
(* The inductive invariant.                                                *)

LockHeld == label \in Engaging => lock \in Targets

\* As long as a scroll is too recent for another one, so is the last activity.
ScrollIsActivity ==
    memory.teleportAge < ScrollCooldown => memory.activityAge \in 0..memory.teleportAge

IInv ==
    /\ TypeOK
    /\ LockHeld
    /\ RejectedIsLeftAlone
    /\ EscapeIsQuiet
    /\ WalksOnlyWhileTravelling
    /\ ScrollIsActivity

-----------------------------------------------------------------------------
(* Every way through step() has one of five shapes.                        *)

Calm == Labels \ (Engaging \cup {"Escaping", "Exploring"})

\* The bot gives up what it did.
Resting ==
    \E l \in Calm, w \in Nat, u \in MemoryUpdate :
        Enter(l, NoTarget, w) /\ Noop /\ Remember(u)

\* It waits in the state it is in.
Waiting ==
    \E u \in MemoryUpdate : u.fail = NoTarget /\ Stay /\ Noop /\ Remember(u)

\* It explores.
Roaming ==
    \E u \in MemoryUpdate :
        u.fail = NoTarget /\ Enter("Exploring", NoTarget, 0) /\ Walk /\ Remember(u)

\* It turns to a target that does not refuse its attacks.
Aiming ==
    \E t \in Targets, u \in MemoryUpdate :
        /\ ~Rejected(t) /\ u.fail # t
        /\ Remember(u)
        /\ \/ Enter("EngagingApproach", t, 0) /\ (Walk \/ Noop)
           \/ Enter("EngagingAttack", t, 0) /\ (Noop \/ Bootstrap(t) \/ Cast(t))

Shape == Resting \/ Waiting \/ Roaming \/ Aiming \/ Escape

LEMMA NoUpdateType == NoUpdate \in MemoryUpdate /\ NoUpdate.fail = NoTarget
  BY DEF NoUpdate, MemoryUpdate

LEMMA RecoverShape ==
    ASSUME NEW l \in Recovering, NEW u \in MemoryUpdate, Recover(l, u)
    PROVE  Resting
  <1>1. l \in Calm
    BY DEF Calm, Labels, Recovering, Interruptible, Retreating, Engaging, Disabled
  <1>2. RecoveryTime(l) \in Nat
    BY StepAssumption DEF RecoveryTime
  <1> QED
    BY <1>1, <1>2 DEF Recover, Resting

LEMMA TransitionShape ==
    ASSUME NEW l \in Disabled \cup {"Idle"}, Transition(l)
    PROVE  Resting
  <1>1. l \in Calm /\ 0 \in Nat
    BY DEF Calm, Labels, Recovering, Interruptible, Retreating, Engaging, Disabled
  <1> QED
    BY <1>1, NoUpdateType DEF Transition, Resting

LEMMA CandidateNotRejected ==
    ASSUME NEW t \in Targets, NEW sight \in Sights, Candidate(t, sight)
    PROVE  ~Rejected(t)
  BY DEF Candidate, Considered, Rejected

LEMMA EngageShape ==
    ASSUME NEW t \in Targets, NEW sight \in Sights, NEW u \in MemoryUpdate,
           Candidate(t, sight), u.fail # t, Engage(t, sight, u)
    PROVE  Aiming
  <1> DEFINE v == [u EXCEPT !.clearIdle = TRUE, !.clearWalks = TRUE]
  <1>1. ~Rejected(t)
    BY CandidateNotRejected
  <1>2. /\ v \in MemoryUpdate /\ v.fail # t
        /\ [v EXCEPT !.walk = TRUE] \in MemoryUpdate
        /\ [v EXCEPT !.walk = TRUE].fail # t
        /\ [v EXCEPT !.attack = TRUE] \in MemoryUpdate
        /\ [v EXCEPT !.attack = TRUE].fail # t
    BY DEF MemoryUpdate
  <1> HIDE DEF v
  <1>3. CASE sight = "path"
    <2>1. /\ Enter("EngagingApproach", t, 0)
          /\ \/ Walk /\ Remember([v EXCEPT !.walk = TRUE])
             \/ Noop /\ Remember(v)
      BY <1>3 DEF Engage, v
    <2> QED
      BY <1>1, <1>2, <2>1 DEF Aiming
  <1>4. CASE sight # "path"
    <2>1. /\ Enter("EngagingAttack", t, 0) /\ Bootstrap(t)
          /\ Remember([v EXCEPT !.attack = TRUE])
      BY <1>4 DEF Engage, v
    <2> QED
      BY <1>1, <1>2, <2>1 DEF Aiming
  <1> QED
    BY <1>3, <1>4

LEMMA AcquireShape ==
    ASSUME NEW others \in SUBSET Targets, NEW u \in MemoryUpdate,
           u.fail \notin others, Acquire(others, u)
    PROVE  Aiming
  BY EngageShape DEF Acquire

LEMMA AttackShape ==
    ASSUME IInv, label \in Engaging, NEW skillOk \in BOOLEAN, Attack(skillOk)
    PROVE  Aiming
  <1>1. lock \in Targets /\ ~Rejected(lock) /\ lock # NoTarget
    BY MemoryAssumption DEF IInv, LockHeld, RejectedIsLeftAlone
  <1> DEFINE quiet == [NoUpdate EXCEPT !.clearIdle = TRUE]
  <1>2. /\ Enter("EngagingAttack", lock, 0)
        /\ \/ Noop /\ Remember(quiet)
           \/ Cast(lock) /\ Remember(Blow(TRUE))
           \/ Bootstrap(lock) /\ Remember(Blow(FALSE))
    BY DEF Attack, SkillSelected
  <1>3. quiet \in MemoryUpdate /\ quiet.fail # lock
    BY <1>1 DEF NoUpdate, MemoryUpdate
  <1>4. \A skill \in BOOLEAN : Blow(skill) \in MemoryUpdate /\ Blow(skill).fail # lock
    BY <1>1 DEF Blow, NoUpdate, MemoryUpdate
  <1> HIDE DEF quiet
  <1> QED
    BY <1>1, <1>2, <1>3, <1>4 DEF Aiming

LEMMA ExploreOnShape == ASSUME ExploreOn PROVE Roaming
  <1> DEFINE u == [NoUpdate EXCEPT !.walk = TRUE, !.startIdle = TRUE, !.countWalk = TRUE]
  <1>1. u \in MemoryUpdate /\ u.fail = NoTarget
    BY DEF NoUpdate, MemoryUpdate
  <1>2. Enter("Exploring", NoTarget, 0) /\ Walk /\ Remember(u)
    BY DEF ExploreOn
  <1> HIDE DEF u
  <1> QED
    BY <1>1, <1>2 DEF Roaming

LEMMA ExplorationStuckShape == ASSUME ExplorationStuck PROVE Resting
  <1> DEFINE u == [NoUpdate EXCEPT !.startIdle = TRUE, !.forgetPositions = TRUE]
  <1>1. u \in MemoryUpdate /\ "RecoveringWalkStuck" \in Recovering
    BY DEF NoUpdate, MemoryUpdate, Recovering, Interruptible
  <1>2. Recover("RecoveringWalkStuck", u)
    BY DEF ExplorationStuck
  <1> HIDE DEF u
  <1> QED
    BY <1>1, <1>2, RecoverShape

LEMMA NoTargetShape == ASSUME NoTargetAction PROVE Shape
  <1> DEFINE u == [NoUpdate EXCEPT !.startIdle = TRUE]
  <1>1. u \in MemoryUpdate /\ u.fail = NoTarget
    BY DEF NoUpdate, MemoryUpdate
  <1>2. \/ Escape
        \/ Stay /\ Noop /\ Remember(u)
        \/ ExplorationStuck
        \/ ExploreOn
    BY DEF NoTargetAction
  <1> HIDE DEF u
  <1>3. Stay /\ Noop /\ Remember(u) => Waiting
    BY <1>1 DEF Waiting
  <1> QED
    BY <1>2, <1>3, ExplorationStuckShape, ExploreOnShape DEF Shape

LEMMA RecoveryLabels ==
    /\ Interruptible \subseteq Recovering /\ Retreating \subseteq Recovering
    /\ "RecoveringWalkStuck" \in Recovering
    /\ "RecoveringAttackFailed" \in Recovering
    /\ "RecoveringNoReachableTarget" \in Recovering
    /\ "RecoveringCriticalHp" \in Recovering
    /\ "RecoveringDamageSpike" \in Recovering
    /\ "EngagingApproach" \in Engaging /\ "EngagingAttack" \in Engaging
  BY DEF Recovering, Interruptible, Retreating, Engaging

LEMMA StepShapes == ASSUME IInv, Step PROVE Shape
  <1>1. CASE NotInGame \/ PlayerDied \/ WakeUp \/ EscapeElapsed
    <2>1. \E l \in Disabled \cup {"Idle"} : Transition(l)
      BY <1>1 DEF NotInGame, PlayerDied, WakeUp, EscapeElapsed, Disabled
    <2> QED
      BY <2>1, TransitionShape DEF Shape
  <1>2. CASE CriticalHp \/ DamageSpike
    BY <1>2, RecoverShape, RecoveryLabels, NoUpdateType DEF Shape, CriticalHp, DamageSpike
  <1>3. CASE InactivityEscape
    BY <1>3 DEF InactivityEscape, Shape
  <1>4. CASE InterruptRecovery \/ IdleAcquire \/ ExploreAcquire
    <2>1. Acquire(Targets, NoUpdate) /\ NoUpdate.fail \notin Targets
      BY <1>4, MemoryAssumption DEF InterruptRecovery, IdleAcquire, ExploreAcquire, NoUpdate
    <2> QED
      BY <2>1, AcquireShape, NoUpdateType DEF Shape
  <1>5. CASE KeepWaiting
    BY <1>5, NoUpdateType DEF KeepWaiting, Shape, Waiting
  <1>6. CASE RecoveryElapsed
    BY <1>6, TransitionShape DEF RecoveryElapsed, Shape
  <1>7. CASE IdleNoTarget \/ ExploreNoTarget
    BY <1>7, NoTargetShape DEF IdleNoTarget, ExploreNoTarget
  <1>8. CASE ExploreStuck \/ ExploreContinue
    BY <1>8, ExplorationStuckShape, ExploreOnShape DEF ExploreStuck, ExploreContinue, Shape
  <1>9. CASE AttackDespiteFailure
    BY <1>9, AttackShape DEF AttackDespiteFailure, Shape
  <1>10. CASE SwitchRefusedLock
    <2> DEFINE u == [Refused EXCEPT !.basicDone = memory.pending = lock]
    <2>1. lock \in Targets
      BY <1>10 DEF SwitchRefusedLock, IInv, LockHeld
    <2>2. u \in MemoryUpdate /\ u.fail = lock
      BY <2>1 DEF Refused, NoUpdate, MemoryUpdate, FailureCauses
    <2>3. Acquire(Targets \ {lock}, u)
      BY <1>10 DEF SwitchRefusedLock
    <2> HIDE DEF u
    <2> QED
      BY <2>2, <2>3, AcquireShape DEF Shape
  <1>11. CASE GiveUpRefusedLock
    <2>1. Refused \in MemoryUpdate
      BY <1>11 DEF GiveUpRefusedLock, IInv, LockHeld, Refused, NoUpdate, MemoryUpdate,
                   FailureCauses
    <2> QED
      BY <1>11, <2>1, RecoverShape, RecoveryLabels DEF GiveUpRefusedLock, Shape
  <1>12. CASE ApproachWalkFailed \/ ApproachExhausted
    <2>1. lock \in Targets
      BY <1>12 DEF ApproachWalkFailed, ApproachExhausted, Pursuing, IInv, LockHeld
    <2>2. Unreachable \in MemoryUpdate
      BY <2>1 DEF Unreachable, NoUpdate, MemoryUpdate, FailureCauses
    <2> QED
      BY <1>12, <2>2, RecoverShape, RecoveryLabels
      DEF ApproachWalkFailed, ApproachExhausted, Shape
  <1>13. CASE LockGone
    <2>1. (Stay /\ Noop /\ Remember(NoUpdate)) \/ Transition("Idle")
      BY <1>13 DEF LockGone
    <2> QED
      BY <2>1, TransitionShape, NoUpdateType DEF Shape, Waiting
  <1>14. CASE AttackLock \/ AttackVisibleLock
    <2>1. label \in Engaging /\ \E skillOk \in BOOLEAN : Attack(skillOk)
      BY <1>14 DEF AttackLock, AttackVisibleLock, Pursuing
    <2> QED
      BY <2>1, AttackShape DEF Shape
  <1>15. CASE ApproachLock
    <2> DEFINE u == [NoUpdate EXCEPT !.walk = TRUE]
    <2>1. lock \in Targets /\ ~Rejected(lock)
      BY <1>15 DEF ApproachLock, Pursuing, IInv, LockHeld, RejectedIsLeftAlone
    <2>2. u \in MemoryUpdate /\ u.fail # lock
      BY <2>1, MemoryAssumption DEF NoUpdate, MemoryUpdate
    <2>3. Unreachable \in MemoryUpdate
      BY <2>1 DEF Unreachable, NoUpdate, MemoryUpdate, FailureCauses
    <2>4. \/ Recover("RecoveringWalkStuck", Unreachable)
          \/ Enter("EngagingApproach", lock, 0) /\ Walk /\ Remember(u)
      BY <1>15 DEF ApproachLock
    <2> HIDE DEF u
    <2> QED
      BY <2>1, <2>2, <2>3, <2>4, RecoverShape, RecoveryLabels DEF Shape, Aiming
  <1>16. CASE LoseLock
    <2>1. Acquire(Targets \ {lock}, NoUpdate) \/ NoTargetAction
      BY <1>16 DEF LoseLock
    <2>2. NoUpdate.fail \notin Targets \ {lock}
      BY MemoryAssumption DEF NoUpdate
    <2> QED
      BY <2>1, <2>2, AcquireShape, NoTargetShape, NoUpdateType DEF Shape
  <1> QED
    BY <1>1, <1>2, <1>3, <1>4, <1>5, <1>6, <1>7, <1>8, <1>9, <1>10, <1>11, <1>12,
       <1>13, <1>14, <1>15, <1>16 DEF Step, Settled

-----------------------------------------------------------------------------
(* The invariant is inductive.                                             *)

LEMMA InitInvariant == Init => IInv
  <1> SUFFICES ASSUME Init PROVE IInv
    OBVIOUS
  <1>1. MachineType
    BY SinceCapType DEF Init, MachineType, Labels, Disabled
  <1>2. DispatchType
    <2>1. watch \in [target: Targets \cup {NoTarget}, age: 0..NoProgress - 1]
      BY StepAssumption DEF Init, NoWatch
    <2>2. outcome \in [kind: OutcomeKinds, target: Targets \cup {NoTarget}]
      BY DEF Init, NoOutcome, OutcomeKinds
    <2>3. act \in [kind: ActionKinds, target: Targets \cup {NoTarget}]
      BY DEF Init, NoAction, ActionKinds
    <2>4. client \in [auto: BOOLEAN, target: Targets \cup {NoTarget},
                   walking: BOOLEAN, deaf: BOOLEAN]
      BY DEF Init
    <2> QED
      BY <2>1, <2>2, <2>3, <2>4 DEF Init, DispatchType
  <1>3. FrameType
    BY DEF Init, FrameType, NoFrame
  <1>4. TypeOK
    BY <1>1, <1>2, <1>3, EmptyMemoryType, TypeParts DEF Init
  <1>5. label = "DisabledMasterOff"
    BY DEF Init
  <1>6. ScrollIsActivity
    BY MemoryAssumption DEF Init, EmptyMemory, ScrollIsActivity
  <1> QED
    BY <1>4, <1>5, <1>6
    DEF IInv, LockHeld, RejectedIsLeftAlone, EscapeIsQuiet, WalksOnlyWhileTravelling, Engaging

LEMMA ActivityKept ==
    ASSUME IInv, NEW u \in MemoryUpdate, Remember(u)
    PROVE  ScrollIsActivity'
  <1>1. memory' = Applied(memory, u, frame.here) /\ memory \in TacticalMemory
    BY DEF IInv, TypeOK, Remember
  <1>2. /\ memory'.teleportAge = IF u.teleport THEN 0 ELSE memory.teleportAge
        /\ memory'.activityAge = IF u.attack \/ u.skillOn # NoTarget \/ u.teleport
                                 THEN 0 ELSE memory.activityAge
    BY <1>1 DEF Applied, TacticalMemory
  <1>3. memory.teleportAge \in Nat
    BY <1>1, MemoryAssumption DEF TacticalMemory
  <1> QED
    BY <1>2, <1>3 DEF IInv, ScrollIsActivity

\* What a shape leaves behind: the parts of the invariant but for the frame.
After ==
    /\ MachineType /\ DispatchType /\ memory \in TacticalMemory
    /\ LockHeld /\ RejectedIsLeftAlone /\ EscapeIsQuiet
    /\ WalksOnlyWhileTravelling /\ ScrollIsActivity

LEMMA ShapeKeeps == ASSUME IInv, Shape PROVE After'
  <1>t. TypeOK
    BY DEF IInv
  <1>1. CASE Resting
    <2>1. PICK l \in Calm, w \in Nat, u \in MemoryUpdate :
              Enter(l, NoTarget, w) /\ Noop /\ Remember(u)
      BY <1>1 DEF Resting
    <2>2. MachineType' /\ label' = l
      BY <2>1, EnterType DEF Calm, Enter
    <2>3. DispatchType' /\ ~client'.walking /\ memory' \in TacticalMemory /\ ScrollIsActivity'
      BY <1>t, <2>1, NoopType, RememberType, ActivityKept
    <2>4. label' \notin Engaging /\ label' # "Escaping"
      BY <2>2 DEF Calm
    <2> QED
      BY <2>2, <2>3, <2>4
      DEF After, LockHeld, RejectedIsLeftAlone, EscapeIsQuiet, WalksOnlyWhileTravelling
  <1>2. CASE Waiting
    <2>1. PICK u \in MemoryUpdate : u.fail = NoTarget /\ Stay /\ Noop /\ Remember(u)
      BY <1>2 DEF Waiting
    <2>2. MachineType' /\ label' = label /\ lock' = lock
      BY <1>t, <2>1, TypeParts DEF Stay, MachineType
    <2>3. DispatchType' /\ ~client'.walking /\ memory' \in TacticalMemory /\ ScrollIsActivity'
      BY <1>t, <2>1, NoopType, RememberType, ActivityKept
    <2>4. client'.auto = client.auto /\ client'.deaf = client.deaf
      BY <1>t, <2>1 DEF Noop, Released, TypeOK
    <2>5. ASSUME lock \in Targets PROVE memory'.failed[lock] = memory.failed[lock]
      BY <1>t, <2>1, <2>5, AppliedFailed, MemoryAssumption DEF Remember, TypeOK
    <2> QED
      BY <2>2, <2>3, <2>4, <2>5
      DEF After, IInv, LockHeld, RejectedIsLeftAlone, EscapeIsQuiet,
          WalksOnlyWhileTravelling, Rejected
  <1>3. CASE Roaming
    <2>1. PICK u \in MemoryUpdate :
              Enter("Exploring", NoTarget, 0) /\ Walk /\ Remember(u)
      BY <1>3 DEF Roaming
    <2>2. MachineType' /\ label' = "Exploring"
      BY <2>1, EnterType DEF Enter, Labels
    <2>3. DispatchType' /\ memory' \in TacticalMemory /\ ScrollIsActivity'
      BY <1>t, <2>1, WalkType, RememberType, ActivityKept
    <2> QED
      BY <2>2, <2>3
      DEF After, LockHeld, RejectedIsLeftAlone, EscapeIsQuiet,
          WalksOnlyWhileTravelling, Engaging
  <1>4. CASE Aiming
    <2>1. PICK t \in Targets, u \in MemoryUpdate :
            /\ ~Rejected(t) /\ u.fail # t
            /\ Remember(u)
            /\ \/ Enter("EngagingApproach", t, 0) /\ (Walk \/ Noop)
               \/ Enter("EngagingAttack", t, 0) /\ (Noop \/ Bootstrap(t) \/ Cast(t))
      BY <1>4 DEF Aiming
    <2>2. MachineType' /\ label' \in Engaging /\ lock' = t
      BY <2>1, EnterType DEF Enter, Labels, Engaging
    <2>3. memory' \in TacticalMemory /\ ScrollIsActivity'
      BY <1>t, <2>1, RememberType, ActivityKept
    <2>4. memory'.failed[t] = memory.failed[t]
      BY <1>t, <2>1, AppliedFailed DEF Remember, TypeOK
    <2>5. DispatchType' /\ (client'.walking => label' = "EngagingApproach")
      BY <1>t, <2>1, WalkType, NoopType, BootstrapType, CastType DEF Enter
    <2> QED
      BY <2>1, <2>2, <2>3, <2>4, <2>5
      DEF After, LockHeld, RejectedIsLeftAlone, EscapeIsQuiet,
          WalksOnlyWhileTravelling, Engaging, Rejected
  <1>5. CASE Escape
    <2> DEFINE u == [NoUpdate EXCEPT !.teleport = TRUE, !.clearIdle = TRUE,
                                     !.clearWalks = TRUE]
    <2>1. u \in MemoryUpdate
      BY DEF NoUpdate, MemoryUpdate
    <2>2. Enter("Escaping", NoTarget, EscapingWait) /\ UseScroll /\ Remember(u)
      BY <1>5 DEF Escape
    <2> HIDE DEF u
    <2>3. MachineType' /\ label' = "Escaping"
      BY <2>2, EnterType, StepAssumption DEF Enter, Labels
    <2>4. /\ DispatchType' /\ ~client'.walking /\ (client'.auto => client'.deaf)
          /\ memory' \in TacticalMemory /\ ScrollIsActivity'
      BY <1>t, <2>1, <2>2, ScrollType, RememberType, ActivityKept
    <2> QED
      BY <2>3, <2>4
      DEF After, LockHeld, RejectedIsLeftAlone, EscapeIsQuiet,
          WalksOnlyWhileTravelling, Engaging
  <1> QED
    BY <1>1, <1>2, <1>3, <1>4, <1>5 DEF Shape

LEMMA WatchBeforeType ==
    ASSUME TypeOK, NEW lapse \in Lapses, NEW hit \in BOOLEAN, WatchBeforeTick(lapse, hit)
    PROVE  /\ watch' \in [target: Targets \cup {NoTarget}, age: 0..NoProgress - 1]
           /\ outcome' \in [kind: OutcomeKinds, target: Targets \cup {NoTarget}]
  <1> DEFINE waited == watch.age + lapse
             stale == /\ label = "EngagingAttack" /\ watch.target = lock
                      /\ ~hit /\ waited >= NoProgress
  <1>1. waited \in Nat /\ watch.age \in 0..NoProgress - 1 /\ NoProgress \in Nat \ {0}
    BY StepAssumption DEF TypeOK
  <1>2. watch' = IF label # "EngagingAttack" \/ stale THEN NoWatch
                 ELSE IF watch.target # lock \/ hit THEN [target |-> lock, age |-> 0]
                      ELSE [watch EXCEPT !.age = waited]
    BY DEF WatchBeforeTick
  <1>3. outcome' = IF stale THEN [kind |-> "AttackNoProgress", target |-> lock]
                   ELSE outcome
    BY DEF WatchBeforeTick
  <1>4. outcome' \in [kind: OutcomeKinds, target: Targets \cup {NoTarget}]
    BY <1>3 DEF TypeOK, OutcomeKinds
  <1>5. CASE label # "EngagingAttack" \/ stale
    BY <1>1, <1>2, <1>4, <1>5 DEF NoWatch
  <1>6. CASE ~(label # "EngagingAttack" \/ stale)
    <2>1. CASE watch.target # lock \/ hit
      BY <1>1, <1>2, <1>4, <1>6, <2>1 DEF TypeOK
    <2>2. CASE ~(watch.target # lock \/ hit)
      <3>1. waited \in 0..NoProgress - 1
        BY <1>1, <1>6, <2>2
      <3>2. watch' = [watch EXCEPT !.age = waited]
        BY <1>2, <1>6, <2>2
      <3> HIDE DEF waited
      <3> QED
        BY <1>4, <3>1, <3>2 DEF TypeOK
    <2> QED
      BY <2>1, <2>2
  <1> QED
    BY <1>5, <1>6

LEMMA FrameKeeps == ASSUME IInv, Frame PROVE IInv'
  <1>t. TypeOK
    BY DEF IInv
  <1>1. PICK lapse \in Lapses, here, moved, hit \in BOOLEAN :
            /\ frame' = [lapse |-> lapse, here |-> here, moved |-> moved, hit |-> hit]
            /\ memory' = LET m == Elapsed(memory, lapse)
                         IN IF here THEN Sampled(m, moved) ELSE m
            /\ wait' = Left(wait, lapse)
            /\ since' = Older(since, lapse, SinceCap)
            /\ WatchBeforeTick(lapse, hit)
    BY DEF Frame
  <1>2. act' = NoAction /\ UNCHANGED <<label, lock, bootstrapped, client>>
    BY DEF Frame
  <1>3. lapse \in Nat \ {0}
    BY StepAssumption
  <1> DEFINE m == Elapsed(memory, lapse)
  <1>4. m \in TacticalMemory
    BY <1>3, <1>t, ElapsedType DEF TypeOK
  <1>5. memory' \in TacticalMemory
    BY <1>1, <1>4, SampledType
  <1>6. wait' \in Nat /\ since' \in 0..SinceCap
    BY <1>1, <1>3, <1>t, SinceCapType DEF Left, Older, Never, TypeOK
  <1>7. DispatchType'
    <2>1. act' \in [kind: ActionKinds, target: Targets \cup {NoTarget}]
      BY <1>2 DEF NoAction, ActionKinds
    <2> QED
      BY <1>1, <1>2, <1>t, <2>1, WatchBeforeType DEF DispatchType, TypeOK
  <1>8. FrameType'
    BY <1>1 DEF FrameType
  <1>9. TypeOK'
    BY <1>2, <1>5, <1>6, <1>7, <1>8, <1>t DEF TypeOK, DispatchType, FrameType
  <1>10. \A t \in Targets : Rejected(t)' => Rejected(t)
    <2>1. memory'.failed = m.failed
      BY <1>1, <1>4 DEF Sampled, TacticalMemory
    <2>2. m.failed = [t \in Targets |-> Expired(memory.failed[t], lapse)]
      BY <1>t DEF Elapsed, TypeOK, TacticalMemory
    <2>3. \A t \in Targets : memory.failed[t] \in FailureRecord
      BY <1>t DEF TypeOK, TacticalMemory
    <2> QED
      BY <2>1, <2>2, <2>3, <1>3, MemoryAssumption
      DEF Rejected, Expired, NoRecord, FailureRecord
  <1>11. ScrollIsActivity'
    <2>1. /\ m.teleportAge = Older(memory.teleportAge, lapse, ScrollCooldown)
          /\ m.activityAge = Older(memory.activityAge, lapse, InactivityReset)
      BY <1>t DEF Elapsed, TypeOK, TacticalMemory
    <2>2. /\ memory'.teleportAge = m.teleportAge
          /\ memory'.activityAge \in {0, m.activityAge}
      BY <1>1, <1>4 DEF Sampled, TacticalMemory
    <2>3. memory.teleportAge \in 0..ScrollCooldown
      BY <1>t DEF TypeOK, TacticalMemory
    <2>4. memory.teleportAge < ScrollCooldown
              => memory.activityAge \in 0..memory.teleportAge
      BY DEF IInv, ScrollIsActivity
    <2>5. CASE m.teleportAge < ScrollCooldown
      <3>1. m.teleportAge = memory.teleportAge + lapse
        BY <1>3, <2>1, <2>3, <2>5, MemoryAssumption DEF Older, Never
      <3>2. memory.activityAge \in 0..memory.teleportAge
        BY <1>3, <2>3, <2>4, <2>5, <3>1, MemoryAssumption
      <3>3. m.activityAge \in 0..m.teleportAge
        BY <1>3, <2>1, <2>3, <2>5, <3>1, <3>2, MemoryAssumption DEF Older, Never
      <3> QED
        BY <1>3, <2>2, <2>3, <3>1, <3>3, MemoryAssumption DEF ScrollIsActivity
    <2>6. CASE ~(m.teleportAge < ScrollCooldown)
      BY <2>2, <2>6 DEF ScrollIsActivity
    <2> QED
      BY <2>5, <2>6
  <1> QED
    BY <1>2, <1>9, <1>10, <1>11
    DEF IInv, LockHeld, RejectedIsLeftAlone, EscapeIsQuiet, WalksOnlyWhileTravelling

LEMMA StepKeeps == ASSUME IInv, Step PROVE IInv'
  <1>1. After'
    BY StepShapes, ShapeKeeps
  <1>2. FrameType'
    BY DEF Step, NoFrame, FrameType
  <1> QED
    BY <1>1, <1>2 DEF After, IInv, TypeOK, MachineType, DispatchType, FrameType

LEMMA StutterKeeps == ASSUME IInv, UNCHANGED vars PROVE IInv'
  BY DEF vars, IInv, TypeOK, LockHeld, RejectedIsLeftAlone, EscapeIsQuiet,
         WalksOnlyWhileTravelling, ScrollIsActivity, Rejected

\* The inductive invariant: types, a lock that the state agrees with, and the
\* safety properties of the tick that need no history.
THEOREM Invariant == Spec => []IInv
  <1>1. IInv /\ [Next]_vars => IInv'
    BY FrameKeeps, StepKeeps, StutterKeeps DEF Next
  <1> QED
    BY InitInvariant, <1>1, PTL DEF Spec

-----------------------------------------------------------------------------
(* The theorems.                                                           *)

\* The variables keep their types.
THEOREM TypeCorrect == Spec => []TypeOK
  BY Invariant, PTL DEF IInv

\* A target that refused an attack is not engaged before its record runs out.
THEOREM RejectedTargetsAreLeftAlone == Spec => []RejectedIsLeftAlone
  BY Invariant, PTL DEF IInv

\* Nothing the bot started goes on while it waits for a scroll.
THEOREM EscapesAreQuiet == Spec => []EscapeIsQuiet
  BY Invariant, PTL DEF IInv

\* The mouse button is never left down outside an approach or an exploration.
THEOREM WalkingIsReleased == Spec => []WalksOnlyWhileTravelling
  BY Invariant, PTL DEF IInv

-----------------------------------------------------------------------------
(* The watchdog.                                                           *)

\* A step between two watched states found the watchdog not due.
LEMMA WatchedStep ==
    ASSUME Step, label \in Watched, label' \in Watched
    PROVE  ~WatchdogDue
  <1>1. ~(NotInGame \/ PlayerDied \/ CriticalHp \/ DamageSpike)
    BY DEF NotInGame, PlayerDied, CriticalHp, DamageSpike, Transition, Recover, Enter,
           Watched, Engaging, Interruptible
  <1>2. ~InactivityEscape
    BY DEF InactivityEscape, Escape, Enter, Watched, Engaging, Interruptible
  <1> QED
    BY <1>1, <1>2 DEF Step

LEMMA ShapeUpdates ==
    ASSUME Shape, label' \in Watched
    PROVE  \E u \in MemoryUpdate : Remember(u)
  BY DEF Shape, Resting, Waiting, Roaming, Aiming, Escape, Enter, Watched, Engaging,
         Interruptible

\* With a scroll to use, no watched state stays inactive over a whole tick.
THEOREM InactivityIsCutShort == Spec => InactivityNeverLingers
  <1> DEFINE Lingering ==
        /\ ScrollNamed /\ act'.kind # "none"
        /\ {label, label'} \subseteq Watched
        /\ ~(memory'.activityAge < InactivityReset)
  <1>1. ASSUME IInv, Step, Lingering PROVE FALSE
    <2>1. label \in Watched /\ label' \in Watched
      BY <1>1
    <2>2. memory.teleportAge \in 0..ScrollCooldown
          /\ memory.activityAge \in {Never} \cup 0..InactivityReset
          /\ memory \in TacticalMemory
      BY <1>1 DEF IInv, TypeOK, TacticalMemory
    <2>3. memory.activityAge < InactivityReset
      <3>1. CASE memory.teleportAge >= ScrollCooldown
        <4>1. ~(memory.activityAge >= InactivityReset)
          BY <1>1, <2>1, <3>1, WatchedStep DEF WatchdogDue, CanForceScroll
        <4> QED
          BY <2>2, <4>1, MemoryAssumption DEF Never
      <3>2. CASE ~(memory.teleportAge >= ScrollCooldown)
        BY <1>1, <2>2, <3>2, MemoryAssumption DEF IInv, ScrollIsActivity
      <3> QED
        BY <3>1, <3>2
    <2>4. PICK u \in MemoryUpdate : Remember(u)
      BY <1>1, <2>1, StepShapes, ShapeUpdates
    <2>5. memory'.activityAge \in {0, memory.activityAge}
      BY <2>2, <2>4 DEF Remember, Applied, TacticalMemory
    <2> QED
      BY <1>1, <2>3, <2>5, MemoryAssumption
  <1>2. ASSUME Frame PROVE ~Lingering
    BY <1>2 DEF Frame, NoAction
  <1>3. IInv /\ [Next]_vars => [~Lingering]_vars
    BY <1>1, <1>2 DEF Next
  <1>4. [~Lingering]_vars => [ScrollNamed /\ act'.kind # "none"
              /\ {label, label'} \subseteq Watched
                  => memory'.activityAge < InactivityReset]_vars
    OBVIOUS
  <1> HIDE DEF Lingering
  <1> QED
    BY Invariant, <1>3, <1>4, PTL DEF Spec, InactivityNeverLingers

-----------------------------------------------------------------------------
(* What one step shows to the observer and leaves in the memory.           *)

\* Neither a scroll nor a skill, and the debt of a blow stays.
Plain(u) == ~u.teleport /\ u.skillOn = NoTarget /\ ~u.basicDone

\* A scroll is used when its cooldown is over, and only a scroll is entered as one.
ScrollNoted(u) ==
    /\ act'.kind = "Scroll" => u.teleport /\ memory.teleportAge >= ScrollCooldown
    /\ act'.kind # "Scroll" => ~u.teleport

\* A skill is used when no blow is due on its target, and makes one due; a basic
\* attack, or giving up a lock that refuses attacks, settles what was due.
SkillNoted(u) ==
    IF act'.kind = "Skill"
    THEN /\ act'.target \in Targets /\ memory.pending # act'.target
         /\ u.skillOn = act'.target /\ ~u.basicDone
    ELSE /\ u.skillOn = NoTarget
         /\ u.basicDone => act'.kind = "Attack" \/ GivenUp

Noted == \E u \in MemoryUpdate : Remember(u) /\ ScrollNoted(u) /\ SkillNoted(u)

LEMMA PlainNoted ==
    ASSUME NEW u \in MemoryUpdate, Remember(u), Plain(u),
           act'.kind \notin {"Skill", "Scroll"}
    PROVE  Noted
  BY DEF Noted, Plain, ScrollNoted, SkillNoted

LEMMA PlainNoUpdate == NoUpdate \in MemoryUpdate /\ Plain(NoUpdate)
  BY DEF NoUpdate, MemoryUpdate, Plain

LEMMA NoopKind == ASSUME Noop PROVE act'.kind \notin {"Skill", "Scroll"}
  BY DEF Noop

LEMMA WalkKind == ASSUME Walk PROVE act'.kind \notin {"Skill", "Scroll"}
  BY DEF Walk

LEMMA TransitionNoted == ASSUME NEW l, Transition(l) PROVE Noted
  BY PlainNoted, PlainNoUpdate, NoopKind DEF Transition

LEMMA RecoverNoted ==
    ASSUME NEW l, NEW u \in MemoryUpdate, Plain(u), Recover(l, u)
    PROVE  Noted
  BY PlainNoted, NoopKind DEF Recover

LEMMA EscapeNoted == ASSUME CanForceScroll, Escape PROVE Noted
  <1> DEFINE u == [NoUpdate EXCEPT !.teleport = TRUE, !.clearIdle = TRUE,
                                   !.clearWalks = TRUE]
  <1>1. u \in MemoryUpdate /\ u.teleport /\ u.skillOn = NoTarget /\ ~u.basicDone
    BY DEF NoUpdate, MemoryUpdate
  <1>2. Remember(u) /\ act'.kind = "Scroll"
    BY DEF Escape, UseScroll
  <1>3. memory.teleportAge >= ScrollCooldown
    BY DEF CanForceScroll
  <1> HIDE DEF u
  <1> QED
    BY <1>1, <1>2, <1>3 DEF Noted, ScrollNoted, SkillNoted

\* u may settle a blow only where the lock is given up.
LEMMA EngageNoted ==
    ASSUME NEW t \in Targets, NEW sight, NEW u \in MemoryUpdate,
           ~u.teleport, u.skillOn = NoTarget,
           u.basicDone => label \in Engaging /\ LockRefused /\ t # lock,
           Engage(t, sight, u)
    PROVE  Noted
  <1> DEFINE v == [u EXCEPT !.clearIdle = TRUE, !.clearWalks = TRUE]
             walking == [v EXCEPT !.walk = TRUE]
             attacking == [v EXCEPT !.attack = TRUE]
  <1>1. \A w \in {v, walking, attacking} :
            /\ w \in MemoryUpdate
            /\ w.teleport = u.teleport /\ w.skillOn = u.skillOn /\ w.basicDone = u.basicDone
    BY DEF MemoryUpdate
  <1>2. lock' = t
    BY DEF Engage, Enter
  <1>3. u.basicDone => GivenUp
    BY <1>2 DEF GivenUp
  <1>4. CASE sight = "path"
    <2>1. (Walk /\ Remember(walking)) \/ (Noop /\ Remember(v))
      BY <1>4 DEF Engage
    <2> HIDE DEF v, walking, attacking
    <2> QED
      BY <1>1, <1>3, <2>1, WalkKind, NoopKind DEF Noted, ScrollNoted, SkillNoted
  <1>5. CASE sight # "path"
    <2>1. act'.kind = "Attack" /\ Remember(attacking)
      BY <1>5 DEF Engage, Bootstrap
    <2> HIDE DEF v, walking, attacking
    <2> QED
      BY <1>1, <2>1 DEF Noted, ScrollNoted, SkillNoted
  <1> QED
    BY <1>4, <1>5

LEMMA AcquireNoted ==
    ASSUME NEW others \in SUBSET Targets, NEW u \in MemoryUpdate,
           ~u.teleport, u.skillOn = NoTarget,
           u.basicDone => label \in Engaging /\ LockRefused /\ lock \notin others,
           Acquire(others, u)
    PROVE  Noted
  <1>1. PICK t \in others, sight \in Sights : Engage(t, sight, u)
    BY DEF Acquire
  <1> QED
    BY <1>1, EngageNoted

LEMMA AttackNoted ==
    ASSUME lock \in Targets, NEW skillOk \in BOOLEAN, Attack(skillOk)
    PROVE  Noted
  <1> DEFINE idle == [NoUpdate EXCEPT !.clearIdle = TRUE]
  <1>1. \/ Noop /\ Remember(idle)
        \/ Cast(lock) /\ Remember(Blow(TRUE)) /\ memory.pending # lock
        \/ Bootstrap(lock) /\ Remember(Blow(FALSE))
    BY DEF Attack, SkillSelected
  <1>2. idle \in MemoryUpdate /\ Plain(idle)
    BY DEF NoUpdate, MemoryUpdate, Plain
  <1> HIDE DEF idle
  <1>3. CASE Noop /\ Remember(idle)
    BY <1>2, <1>3, PlainNoted, NoopKind
  <1>4. CASE Cast(lock) /\ Remember(Blow(TRUE)) /\ memory.pending # lock
    <2>1. /\ Blow(TRUE) \in MemoryUpdate /\ ~Blow(TRUE).teleport
          /\ Blow(TRUE).skillOn = lock /\ ~Blow(TRUE).basicDone
      BY DEF Blow, NoUpdate, MemoryUpdate
    <2>2. act'.kind = "Skill" /\ act'.target = lock
      BY <1>4 DEF Cast
    <2> QED
      BY <1>4, <2>1, <2>2 DEF Noted, ScrollNoted, SkillNoted
  <1>5. CASE Bootstrap(lock) /\ Remember(Blow(FALSE))
    <2>1. /\ Blow(FALSE) \in MemoryUpdate /\ ~Blow(FALSE).teleport
          /\ Blow(FALSE).skillOn = NoTarget
      BY DEF Blow, NoUpdate, MemoryUpdate
    <2>2. act'.kind = "Attack"
      BY <1>5 DEF Bootstrap
    <2> QED
      BY <1>5, <2>1, <2>2 DEF Noted, ScrollNoted, SkillNoted
  <1> QED
    BY <1>1, <1>3, <1>4, <1>5

LEMMA ExplorationStuckNoted == ASSUME ExplorationStuck PROVE Noted
  <1> DEFINE u == [NoUpdate EXCEPT !.startIdle = TRUE, !.forgetPositions = TRUE]
  <1>1. u \in MemoryUpdate /\ Plain(u)
    BY DEF NoUpdate, MemoryUpdate, Plain
  <1>2. Recover("RecoveringWalkStuck", u)
    BY DEF ExplorationStuck
  <1> HIDE DEF u
  <1> QED
    BY <1>1, <1>2, RecoverNoted

LEMMA ExploreOnNoted == ASSUME ExploreOn PROVE Noted
  <1> DEFINE u == [NoUpdate EXCEPT !.walk = TRUE, !.startIdle = TRUE, !.countWalk = TRUE]
  <1>1. u \in MemoryUpdate /\ Plain(u)
    BY DEF NoUpdate, MemoryUpdate, Plain
  <1>2. Walk /\ Remember(u)
    BY DEF ExploreOn
  <1> HIDE DEF u
  <1> QED
    BY <1>1, <1>2, PlainNoted, WalkKind

LEMMA NoTargetNoted == ASSUME NoTargetAction PROVE Noted
  <1> DEFINE u == [NoUpdate EXCEPT !.startIdle = TRUE]
  <1>1. u \in MemoryUpdate /\ Plain(u)
    BY DEF NoUpdate, MemoryUpdate, Plain
  <1>2. \/ CanForceScroll /\ Escape
        \/ Noop /\ Remember(u)
        \/ ExplorationStuck
        \/ ExploreOn
    BY DEF NoTargetAction, ScrollForWant
  <1> HIDE DEF u
  <1> QED
    BY <1>1, <1>2, EscapeNoted, PlainNoted, NoopKind, ExplorationStuckNoted, ExploreOnNoted

LEMMA StepNoted == ASSUME IInv, Step PROVE Noted
  <1>1. CASE NotInGame \/ PlayerDied \/ WakeUp \/ EscapeElapsed
    BY <1>1, TransitionNoted DEF NotInGame, PlayerDied, WakeUp, EscapeElapsed
  <1>2. CASE CriticalHp \/ DamageSpike
    BY <1>2, RecoverNoted, PlainNoUpdate DEF CriticalHp, DamageSpike
  <1>3. CASE InactivityEscape
    BY <1>3, EscapeNoted DEF InactivityEscape, WatchdogDue
  <1>4. CASE InterruptRecovery \/ IdleAcquire \/ ExploreAcquire
    <2>1. Acquire(Targets, NoUpdate)
      BY <1>4 DEF InterruptRecovery, IdleAcquire, ExploreAcquire
    <2> QED
      BY <2>1, AcquireNoted, PlainNoUpdate DEF Plain
  <1>5. CASE KeepWaiting
    BY <1>5, PlainNoted, PlainNoUpdate, NoopKind DEF KeepWaiting
  <1>6. CASE RecoveryElapsed
    BY <1>6, TransitionNoted, EscapeNoted DEF RecoveryElapsed
  <1>7. CASE IdleNoTarget \/ ExploreNoTarget
    BY <1>7, NoTargetNoted DEF IdleNoTarget, ExploreNoTarget
  <1>8. CASE ExploreStuck \/ ExploreContinue
    BY <1>8, ExplorationStuckNoted, ExploreOnNoted DEF ExploreStuck, ExploreContinue
  <1>9. CASE AttackDespiteFailure \/ AttackLock \/ AttackVisibleLock
    <2>1. label \in Engaging /\ \E skillOk \in BOOLEAN : Attack(skillOk)
      BY <1>9 DEF AttackDespiteFailure, AttackLock, AttackVisibleLock, Pursuing
    <2> QED
      BY <2>1, AttackNoted DEF IInv, LockHeld
  <1>10. CASE SwitchRefusedLock
    <2> DEFINE u == [Refused EXCEPT !.basicDone = memory.pending = lock]
    <2>1. label \in Engaging /\ LockRefused /\ lock \in Targets
      BY <1>10 DEF SwitchRefusedLock, IInv, LockHeld
    <2>2. u \in MemoryUpdate /\ ~u.teleport /\ u.skillOn = NoTarget
      BY <2>1 DEF Refused, NoUpdate, MemoryUpdate, FailureCauses
    <2>3. Acquire(Targets \ {lock}, u)
      BY <1>10 DEF SwitchRefusedLock
    <2> HIDE DEF u
    <2> QED
      BY <2>1, <2>2, <2>3, AcquireNoted
  <1>11. CASE GiveUpRefusedLock
    <2>1. Refused \in MemoryUpdate /\ Plain(Refused)
      BY <1>11 DEF GiveUpRefusedLock, IInv, LockHeld, Refused, NoUpdate, MemoryUpdate,
                   FailureCauses, Plain
    <2> QED
      BY <1>11, <2>1, RecoverNoted DEF GiveUpRefusedLock
  <1>12. CASE ApproachWalkFailed \/ ApproachExhausted \/ ApproachLock
    <2> DEFINE u == [NoUpdate EXCEPT !.walk = TRUE]
    <2>1. lock \in Targets
      BY <1>12 DEF ApproachWalkFailed, ApproachExhausted, ApproachLock, Pursuing, IInv, LockHeld
    <2>2. Unreachable \in MemoryUpdate /\ Plain(Unreachable)
      BY <2>1 DEF Unreachable, NoUpdate, MemoryUpdate, FailureCauses, Plain
    <2>3. u \in MemoryUpdate /\ Plain(u)
      BY DEF NoUpdate, MemoryUpdate, Plain
    <2>4. (\E l \in Recovering : Recover(l, Unreachable)) \/ (Walk /\ Remember(u))
      BY <1>12, RecoveryLabels DEF ApproachWalkFailed, ApproachExhausted, ApproachLock
    <2> HIDE DEF u
    <2> QED
      BY <2>2, <2>3, <2>4, RecoverNoted, PlainNoted, WalkKind
  <1>13. CASE LockGone
    BY <1>13, TransitionNoted, PlainNoted, PlainNoUpdate, NoopKind DEF LockGone
  <1>14. CASE LoseLock
    BY <1>14, AcquireNoted, NoTargetNoted, PlainNoUpdate DEF LoseLock, Plain
  <1> QED
    BY <1>1, <1>2, <1>3, <1>4, <1>5, <1>6, <1>7, <1>8, <1>9, <1>10, <1>11, <1>12,
       <1>13, <1>14 DEF Step, Settled

-----------------------------------------------------------------------------
(* A retreat.                                                              *)

\* What a step does during a retreat: it waits, in the same state, in a new
\* retreat or in one that has nothing to do with the game.
Withdrawn ==
    /\ Noop
    /\ \/ label' \in Disabled
       \/ label' \in Retreating /\ since' = 0 /\ wait' = RecoveryWait
       \/ Stay

LEMMA RetreatStep ==
    ASSUME Step, label \in Retreating, wait > 0
    PROVE  Withdrawn
  <1>1. CASE NotInGame \/ PlayerDied
    BY <1>1 DEF NotInGame, PlayerDied, Transition, Enter, Withdrawn, Disabled
  <1>2. CASE CriticalHp \/ DamageSpike
    BY <1>2 DEF CriticalHp, DamageSpike, Recover, Enter, RecoveryTime, Withdrawn, Retreating
  <1>3. ~InactivityEscape
    BY DEF InactivityEscape, WatchdogDue, Watched, Retreating, Engaging, Interruptible
  <1>4. label \notin Disabled \cup Interruptible \cup Engaging
                        \cup {"Idle", "Exploring", "Escaping"}
    BY DEF Retreating, Disabled, Interruptible, Engaging
  <1>5. CASE Settled
    <2>1. ~RecoveryElapsed
      BY DEF RecoveryElapsed
    <2>2. ~(WakeUp \/ InterruptRecovery \/ EscapeElapsed \/ IdleAcquire \/ IdleNoTarget
              \/ ExploreAcquire \/ ExploreStuck \/ ExploreContinue \/ ExploreNoTarget)
      BY <1>4
      DEF WakeUp, InterruptRecovery, EscapeElapsed, IdleAcquire, IdleNoTarget,
          ExploreAcquire, ExploreStuck, ExploreContinue, ExploreNoTarget
    <2>3. ~(AttackDespiteFailure \/ SwitchRefusedLock \/ GiveUpRefusedLock
              \/ ApproachWalkFailed \/ Pursuing)
      BY <1>4
      DEF AttackDespiteFailure, SwitchRefusedLock, GiveUpRefusedLock,
          ApproachWalkFailed, Pursuing
    <2>4. ~(LockGone \/ AttackLock \/ ApproachLock \/ ApproachExhausted
              \/ AttackVisibleLock \/ LoseLock)
      BY <2>3
      DEF LockGone, AttackLock, ApproachLock, ApproachExhausted, AttackVisibleLock, LoseLock
    <2>5. KeepWaiting
      BY <1>5, <2>1, <2>2, <2>3, <2>4 DEF Settled
    <2> QED
      BY <2>5 DEF KeepWaiting, Withdrawn
  <1> QED
    BY <1>1, <1>2, <1>3, <1>5 DEF Step

-----------------------------------------------------------------------------
(* What the observer remembers, and what the bot does.                     *)

Remembered == {"scrollAge", "alarm", "lastSkill", "futile"}

\* The observer counts the same ticks as the bot.
SameScrollAge == hist.scrollAge = memory.teleportAge

\* An alarm is a retreat that lasts at least as long.
AlarmIsRetreat ==
    /\ hist.alarm \in Nat
    /\ hist.alarm > 0 => label \in Retreating /\ wait >= hist.alarm

\* The last attack was a skill only if its blow is still due.
SkillIsOwed == hist.lastSkill # NoTarget => memory.pending = hist.lastSkill

\* A tick in progress has given every state an age.
TickHasAged == frame # NoFrame => since > 0

HInv ==
    /\ IInv
    /\ DOMAIN hist = Remembered
    /\ SameScrollAge
    /\ AlarmIsRetreat
    /\ SkillIsOwed
    /\ TickHasAged

LEMMA HInitInvariant == HInit => HInv
  <1> SUFFICES ASSUME HInit PROVE HInv
    OBVIOUS
  <1>1. IInv
    BY InitInvariant DEF HInit
  <1>2. DOMAIN hist = Remembered
    BY DEF HInit, Remembered
  <1>3. /\ hist.scrollAge = ScrollCooldown /\ hist.alarm = 0
        /\ hist.lastSkill = NoTarget
    BY DEF HInit
  <1>4. memory.teleportAge = ScrollCooldown /\ frame = NoFrame
    BY DEF HInit, Init, EmptyMemory
  <1> QED
    BY <1>1, <1>2, <1>3, <1>4
    DEF HInv, SameScrollAge, AlarmIsRetreat, SkillIsOwed, TickHasAged

LEMMA HFrameKeeps == ASSUME HInv, Frame, HFrame PROVE HInv'
  <1>1. IInv'
    BY FrameKeeps DEF HInv
  <1>2. DOMAIN hist' = Remembered
    BY DEF HInv, HFrame
  <1>3. PICK lapse \in Lapses, here, moved, hit \in BOOLEAN :
            /\ frame' = [lapse |-> lapse, here |-> here, moved |-> moved, hit |-> hit]
            /\ memory' = LET m == Elapsed(memory, lapse)
                         IN IF here THEN Sampled(m, moved) ELSE m
            /\ wait' = Left(wait, lapse)
            /\ since' = Older(since, lapse, SinceCap)
    BY DEF Frame
  <1>4. lapse \in Nat /\ lapse > 0
    BY StepAssumption
  <1>5. /\ hist'.scrollAge = Older(hist.scrollAge, lapse, ScrollCooldown)
        /\ hist'.alarm = Left(hist.alarm, lapse)
        /\ hist'.lastSkill = hist.lastSkill
    BY <1>3 DEF HFrame, HInv, Remembered
  <1>6. memory'.teleportAge = Older(memory.teleportAge, lapse, ScrollCooldown)
        /\ memory'.pending = memory.pending
    <2> DEFINE m == Elapsed(memory, lapse)
    <2>1. m \in TacticalMemory
      BY <1>4, ElapsedType DEF HInv, IInv, TypeOK
    <2>2. /\ m.teleportAge = Older(memory.teleportAge, lapse, ScrollCooldown)
          /\ m.pending = memory.pending
      BY DEF HInv, IInv, TypeOK, Elapsed, TacticalMemory
    <2>3. memory' = IF here THEN Sampled(m, moved) ELSE m
      BY <1>3
    <2> HIDE DEF m
    <2>4. memory'.teleportAge = m.teleportAge /\ memory'.pending = m.pending
      BY <2>1, <2>3 DEF Sampled, TacticalMemory
    <2> QED
      BY <2>2, <2>4
  <1>7. SameScrollAge' /\ SkillIsOwed'
    BY <1>5, <1>6 DEF HInv, SameScrollAge, SkillIsOwed
  <1>8. AlarmIsRetreat'
    <2>1. wait \in Nat /\ label' = label
      BY DEF HInv, IInv, TypeOK, Frame
    <2> QED
      BY <1>3, <1>4, <1>5, <2>1 DEF HInv, AlarmIsRetreat, Left
  <1>9. TickHasAged'
    <2>1. since \in 0..SinceCap /\ SinceCap \in Nat /\ SinceCap > 0
      BY MemoryAssumption, StepAssumption DEF HInv, IInv, TypeOK, SinceCap
    <2> QED
      BY <1>3, <1>4, <2>1 DEF TickHasAged, Older, Never
  <1> QED
    BY <1>1, <1>2, <1>7, <1>8, <1>9 DEF HInv

\* What a step does to the observer's memory.
LEMMA HStepHistory ==
    ASSUME DOMAIN hist = Remembered, HStep
    PROVE  /\ DOMAIN hist' = Remembered
           /\ hist'.scrollAge = IF act'.kind = "Scroll" THEN 0 ELSE hist.scrollAge
           /\ hist'.alarm = IF label' \in Disabled THEN 0
                            ELSE IF label' \in Retreating /\ since' = 0 THEN RecoveryWait
                            ELSE hist.alarm
           /\ hist'.lastSkill = IF act'.kind = "Skill" THEN act'.target
                                ELSE IF act'.kind = "Attack" \/ GivenUp THEN NoTarget
                                ELSE hist.lastSkill
  BY DEF HStep, Remembered

\* A retreat begins only with its full time before it.
LEMMA RetreatBegins ==
    ASSUME Step, label' \in Retreating
    PROVE  (since' = 0 /\ wait' = RecoveryWait) \/ Stay
  <1>1. label' \notin Disabled \cup Interruptible \cup Engaging
                         \cup {"Idle", "Exploring", "Escaping"}
    BY DEF Retreating, Disabled, Interruptible, Engaging
  <1>2. CASE CriticalHp \/ DamageSpike
    BY <1>2 DEF CriticalHp, DamageSpike, Recover, Enter, RecoveryTime
  <1>3. ~Escape /\ \A l \in Disabled \cup {"Idle"} : ~Transition(l)
    BY <1>1 DEF Escape, Transition, Enter
  <1>4. \A l \in Interruptible : \A t, w : ~Enter(l, t, w)
    BY <1>1 DEF Enter
  <1>5. \A others, u : ~Acquire(others, u)
    BY <1>1 DEF Acquire, Engage, Enter, Engaging
  <1>6. \A skillOk : ~Attack(skillOk)
    BY <1>1 DEF Attack, Enter, Engaging
  <1>7. ~ExplorationStuck /\ ~ExploreOn
    <2>1. ~ExplorationStuck
      BY <1>4 DEF ExplorationStuck, Recover, Interruptible
    <2>2. ~ExploreOn
      BY <1>1 DEF ExploreOn, Enter
    <2> QED
      BY <2>1, <2>2
  <1>8. NoTargetAction => Stay
    BY <1>3, <1>7 DEF NoTargetAction
  <1>9. ~(NotInGame \/ PlayerDied \/ InactivityEscape \/ WakeUp \/ EscapeElapsed)
    BY <1>3 DEF NotInGame, PlayerDied, InactivityEscape, WakeUp, EscapeElapsed, Disabled
  <1>10. CASE Settled
    <2>1. ~(InterruptRecovery \/ RecoveryElapsed \/ IdleAcquire \/ ExploreAcquire
              \/ ExploreStuck \/ ExploreContinue)
      BY <1>3, <1>5, <1>7
      DEF InterruptRecovery, RecoveryElapsed, IdleAcquire, ExploreAcquire, ExploreStuck,
          ExploreContinue
    <2>2. ~(AttackDespiteFailure \/ SwitchRefusedLock \/ AttackLock \/ AttackVisibleLock)
      BY <1>5, <1>6 DEF AttackDespiteFailure, SwitchRefusedLock, AttackLock, AttackVisibleLock
    <2>3. ~(GiveUpRefusedLock \/ ApproachWalkFailed \/ ApproachExhausted \/ ApproachLock)
      <3>1. \A l \in Interruptible : \A u : ~Recover(l, u)
        BY <1>4 DEF Recover
      <3>2. \A t, w : ~Enter("EngagingApproach", t, w)
        BY <1>1 DEF Enter, Engaging
      <3> QED
        BY <3>1, <3>2
        DEF GiveUpRefusedLock, ApproachWalkFailed, ApproachExhausted, ApproachLock,
            Interruptible
    <2>4. KeepWaiting \/ IdleNoTarget \/ ExploreNoTarget \/ LockGone \/ LoseLock
      BY <1>9, <1>10, <2>1, <2>2, <2>3 DEF Settled
    <2> QED
      BY <1>3, <1>5, <1>8, <2>4
      DEF KeepWaiting, IdleNoTarget, ExploreNoTarget, LockGone, LoseLock
  <1> QED
    BY <1>2, <1>9, <1>10 DEF Step

LEMMA HStepKeeps == ASSUME HInv, Step, HStep PROVE HInv'
  <1>1. IInv'
    BY StepKeeps DEF HInv
  <1>2. PICK u \in MemoryUpdate : Remember(u) /\ ScrollNoted(u) /\ SkillNoted(u)
    BY StepNoted DEF HInv, Noted
  <1>3. DOMAIN hist = Remembered
    BY DEF HInv
  <1>4. /\ memory'.teleportAge = IF u.teleport THEN 0 ELSE memory.teleportAge
        /\ memory'.pending = IF u.basicDone THEN NoTarget
                             ELSE IF u.skillOn = NoTarget THEN memory.pending ELSE u.skillOn
    BY <1>2 DEF Remember, Applied, HInv, IInv, TypeOK, TacticalMemory
  <1>5. SameScrollAge'
    BY <1>2, <1>3, <1>4, HStepHistory DEF ScrollNoted, HInv, SameScrollAge
  <1>6. SkillIsOwed'
    <2>1. CASE act'.kind = "Skill"
      BY <1>2, <1>3, <1>4, <2>1, HStepHistory, MemoryAssumption DEF SkillNoted, SkillIsOwed
    <2>2. CASE act'.kind = "Attack" \/ GivenUp
      <3>1. hist'.lastSkill = NoTarget \/ act'.kind = "Skill"
        BY <1>3, <2>2, HStepHistory
      <3> QED
        BY <2>1, <3>1 DEF SkillIsOwed
    <2>3. CASE act'.kind \notin {"Skill", "Attack"} /\ ~GivenUp
      <3>1. hist'.lastSkill = hist.lastSkill
        BY <1>3, <2>3, HStepHistory
      <3>2. memory'.pending = memory.pending
        BY <1>2, <1>4, <2>3 DEF SkillNoted
      <3> QED
        BY <3>1, <3>2 DEF HInv, SkillIsOwed
    <2> QED
      BY <2>1, <2>2, <2>3
  <1>7. AlarmIsRetreat'
    <2>1. since > 0 /\ hist.alarm \in Nat /\ RecoveryWait \in Nat
      BY StepAssumption DEF HInv, AlarmIsRetreat, TickHasAged, Step
    <2>2. hist'.alarm = IF label' \in Disabled THEN 0
                        ELSE IF label' \in Retreating /\ since' = 0 THEN RecoveryWait
                        ELSE hist.alarm
      BY <1>3, HStepHistory
    <2>3. hist'.alarm \in Nat
      BY <2>1, <2>2
    <2>4. CASE label' \in Retreating /\ since' = 0
      <3>1. wait' = RecoveryWait
        BY <2>1, <2>4, RetreatBegins DEF Stay
      <3> QED
        BY <2>1, <2>2, <2>3, <2>4, <3>1 DEF AlarmIsRetreat
    <2>5. CASE label' \in Disabled
      BY <2>2, <2>5 DEF AlarmIsRetreat
    <2>6. CASE label' \notin Disabled /\ ~(label' \in Retreating /\ since' = 0)
      <3>1. hist'.alarm = hist.alarm
        BY <2>2, <2>6
      <3>2. ASSUME hist.alarm > 0 PROVE label' \in Retreating /\ wait' >= hist.alarm
        <4>1. label \in Retreating /\ wait >= hist.alarm
          BY <3>2 DEF HInv, AlarmIsRetreat
        <4>2. wait > 0
          BY <2>1, <3>2, <4>1 DEF HInv, IInv, TypeOK
        <4>3. Stay
          BY <2>6, <4>1, <4>2, RetreatStep DEF Withdrawn
        <4> QED
          BY <4>1, <4>3 DEF Stay
      <3> QED
        BY <2>3, <3>1, <3>2 DEF AlarmIsRetreat
    <2> QED
      BY <2>4, <2>5, <2>6
  <1>8. TickHasAged'
    BY DEF Step, TickHasAged
  <1>9. (DOMAIN hist = Remembered)'
    BY <1>3, HStepHistory
  <1> QED
    BY <1>1, <1>5, <1>6, <1>7, <1>8, <1>9 DEF HInv

LEMMA HStutterKeeps == ASSUME HInv, UNCHANGED hvars PROVE HInv'
  <1>1. IInv'
    BY StutterKeeps DEF HInv, hvars
  <1> QED
    BY <1>1
    DEF HInv, hvars, vars, SameScrollAge, AlarmIsRetreat, SkillIsOwed, TickHasAged

\* What the observer remembers fits the machine in every reachable state: the
\* scroll's age, the alarm, the skill owed a blow and the aging of a tick.
THEOREM HistoryInvariant == HSpec => []HInv
  <1>1. HInit => HInv
    BY HInitInvariant
  <1>2. HInv /\ [HNext]_hvars => HInv'
    BY HFrameKeeps, HStepKeeps, HStutterKeeps DEF HNext
  <1> QED
    BY <1>1, <1>2, PTL DEF HSpec

-----------------------------------------------------------------------------
(* The theorems.                                                           *)

\* No two scrolls are closer to each other than TELEPORT_SCROLL_COOLDOWN,
\* whichever ways of step.rs ask for them.
THEOREM ScrollsKeepTheirDistance == HSpec => ScrollsAreSpaced
  <1>1. ASSUME HInv, Step, act'.kind = "Scroll" PROVE hist.scrollAge >= ScrollCooldown
    BY <1>1, StepNoted DEF HInv, Noted, ScrollNoted, SameScrollAge
  <1>2. ASSUME Frame PROVE act'.kind # "Scroll"
    BY <1>2 DEF Frame, NoAction
  <1>3. HInv /\ [HNext]_hvars
            => [act'.kind = "Scroll" => hist.scrollAge >= ScrollCooldown]_hvars
    BY <1>1, <1>2 DEF HNext
  <1> QED
    BY HistoryInvariant, <1>3, PTL DEF HSpec, ScrollsAreSpaced

\* Nothing interrupts a retreat but the end of the game, death, or another one.
THEOREM RetreatsArePassive == HSpec => RetreatIsPassive
  <1>1. ASSUME HInv, Step, hist.alarm > 0 PROVE act'.kind \in {"none", "Wait"}
    <2>1. label \in Retreating /\ wait > 0
      BY <1>1 DEF HInv, IInv, TypeOK, AlarmIsRetreat
    <2> QED
      BY <1>1, <2>1, RetreatStep DEF Withdrawn, Noop
  <1>2. ASSUME Frame PROVE act'.kind \in {"none", "Wait"}
    BY <1>2 DEF Frame, NoAction
  <1>3. HInv /\ [HNext]_hvars
            => [hist.alarm > 0 => act'.kind \in {"none", "Wait"}]_hvars
    BY <1>1, <1>2 DEF HNext
  <1> QED
    BY HistoryInvariant, <1>3, PTL DEF HSpec, RetreatIsPassive

\* A target that is not given up never meets two skills without a blow between.
THEOREM SkillsAlternate == HSpec => NoSkillTwiceInARow
  <1>1. ASSUME HInv, Step, act'.kind = "Skill" PROVE hist.lastSkill # act'.target
    BY <1>1, StepNoted, MemoryAssumption DEF HInv, Noted, SkillNoted, SkillIsOwed
  <1>2. ASSUME Frame PROVE act'.kind # "Skill"
    BY <1>2 DEF Frame, NoAction
  <1>3. HInv /\ [HNext]_hvars
            => [act'.kind = "Skill" => hist.lastSkill # act'.target]_hvars
    BY <1>1, <1>2 DEF HNext
  <1> QED
    BY HistoryInvariant, <1>3, PTL DEF HSpec, NoSkillTwiceInARow

-----------------------------------------------------------------------------
(* Blows without damage.                                                   *)

\* The watch is on the lock and younger by at most the tick in which it began.
Counted == watch.target = lock /\ hist.futile =< watch.age + MaxLapse

\* Blows are counted on the lock only.  The watch counts them too, unless the lock
\* was just refused: then the next step leaves it or has seen damage.
FutileKnown ==
    /\ hist.futile \in Nat
    /\ label # "EngagingAttack" => hist.futile = 0
    /\ label = "EngagingAttack" =>
         IF frame = NoFrame
         THEN \/ hist.futile = 0 \/ Counted
              \/ LockRefused /\ hist.futile < NoProgress + MaxLapse
         ELSE Counted \/ (LockRefused /\ ~frame.hit)

FInv == HInv /\ FutileKnown

LEMMA LongestLapse == MaxLapse \in Nat /\ \A lapse \in Lapses : lapse =< MaxLapse
  <1>1. MaxLapse \in Lapses /\ \A lapse \in Lapses : MaxLapse >= lapse
    BY LapseAssumption DEF MaxLapse, Max
  <1> QED
    BY <1>1, StepAssumption

LEMMA FutileBegins == ASSUME HInit PROVE FutileKnown
  BY DEF HInit, Init, FutileKnown

LEMMA FutileFrame == ASSUME FInv, Frame, HFrame PROVE FutileKnown'
  <1>1. PICK lapse \in Lapses, hit \in BOOLEAN :
           /\ frame'.lapse = lapse /\ frame'.hit = hit /\ frame' # NoFrame
           /\ hit => label = "EngagingAttack"
           /\ WatchBeforeTick(lapse, hit)
    <2>1. PICK lapse \in Lapses, here, moved, hit \in BOOLEAN :
             /\ frame' = [lapse |-> lapse, here |-> here, moved |-> moved, hit |-> hit]
             /\ hit => label = "EngagingAttack"
             /\ WatchBeforeTick(lapse, hit)
      BY DEF Frame
    <2>2. lapse # 0
      BY StepAssumption
    <2>3. frame'.lapse = lapse /\ frame'.hit = hit /\ frame' # NoFrame
      BY <2>1, <2>2 DEF NoFrame
    <2> QED
      BY <2>1, <2>3
  <1>2. /\ lapse \in Nat /\ lapse =< MaxLapse /\ MaxLapse \in Nat /\ NoProgress \in Nat
        /\ label' = label /\ lock' = lock /\ frame = NoFrame
    BY LongestLapse, StepAssumption DEF Frame
  <1>3. hist'.futile = IF label # "EngagingAttack" \/ hit THEN 0 ELSE hist.futile + lapse
    BY <1>1 DEF HFrame, FInv, HInv, Remembered
  <1>4. hist.futile \in Nat
    BY DEF FInv, FutileKnown
  <1>5. watch.age \in Nat /\ watch.target \in Targets \cup {NoTarget}
    BY <1>2 DEF FInv, HInv, IInv, TypeOK
  <1>6. CASE label # "EngagingAttack"
    BY <1>1, <1>2, <1>3, <1>4, <1>6 DEF FutileKnown
  <1>7. CASE label = "EngagingAttack"
    <2>1. CASE watch.target # lock \/ hit
      <3>1. watch' = [target |-> lock, age |-> 0] /\ outcome' = outcome
        BY <1>1, <1>7, <2>1 DEF WatchBeforeTick
      <3>2. CASE hit \/ hist.futile = 0
        <4>1. Counted'
          BY <1>2, <1>3, <1>4, <1>7, <3>1, <3>2 DEF Counted, MaxLapse
        <4> QED
          BY <1>1, <1>2, <1>3, <1>4, <1>7, <4>1 DEF FutileKnown
      <3>3. CASE ~hit /\ hist.futile # 0
        <4>1. LockRefused
          BY <1>2, <1>7, <2>1, <3>3 DEF FInv, FutileKnown, Counted
        <4>2. LockRefused'
          BY <1>2, <3>1, <4>1 DEF LockRefused
        <4> QED
          BY <1>1, <1>2, <1>3, <1>4, <1>7, <3>3, <4>2 DEF FutileKnown
      <3> QED
        BY <3>2, <3>3
    <2>2. CASE watch.target = lock /\ ~hit /\ watch.age + lapse >= NoProgress
      <3>1. outcome' = [kind |-> "AttackNoProgress", target |-> lock]
        BY <1>1, <1>7, <2>2 DEF WatchBeforeTick
      <3>2. LockRefused'
        BY <1>2, <3>1 DEF LockRefused
      <3> QED
        BY <1>1, <1>2, <1>3, <1>4, <1>7, <2>2, <3>2 DEF FutileKnown
    <2>3. CASE watch.target = lock /\ ~hit /\ ~(watch.age + lapse >= NoProgress)
      <3>1. watch' = [watch EXCEPT !.age = watch.age + lapse] /\ outcome' = outcome
        BY <1>1, <1>7, <2>3 DEF WatchBeforeTick
      <3>2. watch'.age = watch.age + lapse /\ watch'.target = lock
        BY <2>3, <3>1 DEF FInv, HInv, IInv, TypeOK
      <3>3. hist.futile = 0 \/ Counted \/ LockRefused
        BY <1>2, <1>7 DEF FInv, FutileKnown
      <3>4. LockRefused => LockRefused'
        BY <1>2, <3>1 DEF LockRefused
      <3>5. hist.futile = 0 \/ Counted => Counted'
        BY <1>2, <1>3, <1>4, <1>5, <1>7, <2>3, <3>2 DEF Counted, MaxLapse
      <3> QED
        BY <1>1, <1>2, <1>3, <1>4, <1>7, <2>3, <3>3, <3>4, <3>5 DEF FutileKnown
    <2> QED
      BY <2>1, <2>2, <2>3
  <1> QED
    BY <1>6, <1>7

\* An attack on the lock, or waiting for one, leaves the watch alone, unless the
\* attack could not be sent: then the lock is refused.
Watching ==
    \/ watch' = watch
    \/ watch.target = lock /\ outcome' = [kind |-> "AttackFailed", target |-> lock]

LEMMA AttackWatches ==
    ASSUME NEW skillOk \in BOOLEAN, Attack(skillOk), watch.target = lock
    PROVE  Watching
  <1>1. Noop \/ Cast(lock) \/ Bootstrap(lock)
    BY DEF Attack
  <1>2. CASE Noop
    BY <1>2 DEF Noop, Watching
  <1>3. CASE Cast(lock)
    BY <1>3 DEF Cast, WatchAfterAttack, Watching
  <1>4. CASE Bootstrap(lock)
    BY <1>4 DEF Bootstrap, WatchAfterAttack, Watching
  <1> QED
    BY <1>1, <1>2, <1>3, <1>4

\* What keeps the lock under attack: it is not refused, or it was seen to be hurt.
LEMMA LockKept ==
    ASSUME IInv, Step, label = "EngagingAttack", label' = "EngagingAttack", lock' = lock,
           Counted \/ (LockRefused /\ ~frame.hit)
    PROVE  Counted /\ Watching
  <1>1. ~(NotInGame \/ PlayerDied \/ CriticalHp \/ DamageSpike \/ InactivityEscape)
    BY DEF NotInGame, PlayerDied, CriticalHp, DamageSpike, InactivityEscape, Transition,
       Recover, Escape, Enter
  <1>2. ~(WakeUp \/ InterruptRecovery \/ KeepWaiting \/ RecoveryElapsed \/ EscapeElapsed
            \/ IdleAcquire \/ IdleNoTarget \/ ExploreAcquire \/ ExploreStuck
            \/ ExploreContinue \/ ExploreNoTarget)
    BY DEF WakeUp, InterruptRecovery, KeepWaiting, RecoveryElapsed, EscapeElapsed, IdleAcquire,
       IdleNoTarget, ExploreAcquire, ExploreStuck, ExploreContinue, ExploreNoTarget,
       Disabled, Interruptible, Retreating, Recovering
  <1>3. \A u : ~Acquire(Targets \ {lock}, u)
    BY DEF Acquire, Engage, Enter
  <1>4. \A l, u : Recover(l, u) => l = "EngagingAttack"
    BY DEF Recover, Enter
  <1>5. ~(SwitchRefusedLock \/ GiveUpRefusedLock \/ ApproachWalkFailed \/ ApproachLock
            \/ ApproachExhausted)
    <2>1. \A u : ~(Recover("RecoveringAttackFailed", u) \/ Recover("RecoveringWalkStuck", u)
                     \/ Recover("RecoveringNoReachableTarget", u))
      BY <1>4
    <2>2. \A t, w : ~Enter("EngagingApproach", t, w)
      BY DEF Enter
    <2> QED
      BY <1>3, <2>1, <2>2 DEF SwitchRefusedLock, GiveUpRefusedLock, ApproachWalkFailed,
         ApproachLock, ApproachExhausted
  <1>6. AttackDespiteFailure \/ LockGone \/ AttackLock \/ AttackVisibleLock \/ LoseLock
    BY <1>1, <1>2, <1>5 DEF Step, Settled
  <1>7. CASE AttackDespiteFailure \/ AttackLock \/ AttackVisibleLock
    <2>1. Counted /\ \E skillOk \in BOOLEAN : Attack(skillOk)
      BY <1>7 DEF AttackDespiteFailure, AttackLock, AttackVisibleLock, Pursuing, DamageSeen
    <2> QED
      BY <2>1, AttackWatches DEF Counted
  <1>8. CASE LockGone
    <2>1. Pursuing /\ Noop
      BY <1>8 DEF LockGone, Transition
    <2> QED
      BY <2>1 DEF Pursuing, Noop, Watching
  <1>9. CASE LoseLock
    <2>1. Pursuing /\ NoTargetAction
      BY <1>3, <1>9 DEF LoseLock
    <2>2. ~Escape /\ ~ExplorationStuck /\ ~ExploreOn
      BY <1>4 DEF Escape, ExplorationStuck, ExploreOn, Enter
    <2>3. Noop
      BY <2>1, <2>2 DEF NoTargetAction
    <2> QED
      BY <2>1, <2>3 DEF Pursuing, Noop, Watching
  <1> QED
    BY <1>6, <1>7, <1>8, <1>9

LEMMA FutileStep == ASSUME FInv, Step, HStep PROVE FutileKnown'
  <1>1. hist'.futile = IF label' = "EngagingAttack" /\ lock' = lock THEN hist.futile ELSE 0
    BY DEF HStep, FInv, HInv, Remembered
  <1>2. frame # NoFrame /\ frame' = NoFrame /\ hist.futile \in Nat
    BY DEF Step, FInv, FutileKnown
  <1>3. CASE hist'.futile = 0
    BY <1>2, <1>3 DEF FutileKnown
  <1>4. CASE hist'.futile # 0
    <2>1. /\ label = "EngagingAttack" /\ label' = "EngagingAttack" /\ lock' = lock
          /\ hist'.futile = hist.futile
      BY <1>1, <1>4 DEF FInv, FutileKnown
    <2>2. Counted /\ Watching
      <3>1. Counted \/ (LockRefused /\ ~frame.hit)
        BY <1>2, <2>1 DEF FInv, FutileKnown
      <3> QED
        BY <2>1, <3>1, LockKept DEF FInv, HInv
    <2>3. watch.age \in 0 .. NoProgress - 1 /\ NoProgress \in Nat /\ MaxLapse \in Nat
      BY StepAssumption, LongestLapse DEF FInv, HInv, IInv, TypeOK
    <2>4. CASE watch' = watch
      <3>1. Counted'
        BY <2>1, <2>2, <2>4 DEF Counted, MaxLapse
      <3> QED
        BY <1>2, <2>1, <3>1 DEF FutileKnown
    <2>5. CASE outcome' = [kind |-> "AttackFailed", target |-> lock]
      <3>1. LockRefused'
        BY <2>1, <2>5 DEF LockRefused
      <3>2. hist.futile < NoProgress + MaxLapse
        BY <1>2, <2>2, <2>3 DEF Counted
      <3>3. hist'.futile < NoProgress + MaxLapse'
        BY <2>1, <3>2 DEF MaxLapse
      <3> QED
        BY <1>2, <2>1, <3>1, <3>3 DEF FutileKnown
    <2> QED
      BY <2>2, <2>4, <2>5 DEF Watching
  <1> QED
    BY <1>3, <1>4

\* Whatever the attacks return and however long a tick is, a lock that shows no
\* sign of damage is not attacked for longer than ATTACK_NO_PROGRESS_DURATION and
\* the longest tick.
THEOREM FutileAttacksEnd == HSpec => []FutileAttackEnds
  <1>1. HInit => FInv
    BY HInitInvariant, FutileBegins DEF FInv
  <1>2. FInv /\ [HNext]_hvars => FInv'
    <2>1. ASSUME FInv, UNCHANGED hvars PROVE FutileKnown'
      BY <2>1 DEF FInv, FutileKnown, Counted, LockRefused, MaxLapse, hvars, vars
    <2> QED
      BY <2>1, FutileFrame, FutileStep, HFrameKeeps, HStepKeeps, HStutterKeeps DEF FInv, HNext
  <1>3. FInv => FutileAttackEnds
    <2> SUFFICES ASSUME FInv, frame = NoFrame PROVE hist.futile < NoProgress + MaxLapse
      BY DEF FutileAttackEnds
    <2>1. watch.age \in 0 .. NoProgress - 1 /\ NoProgress \in Nat \ {0} /\ MaxLapse \in Nat
      BY StepAssumption, LongestLapse DEF FInv, HInv, IInv, TypeOK
    <2>2. hist.futile \in Nat
      BY DEF FInv, FutileKnown
    <2>3. \/ hist.futile = 0 \/ hist.futile =< watch.age + MaxLapse
          \/ hist.futile < NoProgress + MaxLapse
      BY DEF FInv, FutileKnown, Counted
    <2> QED
      BY <2>1, <2>2, <2>3
  <1> QED
    BY <1>1, <1>2, <1>3, PTL DEF HSpec

-----------------------------------------------------------------------------
(***************************************************************************)
(* What WalkInput keeps for every heartbeat and every length of the queue.  *)
(* The queue first.                                                        *)
(***************************************************************************)

\* A sequence that is not empty: what its head, its tail and its end are.
LEMMA NonEmpty ==
    ASSUME NEW S, NEW s \in Seq(S), s # <<>>
    PROVE  /\ Len(s) \in Nat \ {0}
           /\ Head(s) = s[1] /\ Head(s) \in S
           /\ Tail(s) \in Seq(S) /\ Len(Tail(s)) = Len(s) - 1
<1>1. Len(s) \in Nat /\ Len(s) # 0
  BY EmptySeq
<1>2. QED
  BY <1>1, HeadTailProperties

\* What follows the head of a sequence ends as the sequence does.
LEMMA TailKeepsLast ==
    ASSUME NEW S, NEW s \in Seq(S), s # <<>>
    PROVE  IF Tail(s) = <<>> THEN s[Len(s)] = Head(s)
                             ELSE Tail(s)[Len(Tail(s))] = s[Len(s)]
<1>1. CASE Tail(s) = <<>>
  <2>1. Len(Tail(s)) = 0
    BY <1>1, NonEmpty, EmptySeq
  <2>2. Len(s) = 1
    BY <2>1, NonEmpty
  <2>3. QED BY <1>1, <2>2, NonEmpty
<1>2. CASE Tail(s) # <<>>
  <2>1. Len(Tail(s)) \in 1..Len(Tail(s)) /\ Len(Tail(s)) + 1 = Len(s)
    BY <1>2, NonEmpty, NonEmpty
  <2>2. Tail(s)[Len(Tail(s))] = s[Len(Tail(s)) + 1]
    BY <2>1, HeadTailProperties
  <2>3. QED BY <1>2, <2>1, <2>2
<1>3. QED
  BY <1>1, <1>2

\* A message is posted at the end of the queue.
LEMMA PostsAppends ==
    ASSUME InputTypeOK, NEW m \in {"down", "up"}, Posts(m)
    PROVE  /\ queue' \in Seq({"down", "up"}) /\ Len(queue') =< MaxQueue
           /\ queue' # <<>> /\ queue'[Len(queue')] = m
<1>1. queue \in Seq({"down", "up"}) /\ queue' = Append(queue, m) /\ Len(queue) < MaxQueue
  BY DEF InputTypeOK, Posts
<1>2. /\ queue' \in Seq({"down", "up"}) /\ queue' # <<>>
      /\ Len(queue') = Len(queue) + 1 /\ queue'[Len(queue) + 1] = m
  BY <1>1, AppendProperties
<1>3. Len(queue) \in Nat /\ MaxQueue \in Nat
  BY <1>1, EmptySeq, InputAssumption
<1>4. QED
  BY <1>1, <1>2, <1>3

\* The game takes a message from the queue.
LEMMA TakesFirst ==
    ASSUME InputTypeOK, queue # <<>>, queue' = Tail(queue)
    PROVE  queue' \in Seq({"down", "up"}) /\ Len(queue') =< MaxQueue
<1>1. queue' \in Seq({"down", "up"}) /\ Len(queue') = Len(queue) - 1
  BY NonEmpty DEF InputTypeOK
<1>2. Len(queue) \in Nat /\ Len(queue) =< MaxQueue /\ MaxQueue \in Nat
  BY NonEmpty, InputAssumption DEF InputTypeOK
<1>3. QED
  BY <1>1, <1>2

\* What was accepted last decides what the game's button will be.
LEMMA LastDecides ==
    ASSUME InputTypeOK, NEW m \in {"down", "up"}, Posts(m)
    PROVE  Promised' <=> m = "down"
BY PostsAppends DEF Promised

\* A message that is delivered does not change what is promised.
LEMMA DeliveryKeepsPromise ==
    ASSUME InputTypeOK, Delivered
    PROVE  Promised' <=> Promised
<1>1. queue # <<>> /\ queue' = Tail(queue) /\ button' = (Head(queue) = "down")
  BY DEF Delivered
<1>2. IF queue' = <<>> THEN queue[Len(queue)] = Head(queue)
                       ELSE queue'[Len(queue')] = queue[Len(queue)]
  BY <1>1, TailKeepsLast DEF InputTypeOK
<1>3. QED
  BY <1>1, <1>2, Zenon DEF Promised

-----------------------------------------------------------------------------
\* The steps of the specification keep the types.
LEMMA InputTypesKept == InputTypeOK /\ [InputNext]_inputVars => InputTypeOK'
<1> SUFFICES ASSUME InputTypeOK, [InputNext]_inputVars PROVE InputTypeOK'
  OBVIOUS
<1> DEFINE QueueOK == queue \in Seq({"down", "up"}) /\ Len(queue) =< MaxQueue
           RestOK  == /\ held \in BOOLEAN /\ button \in BOOLEAN
                      /\ beat \in BOOLEAN /\ fault \in BOOLEAN
                      /\ downAge \in 0..Heartbeat
                      /\ call \in {"walk", "failed walk", "release", "none"}
<1>1. QueueOK /\ RestOK
  BY DEF InputTypeOK
<1>2. InputTypeOK' <=> QueueOK' /\ RestOK'
  BY DEF InputTypeOK
<1>3. ASSUME UNCHANGED queue PROVE QueueOK'
  BY <1>1, <1>3
<1>4. ASSUME NEW m \in {"down", "up"}, Posts(m) PROVE QueueOK'
  BY <1>4, PostsAppends
<1>5. ASSUME queue # <<>>, queue' = Tail(queue) PROVE QueueOK'
  BY <1>5, TakesFirst
<1>6. QueueOK'
  BY <1>3, <1>4, <1>5 DEF InputNext, InputTick, Pump, inputVars, WalkRefused, NotPosted, WalkPresses,
     WalkDrags, Release, Pause, Delivered, Missed, PlayerClicks
<1>7. Aged \in 0..Heartbeat /\ 0 \in 0..Heartbeat /\ Heartbeat \in 0..Heartbeat
  <2>1. Heartbeat \in Nat /\ downAge \in 0..Heartbeat
    BY <1>1, InputAssumption
  <2>2. QED BY <2>1 DEF Aged
<1>8. ASSUME NEW m, Posts(m) PROVE fault' \in BOOLEAN
  BY <1>8 DEF Posts
<1> HIDE DEF QueueOK
<1>9. RestOK'
  <2> USE <1>1, <1>7, <1>8 DEF Calls, NotPosted
  <2>1. CASE WalkRefused
    BY <2>1 DEF WalkRefused
  <2>2. CASE WalkPresses
    BY <2>2 DEF WalkPresses, CursorMoved
  <2>3. CASE WalkDrags
    BY <2>3 DEF WalkDrags, CursorMoved
  <2>4. CASE Release
    BY <2>4 DEF Release
  <2>5. CASE Pause
    BY <2>5 DEF Pause
  <2>6. CASE Delivered
    <3>1. button' \in BOOLEAN
      BY <2>6 DEF Delivered
    <3>2. QED BY <2>6, <3>1 DEF Delivered
  <2>7. CASE Missed
    BY <2>7 DEF Missed
  <2>8. CASE PlayerClicks
    BY <2>8 DEF PlayerClicks
  <2>9. CASE UNCHANGED inputVars
    BY <2>9 DEF inputVars
  <2>10. QED
    BY <2>1, <2>2, <2>3, <2>4, <2>5, <2>6, <2>7, <2>8, <2>9 DEF InputNext, InputTick, Pump
<1>10. QED
  BY <1>2, <1>6, <1>9

\* Every variable of WalkInput stays in its type, the queue within its bound.
THEOREM InputTyped == InputSpec => []InputTypeOK
<1>1. InputInit => InputTypeOK
  <2> SUFFICES ASSUME InputInit PROVE InputTypeOK
    OBVIOUS
  <2>1. <<>> \in Seq({"down", "up"}) /\ Len(<<>>) = 0
    BY EmptySeq
  <2>2. Heartbeat \in Nat \ {0} /\ MaxQueue \in Nat \ {0}
    BY InputAssumption
  <2>3. queue \in Seq({"down", "up"}) /\ Len(queue) =< MaxQueue
    BY <2>1, <2>2 DEF InputInit
  <2>4. downAge \in 0..Heartbeat
    BY <2>2 DEF InputInit
  <2>5. QED
    BY <2>3, <2>4 DEF InputInit, InputTypeOK
<1>2. QED
  BY <1>1, InputTypesKept, PTL DEF InputSpec

-----------------------------------------------------------------------------
\* As long as nothing goes wrong after it, the last message the game accepted
\* leaves its button as MOUSE_HELD says (walk_release and
\* click_hold_at_player_anchor_pixel), however many messages are under way.
THEOREM HeldIsWhatWasPromised == InputSpec => []HeldIsPromised
<1>1. InputInit => HeldIsPromised
  BY DEF InputInit, HeldIsPromised, Promised
<1>2. ASSUME InputTypeOK, HeldIsPromised, [InputNext]_inputVars PROVE HeldIsPromised'
  <2> USE <1>2 DEF HeldIsPromised
  <2>1. ASSUME UNCHANGED <<queue, button, held, fault>> PROVE HeldIsPromised'
    BY <2>1 DEF Promised
  <2>2. CASE WalkRefused
    BY <2>2 DEF WalkRefused, NotPosted
  <2>3. CASE WalkPresses
    <3>1. Posts("down") /\ held'
      BY <2>3 DEF WalkPresses
    <3>2. QED BY <3>1, LastDecides
  <2>4. CASE WalkDrags
    BY <2>1, <2>4 DEF WalkDrags
  <2>5. CASE Release
    <3>1. CASE held /\ NotPosted
      BY <3>1 DEF NotPosted
    <3>2. CASE held /\ Posts("up")
      <4>1. ~held'
        BY <2>5 DEF Release
      <4>2. ~Promised'
        BY <3>2, LastDecides
      <4>3. QED BY <4>1, <4>2
    <3>3. CASE ~held
      <4>1. UNCHANGED <<queue, button, held, fault>>
        BY <2>5, <3>3 DEF Release, InputTypeOK
      <4>2. QED BY <2>1, <4>1
    <3>4. QED BY <2>5, <3>1, <3>2, <3>3 DEF Release
  <2>6. CASE Pause
    BY <2>1, <2>6 DEF Pause
  <2>7. CASE Delivered
    <3>1. Promised' <=> Promised
      BY <2>7, DeliveryKeepsPromise
    <3>2. UNCHANGED <<held, fault>>
      BY <2>7 DEF Delivered
    <3>3. QED BY <3>1, <3>2
  <2>8. CASE Missed
    BY <2>8 DEF Missed
  <2>9. CASE PlayerClicks
    BY <2>9 DEF PlayerClicks
  <2>10. CASE UNCHANGED inputVars
    BY <2>1, <2>10 DEF inputVars
  <2>11. QED
    BY <2>2, <2>3, <2>4, <2>5, <2>6, <2>7, <2>8, <2>9, <2>10 DEF InputNext, InputTick, Pump
<1>3. QED
  BY <1>1, <1>2, InputTyped, PTL DEF InputSpec

-----------------------------------------------------------------------------
(***************************************************************************)
(* What the reload of the settings guarantees for every set of values and   *)
(* every debounce: an edit that finds everybody idle is never lost.         *)
(***************************************************************************)

\* The steps of the specification keep the types.
LEMMA ReloadTypeKept == ReloadTypeOK /\ [ReloadNext]_reloadVars => ReloadTypeOK'
<1> SUFFICES ASSUME ReloadTypeOK, [ReloadNext]_reloadVars PROVE ReloadTypeOK'
  OBVIOUS
<1> USE ReloadAssumption DEF ReloadTypeOK
<1>1. Default \in Config /\ Parsed \in Config
  BY DEF Default, Config, Parsed
<1>2. ASSUME NEW n \in Nat, Notified(n) PROVE events' \in 0..MaxEvents
  BY <1>2 DEF Notified
<1>3. CASE Load \/ TakeEvent
  BY <1>1, <1>3 DEF Load, TakeEvent, Reads
<1>4. CASE ApplyLoaded \/ ApplyReloaded
  BY <1>4 DEF ApplyLoaded, ApplyReloaded, Applies
<1>5. CASE StartWatching \/ SkipEvent \/ Elapse
  BY <1>5 DEF StartWatching, SkipEvent, Elapse
<1>6. CASE BeginSave
  <2>1. PICK v \in Values :
          saving' = [at |-> "set", new |-> [shown |-> v, hidden |-> config.hidden]]
    BY <1>6 DEF BeginSave
  <2>2. [shown |-> v, hidden |-> config.hidden] \in Config
    BY DEF Config
  <2>3. QED BY <1>6, <2>1, <2>2 DEF BeginSave
<1>7. CASE SaveToEngine
  BY <1>7 DEF SaveToEngine
<1>8. CASE OpenFile
  BY <1>2, <1>8 DEF OpenFile
<1>9. CASE WriteFile
  BY <1>2, <1>9 DEF WriteFile
<1>10. CASE Edit
  BY <1>2, <1>10 DEF Edit
<1>11. CASE UNCHANGED reloadVars
  BY <1>11 DEF reloadVars
<1>12. QED
  BY <1>3, <1>4, <1>5, <1>6, <1>7, <1>8, <1>9, <1>10, <1>11 DEF ReloadNext, Watcher, Window

\* Every variable stays in its type; what the engine holds always parses.
THEOREM ReloadTyped == ReloadSpec => []ReloadTypeOK
<1>1. ReloadInit => ReloadTypeOK
  BY ReloadAssumption DEF ReloadInit, ReloadTypeOK, Config, Default
<1>2. QED
  BY <1>1, ReloadTypeKept, PTL DEF ReloadSpec

-----------------------------------------------------------------------------
\* The way of a calm edit to the engine: its notification waits and cannot be
\* skipped, or it has been read, or it has been applied.
OnItsWay ==
    \/ watcher.at = "watching" /\ events > 0 /\ age = Debounce
    \/ watcher.at = "reloaded" /\ watcher.read = Parsed
    \/ watcher.at = "watching" /\ config = Parsed

CalmInv == last = "calm" => OnItsWay /\ saving.at \in {"idle", "set"}

LEMMA CalmKept == ReloadTypeOK /\ CalmInv /\ [ReloadNext]_reloadVars => CalmInv'
<1> SUFFICES ASSUME ReloadTypeOK, CalmInv, [ReloadNext]_reloadVars, last' = "calm"
             PROVE  OnItsWay' /\ (saving.at \in {"idle", "set"})'
  BY DEF CalmInv
<1> USE ReloadAssumption DEF ReloadTypeOK
<1>1. CASE Edit
  <2>1. /\ Idle /\ age = Debounce /\ saving' = saving
        /\ watcher' = watcher /\ age' = age
    BY <1>1 DEF Edit
  <2>2. PICK n \in 1..2 : Notified(n)
    BY <1>1 DEF Edit
  <2>3. events' > 0
    BY <2>1, <2>2 DEF Notified, Idle, FileWatched
  <2>4. QED BY <2>1, <2>3 DEF OnItsWay, Idle
<1> DEFINE CalmNow == last = "calm" /\ OnItsWay /\ saving.at \in {"idle", "set"}
<1>2. ASSUME CalmNow, UNCHANGED <<file, config, watcher, events, age>>
      PROVE  OnItsWay'
  BY <1>2 DEF OnItsWay, Parsed
<1>3. CASE Load \/ ApplyLoaded \/ StartWatching
  BY <1>3 DEF Load, ApplyLoaded, StartWatching, CalmInv, OnItsWay
<1>4. CASE SkipEvent
  <2>1. CalmNow
    BY <1>4 DEF SkipEvent, CalmInv
  <2>2. watcher.at = "watching" /\ config = Parsed
    BY <1>4, <2>1 DEF SkipEvent, Debounced, OnItsWay
  <2>3. QED BY <1>4, <2>1, <2>2 DEF SkipEvent, OnItsWay, Parsed
<1>5. CASE TakeEvent
  <2>1. CalmNow
    BY <1>5 DEF TakeEvent, CalmInv
  <2>2. watcher'.at = "reloaded" /\ watcher'.read = Parsed /\ Parsed' = Parsed
    BY <1>5 DEF TakeEvent, Reads, Parsed
  <2>3. QED BY <1>5, <2>1, <2>2 DEF TakeEvent, OnItsWay
<1>6. CASE ApplyReloaded
  <2>1. CalmNow
    BY <1>6 DEF ApplyReloaded, CalmInv
  <2>2. watcher.read = Parsed
    BY <1>6, <2>1 DEF ApplyReloaded, OnItsWay
  <2>3. config' = watcher.read /\ watcher'.at = "watching" /\ Parsed' = Parsed
    BY <1>6 DEF ApplyReloaded, Applies, Parsed
  <2>4. QED BY <1>6, <2>1, <2>2, <2>3 DEF ApplyReloaded, OnItsWay
<1>7. CASE BeginSave
  <2>1. CalmNow /\ saving'.at = "set"
    BY <1>7 DEF BeginSave, CalmInv
  <2>2. QED BY <1>2, <1>7, <2>1 DEF BeginSave
<1>8. CASE SaveToEngine \/ OpenFile \/ WriteFile
  BY <1>8 DEF SaveToEngine, OpenFile, WriteFile
<1>9. CASE Elapse
  <2>1. CalmNow
    BY <1>9 DEF Elapse, CalmInv
  <2>2. QED BY <1>9, <2>1 DEF Elapse, OnItsWay, Parsed
<1>10. CASE UNCHANGED reloadVars
  BY <1>2, <1>10 DEF reloadVars, CalmInv
<1>11. QED
  BY <1>1, <1>3, <1>4, <1>5, <1>6, <1>7, <1>8, <1>9, <1>10 DEF ReloadNext, Watcher, Window

\* An edit that finds the watcher and the window idle and the debounce over is
\* what the engine holds once they are idle again (spawn_config_file_watcher).
THEOREM CalmEditIsApplied == ReloadSpec => []CalmEditStays
<1>1. ReloadInit => CalmInv
  BY DEF ReloadInit, CalmInv
<1>2. CalmInv => CalmEditStays
  BY DEF CalmInv, CalmEditStays, OnItsWay, Idle
<1>3. QED
  BY <1>1, <1>2, CalmKept, ReloadTyped, PTL DEF ReloadSpec

-----------------------------------------------------------------------------
(***************************************************************************)
(* The ring by itself: what its reader heard.                               *)
(***************************************************************************)

\* The stored head is where a reader that is not draining stands.
HeadStored == ~Draining => reader.head = reader.at
\* The first bytes of a packet mark its slot as valid.
HeaderValid == ring.writing = "headed" => ring.slots[Claimed].valid
\* A settled slot of the newest round that is not valid had no packet.
InvalidIsEmpty ==
    \A p \in 0 .. MaxPackets - 1 :
        p < ring.tail /\ ring.tail <= p + Slots /\ (ring.tail > p + 1 \/ ring.writing = "no")
              /\ ~ring.slots[Index(p)].valid => p + 1 \in empty
\* A drain has got packets that the reader has passed, so that the next one is new.
GotIsPassed == \A pair \in reader.got : pair[1] <= reader.at

\* Each packet that was heard is one, the reader has passed it, and they
\* come in the order of their numbers.
HeardWhole ==
    \A i \in DOMAIN heard : heard[i] = <<heard[i][1], heard[i][1]>> /\ heard[i][1] \in 1 .. reader.at
HeardRises == \A i, j \in DOMAIN heard : i < j => heard[i][1] < heard[j][1]
\* What the reader has passed was heard, given up or empty.
Passed(n) ==
    \/ \E i \in DOMAIN heard : heard[i] = <<n, n>>
    \/ n \in skipped /\ n + Slots <= ring.tail
    \/ n \in empty
PassedAccounted == \A n \in 1 .. reader.at : Passed(n)

HeardInvariant ==
    /\ heard \in Seq(Numbers \X Numbers)
    /\ HeadStored /\ HeaderValid /\ InvalidIsEmpty
    /\ ~reader.raced => GotIsPassed /\ HeardWhole /\ HeardRises /\ PassedAccounted

LEMMA HeardBegins ==
    ASSUME RingInit, heard = <<>>, skipped = {}, empty = {} PROVE HeardInvariant
  <1> USE RingAssumption DEF RingInit
  <1>1. heard \in Seq(Numbers \X Numbers) /\ HeadStored /\ HeaderValid /\ InvalidIsEmpty
    BY DEF HeadStored, Draining, HeaderValid, InvalidIsEmpty
  <1>2. GotIsPassed /\ HeardWhole /\ HeardRises /\ PassedAccounted
    BY DEF GotIsPassed, HeardWhole, HeardRises, PassedAccounted
  <1> QED
    BY <1>1, <1>2 DEF HeardInvariant

\* What was heard, given up or empty stays so while the game goes on.
LEMMA HeardStands ==
    ASSUME RingInvariant, HeardInvariant, reader' = reader, heard' = heard, skipped' = skipped,
           empty \subseteq empty', ring'.tail \in Nat, ring.tail <= ring'.tail,
           HeaderValid', InvalidIsEmpty'
    PROVE  HeardInvariant'
  <1> USE Parts DEF RingInvariant
  <1>1. heard' \in Seq(Numbers \X Numbers) /\ HeadStored'
    BY DEF HeardInvariant, HeadStored, Draining
  <1>2. ASSUME ~reader.raced PROVE GotIsPassed' /\ HeardWhole' /\ HeardRises'
    BY <1>2 DEF HeardInvariant, GotIsPassed, HeardWhole, HeardRises
  <1>3. ASSUME ~reader.raced, NEW n \in 1 .. reader.at PROVE Passed(n)'
    <2>1. Passed(n)
      BY <1>3 DEF HeardInvariant, PassedAccounted
    <2> QED
      BY <2>1 DEF Passed
  <1>4. ~reader.raced => PassedAccounted'
    BY <1>3 DEF PassedAccounted
  <1> QED
    BY <1>1, <1>2, <1>4 DEF HeardInvariant

LEMMA ClaimHeard ==
    ASSUME RingInvariant, HeardInvariant, Claim, UNCHANGED history PROVE HeardInvariant'
  <1> USE Parts DEF RingInvariant
  <1>1. /\ ring.writing = "no" /\ reader' = reader
        /\ ring' = [tail |-> ring.tail + 1, slots |-> ring.slots, writing |-> "claimed"]
    BY DEF Claim, RingTypeOK
  <1>2. HeaderValid'
    BY <1>1 DEF HeaderValid
  <1>3. InvalidIsEmpty'
    <2> SUFFICES ASSUME NEW p \in 0 .. MaxPackets - 1, p < ring.tail + 1, ring.tail + 1 <= p + Slots,
                        ring.tail + 1 > p + 1, ~ring.slots[Index(p)].valid
                 PROVE  p + 1 \in empty'
      BY <1>1 DEF InvalidIsEmpty, Index
    <2>1. p < ring.tail /\ ring.tail <= p + Slots
      OBVIOUS
    <2> QED
      BY <1>1, <2>1 DEF InvalidIsEmpty, HeardInvariant, history
  <1> QED
    BY <1>1, <1>2, <1>3, HeardStands DEF history

\* A write into the slot of the last packet, under way or finished.
LEMMA WriteHeard ==
    ASSUME RingInvariant, HeardInvariant, ring.writing # "no", NEW slot \in Slot, NEW w \in {"headed", "no"},
           w = "headed" => slot.valid,
           w = "no" /\ ~slot.valid => ring.tail \in empty',
           ring' = [tail |-> ring.tail, slots |-> [ring.slots EXCEPT ![Claimed] = slot], writing |-> w],
           reader' = reader, heard' = heard, skipped' = skipped, empty \subseteq empty'
    PROVE  HeardInvariant'
  <1> USE RingAssumption, Parts DEF RingInvariant
  <1>0. ring.tail - 1 \in Nat /\ Claimed \in 0 .. Slots - 1
    <2>1. ring.tail - 1 \in Nat
      BY DEF WritesClaimed
    <2> QED
      BY <2>1, IndexInRing DEF Claimed
  <1>1. ring'.slots[Claimed] = slot /\ Claimed' = Claimed
    BY <1>0 DEF Claimed, Index
  <1>2. HeaderValid'
    BY <1>1 DEF HeaderValid
  <1>3. InvalidIsEmpty'
    <2> SUFFICES ASSUME NEW p \in 0 .. MaxPackets - 1, p < ring.tail, ring.tail <= p + Slots,
                        ring.tail > p + 1 \/ w = "no", ~ring'.slots[Index(p)].valid
                 PROVE  p + 1 \in empty'
      BY DEF InvalidIsEmpty, Index
    <2>1. CASE p + 1 < ring.tail
      <3>1. ring'.slots[Index(p)] = ring.slots[Index(p)]
        BY <2>1, OthersStand
      <3> QED
        BY <2>1, <3>1 DEF InvalidIsEmpty, HeardInvariant
    <2>2. CASE p + 1 = ring.tail
      <3>1. Index(p) = Claimed
        BY <2>2 DEF Claimed
      <3> QED
        BY <1>1, <2>2, <3>1
    <2> QED
      BY <2>1, <2>2
  <1>4. ring'.tail \in Nat /\ ring.tail <= ring'.tail
    OBVIOUS
  <1> QED
    BY <1>2, <1>3, <1>4, HeardStands

LEMMA WritesHeard ==
    ASSUME RingInvariant, HeardInvariant,
           WriteHeader \/ WritePayload \/ WriteNothing, UNCHANGED <<heard, skipped>>,
           empty' = IF WriteNothing THEN empty \cup {ring.tail} ELSE empty
    PROVE  HeardInvariant'
  <1> USE RingAssumption, Parts DEF RingInvariant
  <1>0. Claimed \in 0 .. Slots - 1 /\ ring.slots[Claimed] \in Slot
    <2>1. ring.tail - 1 \in Nat
      BY DEF WritesClaimed, WriteHeader, WriteNothing, WritePayload
    <2>2. Claimed \in 0 .. Slots - 1
      BY <2>1, IndexInRing DEF Claimed
    <2> QED
      BY <2>2
  <1> DEFINE old == ring.slots[Claimed]
  <1>1. CASE WriteHeader
    <2> DEFINE slot == [opcode |-> ring.tail, body |-> old.body, valid |-> TRUE]
    <2>1. slot \in Slot /\ slot.valid
      BY <1>0 DEF Slot
    <2>2. ring.writing # "no" /\ reader' = reader
      BY <1>1 DEF WriteHeader
    <2>3. ring' = [tail |-> ring.tail, slots |-> [ring.slots EXCEPT ![Claimed] = slot],
                   writing |-> "headed"]
      BY <1>0, <1>1 DEF WriteHeader, RingTypeOK
    <2> HIDE DEF slot, old
    <2> QED
      BY <2>1, <2>2, <2>3, WriteHeard
  <1>2. CASE WriteNothing
    <2> DEFINE slot == [opcode |-> 0, body |-> old.body, valid |-> FALSE]
    <2>1. slot \in Slot
      BY <1>0 DEF Slot, Numbers
    <2>2. ring.writing # "no" /\ reader' = reader
      BY <1>2 DEF WriteNothing
    <2>3. ring' = [tail |-> ring.tail, slots |-> [ring.slots EXCEPT ![Claimed] = slot],
                   writing |-> "no"]
      BY <1>0, <1>2 DEF WriteNothing, RingTypeOK
    <2>4. ring.tail \in empty' /\ empty \subseteq empty'
      BY <1>2
    <2> HIDE DEF slot, old
    <2> QED
      BY <2>1, <2>2, <2>3, <2>4, WriteHeard
  <1>3. CASE WritePayload
    <2> DEFINE slot == [opcode |-> old.opcode, body |-> ring.tail, valid |-> old.valid]
    <2>0. old \in Slot /\ ring.tail \in Numbers
      BY <1>0
    <2>1. [old EXCEPT !.body = ring.tail] = slot /\ slot \in Slot
      <3> HIDE DEF old
      <3> QED
        BY <2>0 DEF Slot
    <2>2. ring.writing # "no" /\ reader' = reader
      BY <1>3 DEF WritePayload
    <2>3. ring' = [tail |-> ring.tail, slots |-> [ring.slots EXCEPT ![Claimed] = slot],
                   writing |-> "no"]
      BY <1>0, <1>3, <2>1 DEF WritePayload, RingTypeOK
    <2>4. slot.valid
      BY <1>3 DEF WritePayload, HeardInvariant, HeaderValid
    <2>5. empty \subseteq empty'
      OBVIOUS
    <2> HIDE DEF slot, old
    <2> QED
      BY <2>1, <2>2, <2>3, <2>4, <2>5, WriteHeard
  <1> QED
    BY <1>1, <1>2, <1>3

LEMMA StartHeard ==
    ASSUME RingInvariant, HeardInvariant, StartDrain, UNCHANGED <<heard, empty>>,
           skipped' = skipped \cup (reader.head + 1 .. reader'.at)
    PROVE  HeardInvariant'
  <1> USE RingAssumption, Parts DEF RingInvariant
  <1>0. /\ ring' = ring /\ ~Draining
        /\ reader' = [head |-> reader.head, at |-> CaughtUp, seen |-> ring.tail, got |-> {},
                      raced |-> reader.raced]
    BY DEF StartDrain, RingTypeOK
  <1>1. /\ reader.head = reader.at /\ CaughtUp \in Numbers /\ reader.at <= CaughtUp
        /\ reader.at < CaughtUp => CaughtUp + Slots = ring.tail
    BY <1>0 DEF CaughtUp, ReaderBehind, Numbers, HeardInvariant, HeadStored
  <1>2. heard' \in Seq(Numbers \X Numbers) /\ HeaderValid' /\ InvalidIsEmpty'
    BY <1>0 DEF HeardInvariant, HeaderValid, InvalidIsEmpty, Claimed, Index
  <1>3. HeadStored'
    <2>1. ASSUME CaughtUp = ring.tail PROVE reader.head = CaughtUp
      BY <1>1, <2>1 DEF ReaderBehind
    <2> QED
      BY <1>0, <2>1 DEF HeadStored, Draining
  <1>4. ASSUME ~reader.raced PROVE GotIsPassed' /\ HeardWhole' /\ HeardRises'
    BY <1>0, <1>1, <1>4 DEF HeardInvariant, GotIsPassed, HeardWhole, HeardRises
  <1>5. ASSUME ~reader.raced, NEW n \in 1 .. CaughtUp PROVE Passed(n)'
    <2>1. CASE n <= reader.at
      <3>1. Passed(n)
        BY <1>1, <1>5, <2>1 DEF HeardInvariant, PassedAccounted
      <3> QED
        BY <1>0, <3>1 DEF Passed
    <2>2. CASE n > reader.at
      <3>1. n \in skipped' /\ n + Slots <= ring.tail
        BY <1>0, <1>1, <2>2
      <3> QED
        BY <1>0, <3>1 DEF Passed
    <2> QED
      BY <1>1, <2>1, <2>2
  <1>6. ~reader.raced => PassedAccounted'
    BY <1>0, <1>5 DEF PassedAccounted
  <1> QED
    BY <1>0, <1>2, <1>3, <1>4, <1>6 DEF HeardInvariant

LEMMA FailHeard ==
    ASSUME RingInvariant, HeardInvariant, ReadFails, UNCHANGED history PROVE HeardInvariant'
  <1> USE RingAssumption, Parts DEF RingInvariant, history
  <1>0. /\ ring' = ring
        /\ reader' = [head |-> reader.at, at |-> reader.at, seen |-> reader.at, got |-> reader.got,
                      raced |-> reader.raced]
    BY DEF ReadFails, RingTypeOK
  <1>1. heard' \in Seq(Numbers \X Numbers) /\ HeadStored' /\ HeaderValid' /\ InvalidIsEmpty'
    BY <1>0 DEF HeardInvariant, HeadStored, HeaderValid, InvalidIsEmpty, Claimed, Index
  <1>2. ASSUME ~reader.raced PROVE GotIsPassed' /\ HeardWhole' /\ HeardRises'
    BY <1>0, <1>2 DEF HeardInvariant, GotIsPassed, HeardWhole, HeardRises
  <1>3. ASSUME ~reader.raced PROVE PassedAccounted'
    BY <1>0, <1>3 DEF HeardInvariant, PassedAccounted, Passed
  <1> QED
    BY <1>0, <1>1, <1>2, <1>3 DEF HeardInvariant

\* What a read without a race adds to the history: the next packet, or nothing
\* when its slot had none.
LEMMA ReadAdds ==
    ASSUME RingInvariant, HeardInvariant, ReadSlot, ~reader'.raced,
           heard' = IF reader'.got = reader.got THEN heard
                    ELSE Append(heard, CHOOSE pair \in reader'.got : pair \notin reader.got)
    PROVE  \/ heard' = heard /\ reader'.got = reader.got /\ reader.at + 1 \in empty
           \/ /\ heard' = Append(heard, <<reader.at + 1, reader.at + 1>>)
              /\ reader'.got = reader.got \cup {<<reader.at + 1, reader.at + 1>>}
  <1> USE RingAssumption, Parts DEF RingInvariant
  <1> DEFINE p == reader.at
  <1> DEFINE slot == ring.slots[Index(p)]
  <1> DEFINE pair == <<p + 1, p + 1>>
  <1>0. p \in 0 .. MaxPackets - 1 /\ p < ring.tail
    BY DEF ReadSlot, Draining, ReaderBehind, Numbers
  <1>1. /\ reader'.got = IF slot.valid THEN reader.got \cup {<<slot.opcode, slot.body>>} ELSE reader.got
        /\ reader'.raced = (reader.raced \/ Racing(p))
    BY DEF ReadSlot, RingTypeOK
  <1>2. ring.tail <= p + Slots /\ (ring.tail > p + 1 \/ ring.writing = "no") /\ ~reader.raced
    <2>1. ~reader.raced /\ ~Racing(p)
      BY <1>1
    <2> QED
      BY <1>0, <2>1 DEF Racing
  <1>3. CASE ~slot.valid
    <2>1. p + 1 \in empty
      BY <1>0, <1>2, <1>3 DEF HeardInvariant, InvalidIsEmpty
    <2> QED
      BY <1>1, <1>3, <2>1
  <1>4. CASE slot.valid
    <2>1. slot.opcode = p + 1 /\ slot.body = p + 1
      BY <1>0, <1>2, <1>4 DEF SlotsHold
    <2>2. reader'.got = reader.got \cup {pair}
      BY <1>1, <1>4, <2>1
    <2>3. pair \notin reader.got
      <3>1. \A other \in reader.got : other[1] <= p
        BY <1>2 DEF HeardInvariant, GotIsPassed
      <3>2. pair[1] = p + 1 /\ ~(p + 1 <= p)
        BY <1>0
      <3> HIDE DEF pair, p
      <3> QED
        BY <3>1, <3>2
    <2>4. (CHOOSE other \in reader'.got : other \notin reader.got) = pair
      <3> HIDE DEF pair
      <3> QED
        BY <2>2, <2>3
    <2> QED
      BY <2>2, <2>3, <2>4
  <1> QED
    BY <1>3, <1>4

\* A sequence and one element more.
LEMMA OneMoreNumber ==
    ASSUME NEW S, NEW seq \in Seq(S), NEW e \in S, NEW more, more = Append(seq, e)
    PROVE  /\ DOMAIN seq = 1 .. Len(seq) /\ Len(seq) \in Nat
           /\ DOMAIN more = 1 .. Len(seq) + 1 /\ more \in Seq(S) /\ Len(more) = Len(seq) + 1
           /\ more[Len(seq) + 1] = e
           /\ \A i \in DOMAIN seq : more[i] = seq[i] /\ i \in DOMAIN more
           /\ \A i \in DOMAIN more : i \in DOMAIN seq \/ i = Len(seq) + 1
  OBVIOUS

LEMMA ReadHeard ==
    ASSUME RingInvariant, HeardInvariant, ReadSlot, UNCHANGED <<skipped, empty>>,
           heard' = IF reader'.got = reader.got THEN heard
                    ELSE Append(heard, CHOOSE pair \in reader'.got : pair \notin reader.got)
    PROVE  HeardInvariant'
  <1> USE RingAssumption, Parts DEF RingInvariant
  <1> DEFINE p == reader.at
  <1> DEFINE pair == <<p + 1, p + 1>>
  <1>0. p \in 0 .. MaxPackets - 1 /\ p + 1 <= reader.seen
    BY DEF ReadSlot, Draining, ReaderBehind, Numbers
  <1>1. /\ ring' = ring /\ reader'.at = p + 1 /\ reader'.head = Stored(p + 1)
        /\ reader'.seen = reader.seen
    BY DEF ReadSlot, RingTypeOK
  <1>2. HeadStored' /\ HeaderValid' /\ InvalidIsEmpty'
    BY <1>0, <1>1 DEF HeardInvariant, HeadStored, Draining, Stored, HeaderValid, InvalidIsEmpty,
       Claimed, Index
  <1>3. heard' \in Seq(Numbers \X Numbers)
    <2>1. RingInvariant'
      BY ReadKeeps
    <2>2. reader'.got \subseteq Numbers \X Numbers
      BY <2>1 DEF RingTypeOK
    <2>3. reader.got \subseteq reader'.got
      BY DEF ReadSlot, RingTypeOK
    <2>4. ASSUME reader'.got # reader.got
          PROVE  (CHOOSE other \in reader'.got : other \notin reader.got) \in Numbers \X Numbers
      <3>1. \E other \in reader'.got : other \notin reader.got
        BY <2>3, <2>4
      <3> QED
        BY <2>2, <3>1
    <2> QED
      BY <2>4 DEF HeardInvariant
  <1>4. ASSUME ~reader'.raced PROVE GotIsPassed' /\ HeardWhole' /\ HeardRises' /\ PassedAccounted'
    <2>1. ~reader.raced
      BY <1>4 DEF ReadSlot, RingTypeOK
    <2>2. /\ GotIsPassed /\ HeardWhole /\ HeardRises /\ PassedAccounted
          /\ heard \in Seq(Numbers \X Numbers)
      BY <2>1 DEF HeardInvariant
    <2>3. CASE heard' = heard /\ reader'.got = reader.got /\ p + 1 \in empty
      <3>1. GotIsPassed' /\ HeardWhole' /\ HeardRises'
        BY <1>1, <2>2, <2>3 DEF GotIsPassed, HeardWhole, HeardRises
      <3>2. ASSUME NEW n \in 1 .. p + 1 PROVE Passed(n)'
        <4>1. CASE n = p + 1
          BY <2>3, <4>1 DEF Passed
        <4>2. CASE n \in 1 .. p
          BY <1>1, <2>2, <2>3, <4>2 DEF PassedAccounted, Passed
        <4> QED
          BY <4>1, <4>2
      <3> QED
        BY <1>1, <3>1, <3>2 DEF PassedAccounted
    <2>4. CASE heard' = Append(heard, pair) /\ reader'.got = reader.got \cup {pair}
      <3>1. pair[1] = p + 1 /\ pair = <<p + 1, p + 1>>
        OBVIOUS
      <3>2. GotIsPassed'
        BY <1>1, <2>2, <2>4, <3>1 DEF GotIsPassed
      <3> HIDE DEF pair
      <3>0. pair \in Numbers \X Numbers
        BY <1>0, <3>1 DEF Numbers
      <3>3. /\ DOMAIN heard = 1 .. Len(heard) /\ Len(heard) \in Nat
            /\ DOMAIN heard' = 1 .. Len(heard) + 1
            /\ heard'[Len(heard) + 1] = pair
            /\ \A i \in DOMAIN heard : heard'[i] = heard[i] /\ i \in DOMAIN heard'
            /\ \A i \in DOMAIN heard' : i \in DOMAIN heard \/ i = Len(heard) + 1
        BY <2>2, <2>4, <3>0, OneMoreNumber
      <3>4. HeardWhole'
        <4> SUFFICES ASSUME NEW i \in DOMAIN heard'
                     PROVE  heard'[i] = <<heard'[i][1], heard'[i][1]>> /\ heard'[i][1] \in 1 .. p + 1
          BY <1>1 DEF HeardWhole
        <4>1. CASE i \in DOMAIN heard
          BY <2>2, <3>3, <4>1 DEF HeardWhole
        <4>2. CASE i = Len(heard) + 1
          BY <1>0, <3>1, <3>3, <4>2
        <4> QED
          BY <3>3, <4>1, <4>2
      <3>5. HeardRises'
        <4> SUFFICES ASSUME NEW i \in DOMAIN heard', NEW j \in DOMAIN heard', i < j
                     PROVE  heard'[i][1] < heard'[j][1]
          BY DEF HeardRises
        <4>1. CASE j \in DOMAIN heard
          BY <2>2, <3>3, <4>1 DEF HeardRises
        <4>2. CASE j = Len(heard) + 1
          <5>1. i \in DOMAIN heard /\ heard[i][1] \in 1 .. p
            BY <2>2, <3>3, <4>2 DEF HeardWhole
          <5> QED
            BY <3>1, <3>3, <4>2, <5>1
        <4> QED
          BY <3>3, <4>1, <4>2
      <3>6. ASSUME NEW n \in 1 .. p + 1 PROVE Passed(n)'
        <4>1. CASE n = p + 1
          <5>1. heard'[Len(heard) + 1] = <<n, n>> /\ Len(heard) + 1 \in DOMAIN heard'
            BY <3>1, <3>3, <4>1
          <5> QED
            BY <5>1 DEF Passed
        <4>2. CASE n \in 1 .. p
          <5>1. Passed(n)
            BY <2>2, <4>2 DEF PassedAccounted
          <5>2. ASSUME NEW i \in DOMAIN heard, heard[i] = <<n, n>> PROVE Passed(n)'
            <6>1. i \in DOMAIN heard' /\ heard'[i] = <<n, n>>
              BY <3>3, <5>2
            <6> QED
              BY <6>1 DEF Passed
          <5> QED
            BY <1>1, <5>1, <5>2 DEF Passed
        <4> QED
          BY <4>1, <4>2
      <3> QED
        BY <1>1, <3>2, <3>4, <3>5, <3>6 DEF PassedAccounted
    <2> QED
      BY <1>4, <2>3, <2>4, ReadAdds
  <1> QED
    BY <1>2, <1>3, <1>4 DEF HeardInvariant

-----------------------------------------------------------------------------
(***************************************************************************)
(* The two rings of the bot.                                                *)
(***************************************************************************)

LEMMA ServerConstants ==
    /\ LowSlots \in Nat \ {0} /\ RawSlots \in Nat \ {0} /\ ServerMax \in Nat
    /\ DeadTtl \in Nat /\ DamageTtl \in Nat /\ AttackerTtl \in Nat
    /\ Kinds \subseteq {"dies", "appears", "hpMeter", "hits", "misses"}
  BY ServerAssumption DEF Server!PacketsAssumption

\* The hooks do not write what the server has not sent.
HooksFollow == low.tail <= Len(dispatched) /\ raw.tail <= Len(packets)
\* What gets to the hook of the dispatch was sent.
DispatchedIsSent ==
    /\ dispatched \in Seq(1 .. ServerMax)
    /\ \A i \in DOMAIN dispatched : dispatched[i] \in DOMAIN packets
\* In the middle of a tick no damage is younger than the tick's first answer.
FrameAnswers == tick = "step" => {o \in DOMAIN damaged : damaged[o] > 0} \subseteq answers

RingsInvariant ==
    /\ Server!Low!RingInvariant /\ Server!Raw!RingInvariant
    /\ packets \in Seq(Server!Packets) /\ DispatchedIsSent /\ HooksFollow

\* A step of the bot or the game is, for each ring, a step of the ring, or
\* takes away what a drain gave.
LEMMA LowSteps ==
    ASSUME Server!Next
    PROVE  \/ [Server!Low!RingNext]_Server!Low!ringVars
           \/ low' = low /\ lowReader' = [lowReader EXCEPT !.got = {}]
  <1> USE DEF Server!Low!ringVars, Server!ringVars
  <1>1. CASE \/ Server!Arrives \/ Server!RawHook \/ Server!PlayerChanges \/ Server!DrainRaw
             \/ Server!AskForFrame \/ Server!AskInStep \/ Server!Elapse
    BY <1>1 DEF Server!Arrives, Server!RawHook, Server!PlayerChanges, Server!DrainRaw,
       Server!AskForFrame, Server!AskInStep, Server!Elapse
  <1>2. CASE Server!LowHook \/ Server!RefreshIds \/ Server!DrainLow
    BY <1>2 DEF Server!LowHook, Server!RefreshIds, Server!DrainLow, Server!Low!RingNext, Server!Low!Drain
  <1>3. CASE Server!Record
    BY <1>3 DEF Server!Record
  <1> QED
    BY <1>1, <1>2, <1>3 DEF Server!Next, Server!Hooks, Server!Bot, Server!Poll

LEMMA RawSteps ==
    ASSUME Server!Next
    PROVE  \/ [Server!Raw!RingNext]_Server!Raw!ringVars
           \/ raw' = raw /\ rawReader' = [rawReader EXCEPT !.got = {}]
  <1> USE DEF Server!Raw!ringVars, Server!ringVars
  <1>1. CASE \/ Server!Arrives \/ Server!LowHook \/ Server!PlayerChanges \/ Server!RefreshIds
             \/ Server!AskForFrame \/ Server!AskInStep \/ Server!Elapse
    BY <1>1 DEF Server!Arrives, Server!LowHook, Server!PlayerChanges, Server!RefreshIds,
       Server!AskForFrame, Server!AskInStep, Server!Elapse
  <1>2. CASE Server!RawHook \/ Server!DrainLow \/ Server!DrainRaw
    BY <1>2 DEF Server!RawHook, Server!DrainLow, Server!DrainRaw, Server!Raw!RingNext, Server!Raw!Drain
  <1>3. CASE Server!Record
    BY <1>3 DEF Server!Record
  <1> QED
    BY <1>1, <1>2, <1>3 DEF Server!Next, Server!Hooks, Server!Bot, Server!Poll

\* A ring gets a packet only in its hook, and only after the server sent it.
LEMMA TailsFollow ==
    ASSUME RingsInvariant, Server!Next PROVE HooksFollow'
  <1> USE ServerConstants
  <1>0. /\ low.tail \in Nat /\ raw.tail \in Nat
        /\ Len(packets) \in Nat /\ Len(dispatched) \in Nat
    BY DEF RingsInvariant, DispatchedIsSent, Server!Low!RingInvariant, Server!Low!RingTypeOK, Server!Low!Numbers,
       Server!Raw!RingInvariant, Server!Raw!RingTypeOK, Server!Raw!Numbers
  <1>1. CASE Server!Arrives
    <2>1. PICK p \in Server!Packets :
              /\ packets' = Append(packets, p)
              /\ dispatched' = IF Server!InTable(p) THEN Append(dispatched, Len(packets) + 1)
                               ELSE dispatched
      BY <1>1 DEF Server!Arrives
    <2>2. Len(packets') = Len(packets) + 1 /\ low' = low /\ raw' = raw
      BY <1>1, <2>1 DEF Server!Arrives, Server!ringVars, RingsInvariant
    <2>3. Len(dispatched') >= Len(dispatched) /\ Len(dispatched') \in Nat
      BY <1>0, <2>1 DEF RingsInvariant, DispatchedIsSent
    <2> QED
      BY <1>0, <2>2, <2>3 DEF HooksFollow, RingsInvariant
  <1>2. CASE Server!RawHook
    <2>1. /\ packets' = packets /\ dispatched' = dispatched /\ low' = low
          /\ ~(raw.tail = Len(packets) /\ raw.writing = "no")
      BY <1>2 DEF Server!RawHook, Server!Pushed
    <2>2. raw'.tail = raw.tail \/ (raw.writing = "no" /\ raw'.tail = raw.tail + 1)
      BY <1>2 DEF Server!RawHook, Server!Raw!Push, Server!Raw!Claim, Server!Raw!WriteHeader,
         Server!Raw!WritePayload, RingsInvariant, Server!Raw!RingInvariant, Server!Raw!RingTypeOK
    <2> QED
      BY <1>0, <2>1, <2>2 DEF HooksFollow, RingsInvariant
  <1>3. CASE Server!LowHook
    <2>1. /\ packets' = packets /\ dispatched' = dispatched /\ raw' = raw
          /\ ~(low.tail = Len(dispatched) /\ low.writing = "no")
      BY <1>3 DEF Server!LowHook, Server!Pushed
    <2>2. low'.tail = low.tail \/ (low.writing = "no" /\ low'.tail = low.tail + 1)
      BY <1>3 DEF Server!LowHook, Server!Low!Push, Server!Low!Claim, Server!Low!WriteHeader,
         Server!Low!WritePayload, RingsInvariant, Server!Low!RingInvariant, Server!Low!RingTypeOK
    <2> QED
      BY <1>0, <2>1, <2>2 DEF HooksFollow, RingsInvariant
  <1>4. CASE UNCHANGED <<packets, dispatched, low, raw>>
    BY <1>4 DEF HooksFollow, RingsInvariant
  <1>5. CASE Server!PlayerChanges \/ Server!Bot \/ Server!Elapse
    <2>1. UNCHANGED <<packets, dispatched, low, raw>>
      BY <1>5 DEF Server!PlayerChanges, Server!Bot, Server!Poll, Server!RefreshIds, Server!DrainLow,
         Server!DrainRaw, Server!Record, Server!AskForFrame, Server!AskInStep, Server!Elapse,
         Server!ringVars, Server!Low!StartDrain, Server!Low!ReadSlot, Server!Low!ReadFails,
         Server!Raw!StartDrain, Server!Raw!ReadSlot, Server!Raw!ReadFails
    <2> QED
      BY <1>4, <2>1
  <1> QED
    BY <1>1, <1>2, <1>3, <1>5 DEF Server!Next, Server!Hooks

\* What the server has sent stays, and is all that a ring's packets can be.
LEMMA SentStands ==
    ASSUME packets \in Seq(Server!Packets), Server!Next
    PROVE  /\ packets' \in Seq(Server!Packets)
           /\ \A n \in DOMAIN packets : n \in DOMAIN packets' /\ packets'[n] = packets[n]
  <1>1. CASE Server!Arrives
    <2>1. PICK p \in Server!Packets : packets' = Append(packets, p)
      BY <1>1 DEF Server!Arrives
    <2> QED
      BY <2>1, OneMoreNumber
  <1>2. CASE ~Server!Arrives
    <2>1. packets' = packets
      BY <1>2 DEF Server!Next, Server!Hooks, Server!RawHook, Server!LowHook, Server!PlayerChanges,
         Server!Bot, Server!Poll, Server!RefreshIds, Server!DrainLow, Server!DrainRaw, Server!Record,
         Server!AskForFrame, Server!AskInStep, Server!Elapse
    <2> QED
      BY <2>1
  <1> QED
    BY <1>1, <1>2

LEMMA DispatchedKeeps ==
    ASSUME RingsInvariant, Server!Next PROVE DispatchedIsSent'
  <1>1. CASE Server!Arrives
    <2>1. PICK p \in Server!Packets :
              /\ packets' = Append(packets, p)
              /\ dispatched' = IF Server!InTable(p) THEN Append(dispatched, Len(packets) + 1)
                               ELSE dispatched
      BY <1>1 DEF Server!Arrives
    <2>2. /\ Len(packets) \in Nat /\ DOMAIN packets = 1 .. Len(packets)
          /\ DOMAIN packets' = 1 .. Len(packets) + 1
      BY <2>1, OneMoreNumber DEF RingsInvariant
    <2>3. Len(packets) + 1 \in 1 .. ServerMax
      BY <1>1, <2>2, ServerConstants DEF Server!Arrives
    <2>4. CASE dispatched' = dispatched
      BY <2>2, <2>4 DEF RingsInvariant, DispatchedIsSent
    <2>5. CASE dispatched' = Append(dispatched, Len(packets) + 1)
      <3>1. /\ dispatched' \in Seq(1 .. ServerMax)
            /\ dispatched'[Len(dispatched) + 1] = Len(packets) + 1
            /\ \A i \in DOMAIN dispatched : dispatched'[i] = dispatched[i]
            /\ \A i \in DOMAIN dispatched' : i \in DOMAIN dispatched \/ i = Len(dispatched) + 1
        BY <2>3, <2>5, OneMoreNumber DEF RingsInvariant, DispatchedIsSent
      <3> QED
        BY <2>2, <3>1 DEF RingsInvariant, DispatchedIsSent
    <2> QED
      BY <2>1, <2>4, <2>5
  <1>2. CASE ~Server!Arrives
    <2>1. UNCHANGED <<packets, dispatched>>
      BY <1>2 DEF Server!Next, Server!Hooks, Server!RawHook, Server!LowHook, Server!PlayerChanges,
         Server!Bot, Server!Poll, Server!RefreshIds, Server!DrainLow, Server!DrainRaw, Server!Record,
         Server!AskForFrame, Server!AskInStep, Server!Elapse
    <2> QED
      BY <2>1 DEF RingsInvariant, DispatchedIsSent
  <1> QED
    BY <1>1, <1>2

LEMMA RingsKeep ==
    ASSUME RingsInvariant, Server!Next PROVE RingsInvariant'
  <1> USE ServerConstants
  <1>1. Server!Low!RingInvariant'
    BY LowSteps, Server!Low!RingKeeps, Server!Low!TakenKeeps DEF RingsInvariant
  <1>2. Server!Raw!RingInvariant'
    BY RawSteps, Server!Raw!RingKeeps, Server!Raw!TakenKeeps DEF RingsInvariant
  <1>3. packets' \in Seq(Server!Packets)
    BY SentStands DEF RingsInvariant
  <1> QED
    BY <1>1, <1>2, <1>3, DispatchedKeeps, TailsFollow DEF RingsInvariant

\* A time that goes on stays a time.
LEMMA ShorterTimes ==
    ASSUME NEW S, NEW ttl \in Nat, NEW registry \in [S -> 0 .. ttl]
    PROVE  Server!Shorter(registry) \in [S -> 0 .. ttl]
  <1>1. ASSUME NEW o \in S
        PROVE  (IF registry[o] = 0 THEN 0 ELSE registry[o] - 1) \in 0 .. ttl
    <2>1. registry[o] \in 0 .. ttl
      OBVIOUS
    <2> QED
      BY <2>1
  <1> QED
    BY <1>1 DEF Server!Shorter

LEMMA ServerTypes ==
    ASSUME Server!TypeOK, RingsInvariant, RingsInvariant', Server!Next PROVE Server!TypeOK'
  <1> USE ServerConstants DEF Server!Players, Server!Ids, Server!registries, Server!ringVars
  <1>1. Len(packets') <= ServerMax
    <2>1. CASE Server!Arrives
      BY <2>1, OneMoreNumber DEF Server!Arrives, Server!TypeOK
    <2>2. CASE packets' = packets
      BY <2>2 DEF Server!TypeOK
    <2>3. ~Server!Arrives => packets' = packets
      BY DEF Server!Next, Server!Hooks, Server!RawHook, Server!LowHook, Server!PlayerChanges,
         Server!Bot, Server!Poll, Server!RefreshIds, Server!DrainLow, Server!DrainRaw, Server!Record,
         Server!AskForFrame, Server!AskInStep, Server!Elapse
    <2> QED
      BY <2>1, <2>2, <2>3
  <1>2. hook' \in {"idle", "raw", "low"} /\ tick' \in {"ids", "low", "raw", "record", "frame", "step"}
    BY DEF Server!TypeOK, Server!Next, Server!Hooks, Server!Arrives, Server!RawHook, Server!LowHook,
       Server!PlayerChanges, Server!Bot, Server!Poll, Server!RefreshIds, Server!DrainLow,
       Server!DrainRaw, Server!Record, Server!AskForFrame, Server!AskInStep, Server!Elapse
  <1>3. player' \in Server!Ids /\ known' \in Server!Ids
    BY DEF Server!TypeOK, Server!Next, Server!Hooks, Server!Arrives, Server!RawHook, Server!LowHook,
       Server!PlayerChanges, Server!Bot, Server!Poll, Server!RefreshIds, Server!DrainLow,
       Server!DrainRaw, Server!Record, Server!AskForFrame, Server!AskInStep, Server!Elapse
  <1>4. /\ dead' \in [Objects -> 0 .. DeadTtl]
        /\ damaged' \in [Objects \cup Server!Players -> 0 .. DamageTtl]
        /\ attackers' \in [Objects -> 0 .. AttackerTtl]
    <2>1. CASE Server!Record
      BY <2>1 DEF Server!Record, Server!Renewed, Server!TypeOK
    <2>2. CASE Server!Elapse
      BY <2>2, ShorterTimes DEF Server!Elapse, Server!TypeOK
    <2>3. ~Server!Record /\ ~Server!Elapse => UNCHANGED <<dead, damaged, attackers>>
      BY DEF Server!Next, Server!Hooks, Server!Arrives, Server!RawHook, Server!LowHook,
         Server!PlayerChanges, Server!Bot, Server!Poll, Server!RefreshIds, Server!DrainLow,
         Server!DrainRaw, Server!AskForFrame, Server!AskInStep
    <2> QED
      BY <2>1, <2>2, <2>3 DEF Server!TypeOK
  <1>5. answers' \subseteq Objects \cup Server!Players
    BY DEF Server!TypeOK, Server!Next, Server!Hooks, Server!Arrives, Server!RawHook, Server!LowHook,
       Server!PlayerChanges, Server!Bot, Server!Poll, Server!RefreshIds, Server!DrainLow,
       Server!DrainRaw, Server!Record, Server!AskForFrame, Server!AskInStep, Server!Elapse
  <1>6. /\ packets' \in Seq(Server!Packets) /\ dispatched' \in Seq(1 .. ServerMax)
        /\ Server!Low!RingTypeOK' /\ Server!Raw!RingTypeOK'
    BY DEF RingsInvariant, DispatchedIsSent, Server!Low!RingInvariant, Server!Raw!RingInvariant
  <1> QED
    BY <1>1, <1>2, <1>3, <1>4, <1>5, <1>6 DEF Server!TypeOK

\* A death in what the rings gave was in a packet, unless a slot was read torn.
LEMMA DeathsHeard ==
    ASSUME RingsInvariant, ~Server!Raced, NEW p \in Server!Heard, p.kind = "dies"
    PROVE  \E n \in DOMAIN packets : packets[n] = [kind |-> "dies", of |-> p.of]
  <1> USE ServerConstants
  <1>1. PICK pair \in Server!LowGot \cup rawReader.got : p \in Server!Read(pair)
    BY DEF Server!Heard
  <1>2. pair[1] = pair[2] /\ pair[2] \in DOMAIN packets
    <2>1. CASE pair \in Server!LowGot
      <3>0. PICK read \in lowReader.got : pair = <<Server!Number(read[1]), Server!Number(read[2])>>
        BY <2>1 DEF Server!LowGot
      <3>1. /\ read[1] \in Nat /\ read[2] \in Nat /\ low.tail \in Nat
            /\ Len(dispatched) \in Nat /\ DOMAIN dispatched = 1 .. Len(dispatched)
        BY DEF RingsInvariant, DispatchedIsSent, Server!Low!RingInvariant,
           Server!Low!RingTypeOK, Server!Low!Numbers
      <3>2. read[2] <= low.tail /\ read[1] = read[2] /\ read[1] # 0
        BY DEF RingsInvariant, Server!Low!RingInvariant, Server!Low!GotIsSent, Server!Raced
      <3>3. read[2] \in DOMAIN dispatched
        BY <3>1, <3>2 DEF RingsInvariant, HooksFollow
      <3> QED
        BY <3>0, <3>2, <3>3 DEF RingsInvariant, DispatchedIsSent, Server!Number
    <2>2. CASE pair \in rawReader.got
      <3>1. pair[1] \in Nat /\ pair[2] \in Nat /\ raw.tail \in Nat
        BY <2>2 DEF RingsInvariant, Server!Raw!RingInvariant, Server!Raw!RingTypeOK, Server!Raw!Numbers
      <3>2. pair[2] <= raw.tail /\ pair[1] = pair[2] /\ pair[1] # 0
        BY <2>2 DEF RingsInvariant, Server!Raw!RingInvariant, Server!Raw!GotIsSent, Server!Raced
      <3> QED
        BY <3>1, <3>2 DEF RingsInvariant, HooksFollow
    <2> QED
      BY <1>1, <2>1, <2>2
  <1>3. p = packets[pair[2]] /\ p \in Server!Packets
    BY <1>1, <1>2 DEF Server!Read, RingsInvariant
  <1>4. p \in [kind : Kinds \cap {"dies", "appears", "hpMeter"}, of : Objects]
    BY <1>3 DEF Server!Packets
  <1>5. p = [kind |-> "dies", of |-> p.of]
    BY <1>4
  <1> QED
    BY <1>2, <1>3, <1>5

LEMMA RacedStays == ASSUME RingsInvariant, Server!Next, Server!Raced PROVE Server!Raced'
  <1> USE ServerConstants
  <1>0. Server!Low!RingTypeOK /\ Server!Raw!RingTypeOK
    BY DEF RingsInvariant, Server!Low!RingInvariant, Server!Raw!RingInvariant
  <1>1. CASE lowReader.raced
    <2>1. [lowReader EXCEPT !.got = {}].raced
      BY <1>0, <1>1 DEF Server!Low!RingTypeOK
    <2> QED
      BY <1>0, <1>1, <2>1, LowSteps, Server!Low!RaceStands DEF Server!Raced
  <1>2. CASE rawReader.raced
    <2>1. [rawReader EXCEPT !.got = {}].raced
      BY <1>0, <1>2 DEF Server!Raw!RingTypeOK
    <2> QED
      BY <1>0, <1>2, <2>1, RawSteps, Server!Raw!RaceStands DEF Server!Raced
  <1> QED
    BY <1>1, <1>2 DEF Server!Raced

LEMMA DeathsKeep ==
    ASSUME Server!TypeOK, RingsInvariant, Server!DeathWasSaid, Server!Next PROVE Server!DeathWasSaid'
  <1> USE ServerConstants
  <1>1. SUFFICES ASSUME NEW o \in Objects, dead'[o] > 0, ~Server!Raced'
                 PROVE  \E n \in DOMAIN packets' : packets'[n] = [kind |-> "dies", of |-> o]
    BY DEF Server!DeathWasSaid
  <1>2. ~Server!Raced
    BY <1>1, RacedStays
  <1>3. ASSUME NEW n \in DOMAIN packets, packets[n] = [kind |-> "dies", of |-> o]
        PROVE  \E m \in DOMAIN packets' : packets'[m] = [kind |-> "dies", of |-> o]
    BY <1>3, SentStands DEF RingsInvariant
  <1>4. CASE dead[o] > 0
    BY <1>2, <1>3, <1>4 DEF Server!DeathWasSaid
  <1>5. CASE ~(dead[o] > 0)
    <2>1. Server!Record
      <3>1. ~Server!Elapse
        BY <1>1, <1>5 DEF Server!Elapse, Server!Shorter, Server!TypeOK
      <3>2. dead' # dead
        BY <1>1, <1>5
      <3> QED
        BY <3>1, <3>2 DEF Server!Next, Server!Hooks, Server!Arrives, Server!RawHook, Server!LowHook,
           Server!PlayerChanges, Server!Bot, Server!Poll, Server!RefreshIds, Server!DrainLow,
           Server!DrainRaw, Server!AskForFrame, Server!AskInStep, Server!registries
    <2>2. PICK p \in Server!Heard : p.kind = "dies" /\ p.of = o
      BY <1>1, <1>5, <2>1 DEF Server!Record, Server!Renewed, Server!Events, Server!TypeOK
    <2> QED
      BY <1>2, <1>3, <2>2, DeathsHeard
  <1> QED
    BY <1>4, <1>5

LEMMA AnswersKeep ==
    ASSUME Server!TypeOK, FrameAnswers, Server!Next PROVE FrameAnswers' /\ Server!OnlyFades
  <1> USE ServerConstants DEF Server!registries
  <1>1. ASSUME tick' = "step" PROVE FrameAnswers'
    <2>1. CASE Server!AskForFrame
      BY <2>1 DEF Server!AskForFrame, FrameAnswers
    <2>2. CASE Server!Elapse
      <3>1. tick = "step" /\ answers' = answers /\ DOMAIN damaged' = DOMAIN damaged
        BY <1>1, <2>2 DEF Server!Elapse, Server!Shorter
      <3>2. ASSUME NEW o \in DOMAIN damaged, damaged'[o] > 0 PROVE damaged[o] > 0
        BY <2>2, <3>2 DEF Server!Elapse, Server!Shorter, Server!TypeOK
      <3> QED
        BY <3>1, <3>2 DEF FrameAnswers
    <2>3. ~Server!AskForFrame /\ ~Server!Elapse => UNCHANGED <<tick, damaged, answers>>
      BY <1>1 DEF Server!Next, Server!Hooks, Server!Arrives, Server!RawHook, Server!LowHook,
         Server!PlayerChanges, Server!Bot, Server!Poll, Server!RefreshIds, Server!DrainLow,
         Server!DrainRaw, Server!Record, Server!AskInStep
    <2> QED
      BY <2>1, <2>2, <2>3 DEF FrameAnswers
  <1>2. ASSUME tick = "step", tick' = "ids" PROVE answers' \subseteq answers
    <2>1. Server!AskInStep
      BY <1>2 DEF Server!Next, Server!Hooks, Server!Arrives, Server!RawHook, Server!LowHook,
         Server!PlayerChanges, Server!Bot, Server!Poll, Server!RefreshIds, Server!DrainLow,
         Server!DrainRaw, Server!Record, Server!AskForFrame, Server!Elapse
    <2> QED
      BY <1>2, <2>1 DEF Server!AskInStep, FrameAnswers
  <1> QED
    BY <1>1, <1>2 DEF FrameAnswers, Server!OnlyFades

-----------------------------------------------------------------------------
(***************************************************************************)
(* A behaviour is of the ring or of the bot.                                *)
(***************************************************************************)

PacketInvariant ==
    /\ part \in {"ring", "server"}
    /\ RingInvariant /\ HeardInvariant
    /\ part = "server" =>
          Server!TypeOK /\ RingsInvariant /\ Server!DeathWasSaid /\ FrameAnswers

LEMMA PacketsBegin == ASSUME MCInit PROVE PacketInvariant
  <1> USE ServerConstants DEF MCInit
  <1>1. RingInvariant /\ HeardInvariant
    BY RingBegins, HeardBegins
  <1>2. ASSUME Server!Init
        PROVE  Server!TypeOK /\ RingsInvariant /\ Server!DeathWasSaid /\ FrameAnswers
    <2>1. Server!Low!RingInvariant /\ Server!Raw!RingInvariant
      BY <1>2, Server!Low!RingBegins, Server!Raw!RingBegins DEF Server!Init
    <2>2. RingsInvariant
      BY <1>2, <2>1 DEF Server!Init, RingsInvariant, DispatchedIsSent, HooksFollow,
         Server!Low!RingInit, Server!Raw!RingInit
    <2>3. Server!TypeOK
      BY <1>2, <2>1 DEF Server!Init, Server!TypeOK, Server!None, Server!Ids, Server!Players,
         Server!Nobody, Server!Low!RingInvariant, Server!Raw!RingInvariant
    <2>4. Server!DeathWasSaid /\ FrameAnswers
      BY <1>2 DEF Server!Init, Server!DeathWasSaid, FrameAnswers, Server!None
    <2> QED
      BY <2>2, <2>3, <2>4
  <1> QED
    BY <1>1, <1>2 DEF PacketInvariant

LEMMA RingPartKeeps ==
    ASSUME RingInvariant, HeardInvariant, RingWrites \/ RingReads
    PROVE  RingInvariant' /\ HeardInvariant'
  <1>1. CASE RingWrites
    <2>1. RingInvariant'
      BY <1>1, ClaimKeeps, WritesKeep DEF RingWrites, Push
    <2>2. CASE Claim /\ UNCHANGED empty
      BY <1>1, <2>1, <2>2, ClaimHeard DEF RingWrites, history
    <2>3. CASE (WriteHeader \/ WritePayload) /\ UNCHANGED empty
      <3>1. ~WriteNothing
        BY <2>3 DEF WriteHeader, WritePayload, WriteNothing, RingInvariant, RingTypeOK
      <3> QED
        BY <1>1, <2>1, <2>3, <3>1, WritesHeard DEF RingWrites
    <2>4. CASE WriteNothing /\ empty' = empty \cup {ring.tail}
      BY <1>1, <2>1, <2>4, WritesHeard DEF RingWrites
    <2> QED
      BY <1>1, <2>1, <2>2, <2>3, <2>4 DEF RingWrites, Push
  <1>2. CASE RingReads
    <2>1. RingInvariant'
      BY <1>2, StartKeeps, ReadKeeps, FailKeeps DEF RingReads
    <2>2. HeardInvariant'
      BY <1>2, StartHeard, ReadHeard, FailHeard DEF RingReads, history
    <2> QED
      BY <2>1, <2>2
  <1> QED
    BY <1>1, <1>2

\* What is not the behaviour's part stands still.
LEMMA RingRests ==
    ASSUME RingInvariant, HeardInvariant, UNCHANGED <<history, ringVars>>
    PROVE  RingInvariant' /\ HeardInvariant'
  <1>1. RingInvariant'
    BY RingKeeps DEF ringVars
  <1>2. HeardInvariant'
    BY DEF history, ringVars, HeardInvariant, HeadStored, Draining, HeaderValid, InvalidIsEmpty,
       Claimed, Index, GotIsPassed, HeardWhole, HeardRises, PassedAccounted, Passed
  <1> QED
    BY <1>1, <1>2

LEMMA PacketsKeep == ASSUME PacketInvariant, [MCNext]_mcVars PROVE PacketInvariant'
  <1>1. CASE RingWrites \/ RingReads
    BY <1>1, RingPartKeeps DEF PacketInvariant, RingWrites, RingReads, RingRest
  <1>2. CASE ServerNext
    BY <1>2, RingRests, RingsKeep, ServerTypes, DeathsKeep, AnswersKeep DEF PacketInvariant, ServerNext
  <1>3. CASE UNCHANGED mcVars
    <2>1. RingInvariant' /\ HeardInvariant'
      BY <1>3, RingRests DEF mcVars, PacketInvariant
    <2>2. part = "server" =>
            (Server!TypeOK /\ RingsInvariant /\ Server!DeathWasSaid /\ FrameAnswers)'
      BY <1>3 DEF mcVars, serverVars, PacketInvariant, Server!TypeOK, Server!Low!RingTypeOK,
         Server!Raw!RingTypeOK, RingsInvariant, DispatchedIsSent, HooksFollow, Server!DeathWasSaid, Server!Raced,
         FrameAnswers, Server!Low!RingInvariant, Server!Low!ReaderBehind, Server!Low!WritesClaimed,
         Server!Low!SlotsFromPast, Server!Low!HeaderFirst, Server!Low!SlotsHold,
         Server!Low!GotIsSent, Server!Low!Claimed, Server!Low!Index, Server!Raw!RingInvariant,
         Server!Raw!ReaderBehind, Server!Raw!WritesClaimed, Server!Raw!SlotsFromPast,
         Server!Raw!HeaderFirst, Server!Raw!SlotsHold, Server!Raw!GotIsSent, Server!Raw!Claimed,
         Server!Raw!Index
    <2> QED
      BY <1>3, <2>1, <2>2 DEF PacketInvariant, mcVars
  <1> QED
    BY <1>1, <1>2, <1>3 DEF MCNext

\* Whatever the sizes of the rings, the number of packets and of objects: a
\* reader that takes no lock gets what was sent, in order, each packet once,
\* except what it was too slow for; and so do the two of the bot.
THEOREM RingsAreHeard == MCSpec => []RingIsHeard
  <1>1. PacketInvariant => RingIsHeard
    <2> SUFFICES ASSUME PacketInvariant PROVE RingIsHeard
      OBVIOUS
    <2>1. RingTypeOK /\ ReaderBehind /\ SlotsHold /\ GotIsSent
      BY DEF PacketInvariant, RingInvariant
    <2>2. HeardInOrder
      BY DEF PacketInvariant, HeardInvariant, HeardInOrder, HeardRises, PassedAccounted, Passed
    <2>3. ServerTypeOK /\ RingsSound
      BY DEF PacketInvariant, ServerTypeOK, RingsSound, Server!RingsSound, RingsInvariant,
         Server!Low!RingInvariant, Server!Raw!RingInvariant
    <2> QED
      BY <2>1, <2>2, <2>3 DEF RingIsHeard
  <1> QED
    BY <1>1, PacketsBegin, PacketsKeep, PTL DEF MCSpec

\* The bot takes an object for dead or gone only if the server said so, however
\* late, torn or repeated it reads.
THEOREM DeathsWereSaid == MCSpec => []AnswersWereSaid
  <1>1. PacketInvariant => AnswersWereSaid
    BY DEF PacketInvariant, AnswersWereSaid, DeathWasSaid
  <1> QED
    BY <1>1, PacketsBegin, PacketsKeep, PTL DEF MCSpec

\* The second answer that a tick gets about damage names no target that the
\* first did not.
THEOREM DamageFades == MCSpec => DamageOnlyFades
  <1>1. PacketInvariant /\ [MCNext]_mcVars => [part = "server" => Server!OnlyFades]_mcVars
    <2> SUFFICES ASSUME PacketInvariant, MCNext, part = "server" PROVE Server!OnlyFades
      OBVIOUS
    <2>1. ServerNext
      BY DEF MCNext, RingWrites, RingReads
    <2> QED
      BY <2>1, AnswersKeep DEF ServerNext, PacketInvariant
  <1> QED
    BY <1>1, PacketsBegin, PacketsKeep, PTL DEF MCSpec, DamageOnlyFades

-----------------------------------------------------------------------------
(***************************************************************************)
(* What Retained makes of a queue.                                          *)
(***************************************************************************)

\* Induction, in a form that needs no operator: a set of numbers up to a
\* bound has a least one, since the intervals below them have.
LEMMA LeastOf ==
    ASSUME NEW bound \in Nat, NEW B \in SUBSET (0 .. bound), B # {}
    PROVE  \E least \in B : \A n \in B : least <= n
  <1> DEFINE below == {1 .. n : n \in B}
  <1> DEFINE order == StrictSubsetOrdering(1 .. bound)
  <1>1. IsFiniteSet(1 .. bound)
    BY FS_Interval
  <1>2. IsWellFoundedOn(order, SUBSET (1 .. bound))
    BY <1>1, FS_StrictSubsetOrderingWellFounded, FS_FiniteSubsetsOfFinite
  <1>3. below \subseteq SUBSET (1 .. bound) /\ below # {}
    <2>1. ASSUME NEW n \in B PROVE 1 .. n \subseteq 1 .. bound
      OBVIOUS
    <2> QED
      BY <2>1, Zenon
  <1>4. \E x \in below : \A y \in below : <<y, x>> \notin order
    <2> HIDE DEF below, order
    <2> QED
      BY <1>2, <1>3, WFMin
  <1>5. PICK least \in B : \A y \in below : <<y, 1 .. least>> \notin order
    <2> HIDE DEF order
    <2> QED
      BY <1>4
  <1>6. ASSUME NEW n \in B PROVE least <= n
    <2> SUFFICES ASSUME n < least PROVE FALSE
      OBVIOUS
    <2>1. 1 .. n \subseteq 1 .. least /\ 1 .. n # 1 .. least
      <3>1. least \in 1 .. least /\ least \notin 1 .. n
        OBVIOUS
      <3> QED
        BY <3>1
    <2>2. <<1 .. n, 1 .. least>> \in order
      <3>1. 1 .. n \in SUBSET (1 .. bound) /\ 1 .. least \in SUBSET (1 .. bound)
        BY <1>3
      <3> QED
        BY <2>1, <3>1, Zenon DEF StrictSubsetOrdering
    <2> QED
      BY <1>5, <2>2
  <1> QED
    BY <1>6

\* One function for each bound: what has been kept of the first n.
Keeping(seq, m, g) ==
    g = [n \in 0 .. m |->
            IF n = 0 THEN <<>>
            ELSE IF Fresh(seq[n]) THEN Append(g[n - 1], seq[n]) ELSE g[n - 1]]

\* kept is a part of the first n of seq, in their order.
PartOf(seq, n, kept, S) ==
    /\ kept \in Seq(S) /\ Len(kept) <= n
    /\ \E at \in [1 .. Len(kept) -> 1 .. n] :
          /\ \A i \in 1 .. Len(kept) : kept[i] = seq[at[i]]
          /\ \A i, j \in 1 .. Len(kept) : i < j => at[i] < at[j]

LEMMA PartGrows ==
    ASSUME NEW S, NEW seq \in Seq(S), NEW n \in 1 .. Len(seq), NEW kept, PartOf(seq, n - 1, kept, S)
    PROVE  PartOf(seq, n, kept, S) /\ PartOf(seq, n, Append(kept, seq[n]), S)
  <1>1. kept \in Seq(S) /\ Len(kept) \in Nat /\ Len(kept) <= n - 1 /\ seq[n] \in S
    BY DEF PartOf
  <1>2. PICK at \in [1 .. Len(kept) -> 1 .. n - 1] :
          /\ \A i \in 1 .. Len(kept) : kept[i] = seq[at[i]]
          /\ \A i, j \in 1 .. Len(kept) : i < j => at[i] < at[j]
    BY DEF PartOf
  <1>3. PartOf(seq, n, kept, S)
    <2>1. at \in [1 .. Len(kept) -> 1 .. n]
      BY <1>2
    <2>2. Len(kept) <= n
      BY <1>1
    <2> QED
      BY <1>1, <1>2, <2>1, <2>2, Zenon DEF PartOf
  <1> DEFINE more == Append(kept, seq[n])
  <1> DEFINE wider == [i \in 1 .. Len(kept) + 1 |-> IF i = Len(kept) + 1 THEN n ELSE at[i]]
  <1>4. more \in Seq(S) /\ Len(more) = Len(kept) + 1 /\ Len(more) <= n
    BY <1>1, OneMoreNumber
  <1>5. \A i \in 1 .. Len(kept) : more[i] = kept[i]
    BY <1>1
  <1>6. more[Len(kept) + 1] = seq[n]
    BY <1>1
  <1> HIDE DEF more
  <1>7. wider \in [1 .. Len(kept) + 1 -> 1 .. n]
    BY <1>1, <1>2
  <1>8. \A i \in 1 .. Len(kept) + 1 : more[i] = seq[wider[i]]
    BY <1>1, <1>2, <1>5, <1>6
  <1>9. \A i, j \in 1 .. Len(kept) + 1 : i < j => wider[i] < wider[j]
    <2> SUFFICES ASSUME NEW i \in 1 .. Len(kept) + 1, NEW j \in 1 .. Len(kept) + 1, i < j
                 PROVE  wider[i] < wider[j]
      OBVIOUS
    <2>1. i \in 1 .. Len(kept) /\ wider[i] = at[i] /\ at[i] \in 1 .. n - 1
      BY <1>1, <1>2
    <2>2. CASE j = Len(kept) + 1
      BY <2>1, <2>2
    <2>3. CASE j \in 1 .. Len(kept)
      BY <1>1, <1>2, <2>1, <2>3
    <2> HIDE DEF wider
    <2>4. j = Len(kept) + 1 \/ j \in 1 .. Len(kept)
      BY <1>1
    <2> QED
      BY <2>2, <2>3, <2>4
  <1> HIDE DEF wider
  <1>10. PartOf(seq, n, more, S)
    BY <1>4, <1>7, <1>8, <1>9 DEF PartOf
  <1> QED
    BY <1>3, <1>10 DEF more

LEMMA KeepingAt ==
    ASSUME NEW seq, NEW m, NEW g, Keeping(seq, m, g), NEW n \in 0 .. m
    PROVE  g[n] = IF n = 0 THEN <<>>
                  ELSE IF Fresh(seq[n]) THEN Append(g[n - 1], seq[n]) ELSE g[n - 1]
  <1> DEFINE step(k) == IF k = 0 THEN <<>>
                        ELSE IF Fresh(seq[k]) THEN Append(g[k - 1], seq[k]) ELSE g[k - 1]
  <1>1. g = [k \in 0 .. m |-> step(k)]
    BY DEF Keeping
  <1>2. g[n] = [k \in 0 .. m |-> step(k)][n]
    BY <1>1
  <1>3. [k \in 0 .. m |-> step(k)][n] = step(n)
    OBVIOUS
  <1> QED
    BY <1>2, <1>3

\* There is such a function for each bound, since there is one for the next.
LEMMA KeepingExists ==
    ASSUME NEW S, NEW seq \in Seq(S) PROVE \E g : Keeping(seq, Len(seq), g)
  <1> DEFINE without == {m \in 0 .. Len(seq) : ~\E g : Keeping(seq, m, g)}
  <1>1. SUFFICES ASSUME without # {} PROVE FALSE
    <2>1. Len(seq) \in 0 .. Len(seq)
      OBVIOUS
    <2> QED
      BY <2>1, Zenon
  <1>2. PICK m \in without : \A n \in without : m <= n
    <2>1. Len(seq) \in Nat /\ without \in SUBSET (0 .. Len(seq))
      OBVIOUS
    <2> HIDE DEF without
    <2> QED
      BY <1>1, <2>1, LeastOf
  <1>0. m \in Nat /\ m <= Len(seq) /\ Len(seq) \in Nat
    OBVIOUS
  <1>3. CASE m = 0
    <2>1. Keeping(seq, 0, [n \in 0 .. 0 |-> <<>>])
      <3>1. ASSUME NEW n \in 0 .. 0 PROVE n = 0
        OBVIOUS
      <3> QED
        BY <3>1, Zenon DEF Keeping
    <2> QED
      BY <1>3, <2>1
  <1>4. CASE m # 0
    <2>1. m - 1 \in 0 .. Len(seq) /\ m - 1 \notin without
      BY <1>2, <1>4
    <2>2. PICK g : Keeping(seq, m - 1, g)
      BY <2>1
    <2> DEFINE h == [n \in 0 .. m |->
            IF n = 0 THEN <<>>
            ELSE IF Fresh(seq[n]) THEN Append(g[n - 1], seq[n]) ELSE g[n - 1]]
    <2>3. ASSUME NEW n \in 0 .. m - 1 PROVE h[n] = g[n]
      <3>1. n \in 0 .. m
        BY <1>0, <1>4
      <3> HIDE DEF without
      <3> QED
        BY <2>2, <3>1, KeepingAt
    <2>4. ASSUME NEW n \in 0 .. m, n # 0 PROVE h[n - 1] = g[n - 1]
      <3>1. n - 1 \in 0 .. m - 1
        BY <1>0, <2>4
      <3> HIDE DEF without, h
      <3> QED
        BY <2>3, <3>1
    <2>5. Keeping(seq, m, h)
      BY <2>4 DEF Keeping
    <2> QED
      BY <2>5
  <1> QED
    BY <1>3, <1>4

\* What is retained is a part of the queue, in its order.
LEMMA RetainedIsPart ==
    ASSUME NEW S, NEW seq \in Seq(S) PROVE PartOf(seq, Len(seq), Retained(seq), S)
  <1> DEFINE kept == CHOOSE g : Keeping(seq, Len(seq), g)
  <1>1. Keeping(seq, Len(seq), kept)
    BY KeepingExists
  <1>2. Retained(seq) = kept[Len(seq)]
    BY DEF Retained, Keeping
  <1> HIDE DEF kept
  <1> DEFINE no == {n \in 0 .. Len(seq) : ~PartOf(seq, n, kept[n], S)}
  <1>3. SUFFICES ASSUME no # {} PROVE FALSE
    BY <1>2
  <1>4. PICK n \in no : \A k \in no : n <= k
    <2>1. Len(seq) \in Nat /\ no \in SUBSET (0 .. Len(seq))
      OBVIOUS
    <2> HIDE DEF no
    <2> QED
      BY <1>3, <2>1, LeastOf
  <1>5. CASE n = 0
    <2>1. kept[0] = <<>>
      BY <1>1 DEF Keeping
    <2>2. PartOf(seq, 0, <<>>, S)
      <3> DEFINE at == [i \in 1 .. Len(<<>>) |-> 0]
      <3>1. Len(<<>>) = 0 /\ Len(<<>>) <= 0 /\ <<>> \in Seq(S)
        OBVIOUS
      <3>2. \A i \in 1 .. Len(<<>>) : FALSE
        BY <3>1
      <3>3. at \in [1 .. Len(<<>>) -> 1 .. 0]
        BY <3>2, Zenon
      <3> HIDE DEF no, at
      <3> QED
        BY <3>1, <3>2, <3>3, Zenon DEF PartOf
    <2> QED
      BY <1>5, <2>1, <2>2
  <1>6. CASE n # 0
    <2>1. n \in 1 .. Len(seq) /\ n - 1 \in 0 .. Len(seq) /\ n - 1 \notin no
      BY <1>4, <1>6
    <2>2. PartOf(seq, n - 1, kept[n - 1], S)
      BY <2>1
    <2>3. kept[n] = IF Fresh(seq[n]) THEN Append(kept[n - 1], seq[n]) ELSE kept[n - 1]
      <3>1. n \in 0 .. Len(seq)
        OBVIOUS
      <3> QED
        BY <1>1, <1>6, <3>1, KeepingAt
    <2> QED
      BY <2>1, <2>2, <2>3, PartGrows
  <1> QED
    BY <1>5, <1>6

-----------------------------------------------------------------------------
(***************************************************************************)
(* The notices of what the player picks up.                                 *)
(***************************************************************************)

\* The game hands over each packet that the server sends.
SentClaimed == sent \in Seq(Packets) /\ Len(sent) = ring.tail
\* A slot that is valid has a packet.
ValidNumbered == \A i \in 0 .. Slots - 1 : ring.slots[i].valid => ring.slots[i].opcode >= 1

\* The gains of a kind that the reader has passed.
Gained(k) == {n \in 1 .. reader.at : sent[n] = k}
GainsCounted ==
    ~reader.raced => \A k \in FloatKinds : floats[k].amount <= Cardinality(Gained(k))

QueueOK == toasts \in Toasts /\ floats \in Floats /\ ToastsInOrder

SourceInvariant == RingInvariant /\ HeadStored /\ SentClaimed /\ ValidNumbered

LEMMA ToastsAreSeqs ==
    ASSUME NEW t
    PROVE  t \in Toasts <=> t \in Seq(Ages(ToastTtl)) /\ Len(t) <= ToastMax
  <1> USE NoticesAssumption
  <1>1. ASSUME t \in Toasts PROVE t \in Seq(Ages(ToastTtl)) /\ Len(t) <= ToastMax
    <2>1. PICK m \in 0 .. ToastMax : t \in [1 .. m -> Ages(ToastTtl)]
      BY <1>1 DEF Toasts, BoundedSeq, SeqOf
    <2>2. m \in Nat /\ m <= ToastMax
      OBVIOUS
    <2> HIDE DEF Ages
    <2>3. t \in Seq(Ages(ToastTtl)) /\ Len(t) = m
      BY <2>1, <2>2
    <2> QED
      BY <2>2, <2>3
  <1>2. ASSUME t \in Seq(Ages(ToastTtl)), Len(t) <= ToastMax PROVE t \in Toasts
    <2>1. Len(t) \in 0 .. ToastMax /\ t \in [1 .. Len(t) -> Ages(ToastTtl)]
      BY <1>2
    <2> QED
      BY <2>1, Zenon DEF Toasts, BoundedSeq, SeqOf
  <1> QED
    BY <1>1, <1>2

\* A notice is put at the end of the toasts, or counted.
LEMMA PushedQueue ==
    ASSUME QueueOK, NEW notice \in Notices, Pushed(notice)
    PROVE  /\ QueueOK'
           /\ \A k \in FloatKinds :
                 /\ floats'[k].amount <= floats[k].amount + 1
                 /\ k # notice => floats'[k].amount <= floats[k].amount
  <1> USE NoticesAssumption
  <1>0. \A k \in FloatKinds : floats[k].amount \in Nat
    BY DEF QueueOK, Floats
  <1>1. CASE notice = "toast"
    <2> DEFINE room == IF Len(toasts) >= ToastMax THEN Tail(toasts) ELSE toasts
    <2>0. toasts \in Seq(Ages(ToastTtl)) /\ Len(toasts) \in Nat /\ Len(toasts) <= ToastMax
      BY ToastsAreSeqs DEF QueueOK
    <2>1. room \in Seq(Ages(ToastTtl)) /\ Len(room) \in Nat /\ Len(room) < ToastMax
      <3>1. CASE Len(toasts) >= ToastMax
        <4>1. toasts # <<>>
          BY <2>0, <3>1
        <4> QED
          BY <2>0, <3>1, <4>1
      <3>2. CASE ~(Len(toasts) >= ToastMax)
        BY <2>0, <3>2
      <3> QED
        BY <3>1, <3>2
    <2>2. \A i, j \in 1 .. Len(room) : i < j => room[i] >= room[j]
      <3>1. CASE Len(toasts) >= ToastMax
        <4>1. toasts # <<>>
          BY <2>0, <3>1
        <4>2. /\ Len(room) = Len(toasts) - 1
              /\ \A i \in 1 .. Len(room) : room[i] = toasts[i + 1] /\ i + 1 \in DOMAIN toasts
          BY <2>0, <3>1, <4>1
        <4> HIDE DEF room
        <4> SUFFICES ASSUME NEW i \in 1 .. Len(room), NEW j \in 1 .. Len(room), i < j
                     PROVE  room[i] >= room[j]
          OBVIOUS
        <4>3. i + 1 \in DOMAIN toasts /\ j + 1 \in DOMAIN toasts /\ i + 1 < j + 1
          BY <4>2
        <4>4. toasts[i + 1] >= toasts[j + 1]
          BY <4>3 DEF QueueOK, ToastsInOrder
        <4> QED
          BY <4>2, <4>4
      <3>2. CASE ~(Len(toasts) >= ToastMax)
        BY <2>0, <3>2 DEF QueueOK, ToastsInOrder
      <3> QED
        BY <3>1, <3>2
    <2>3. toasts' = Append(room, 0) /\ floats' = floats
      BY <1>1 DEF Pushed
    <2>4. 0 \in Ages(ToastTtl)
      BY DEF Ages
    <2> HIDE DEF room
    <2>5. /\ toasts' \in Seq(Ages(ToastTtl)) /\ Len(toasts') = Len(room) + 1
          /\ DOMAIN toasts' = 1 .. Len(room) + 1
          /\ \A i \in 1 .. Len(room) : toasts'[i] = room[i] /\ room[i] \in Nat
          /\ toasts'[Len(room) + 1] = 0
      BY <2>1, <2>3, <2>4 DEF Ages
    <2>6. toasts' \in Toasts
      <3>1. Len(toasts') <= ToastMax
        BY <2>1, <2>5
      <3> QED
        BY <2>5, <3>1, ToastsAreSeqs
    <2>7. ToastsInOrder'
      <3> SUFFICES ASSUME NEW i \in 1 .. Len(room) + 1, NEW j \in 1 .. Len(room) + 1, i < j
                   PROVE  toasts'[i] >= toasts'[j]
        BY <2>5 DEF ToastsInOrder
      <3>1. CASE j = Len(room) + 1
        BY <2>1, <2>5, <3>1
      <3>2. CASE j # Len(room) + 1
        BY <2>1, <2>2, <2>5, <3>2
      <3> QED
        BY <3>1, <3>2
    <2> QED
      BY <1>0, <2>3, <2>6, <2>7 DEF QueueOK
  <1>2. CASE notice # "toast"
    <2>1. toasts' = toasts /\ notice \in FloatKinds
      BY <1>2 DEF Pushed, Notices
    <2>2. PICK amount \in 0 .. AmountMax :
            /\ amount <= floats[notice].amount + 1
            /\ floats' = [floats EXCEPT ![notice] = [on |-> TRUE, age |-> 0, amount |-> amount]]
      <3> DEFINE amount == IF floats[notice].amount < AmountMax
                           THEN floats[notice].amount + 1 ELSE floats[notice].amount
      <3>1. amount \in 0 .. AmountMax /\ amount <= floats[notice].amount + 1
        <4>1. floats[notice].amount \in 0 .. AmountMax
          BY <2>1 DEF QueueOK, Floats
        <4> QED
          BY <4>1
      <3>2. floats' = [floats EXCEPT ![notice] = [on |-> TRUE, age |-> 0, amount |-> amount]]
        BY <1>2, <2>1 DEF Pushed, QueueOK, Floats
      <3> QED
        BY <3>1, <3>2
    <2>3. floats' \in Floats
      BY <2>1, <2>2 DEF Floats, QueueOK, Ages
    <2>4. ASSUME NEW k \in FloatKinds
          PROVE  /\ floats'[k].amount <= floats[k].amount + 1
                 /\ k # notice => floats'[k].amount <= floats[k].amount
      BY <1>0, <2>1, <2>2 DEF Floats, QueueOK
    <2> QED
      BY <2>1, <2>3, <2>4 DEF QueueOK, ToastsInOrder
  <1> QED
    BY <1>1, <1>2

LEMMA ReceivedQueue ==
    ASSUME QueueOK, NEW p, Received(p)
    PROVE  /\ QueueOK'
           /\ \A k \in FloatKinds :
                 /\ floats'[k].amount <= floats[k].amount + 1
                 /\ k # p => floats'[k].amount <= floats[k].amount
  <1>1. CASE p \in Notices /\ Switch(p) \in enabled
    BY <1>1, PushedQueue DEF Received
  <1>2. CASE UNCHANGED notices
    <2>1. \A k \in FloatKinds : floats[k].amount \in Nat
      BY DEF QueueOK, Floats
    <2> QED
      BY <1>2, <2>1 DEF notices, QueueOK, ToastsInOrder
  <1> QED
    BY <1>1, <1>2 DEF Received

\* Time goes on for every notice alike.
LEMMA OlderQueue ==
    ASSUME QueueOK, NoticesAge
    PROVE  QueueOK' /\ \A k \in FloatKinds : floats'[k].amount = floats[k].amount
  <1> USE NoticesAssumption
  <1>0. toasts \in Seq(Ages(ToastTtl)) /\ Len(toasts) \in Nat /\ Len(toasts) <= ToastMax
    BY ToastsAreSeqs DEF QueueOK
  <1>1. \A old \in Ages(ToastTtl) : Ageing(old, ToastTtl) \in Ages(ToastTtl)
    BY DEF Ageing, Ages
  <1>2. \A old \in Ages(FloatTtl) : Ageing(old, FloatTtl) \in Ages(FloatTtl)
    BY DEF Ageing, Ages
  <1>3. /\ toasts' = [i \in 1 .. Len(toasts) |-> Ageing(toasts[i], ToastTtl)]
        /\ \A i \in 1 .. Len(toasts) : toasts[i] \in Ages(ToastTtl)
    BY <1>0 DEF NoticesAge
  <1>4. toasts' \in Toasts
    <2>1. toasts' \in [1 .. Len(toasts) -> Ages(ToastTtl)]
      BY <1>1, <1>3, Zenon
    <2>2. toasts' \in Seq(Ages(ToastTtl)) /\ Len(toasts') = Len(toasts)
      BY <1>0, <2>1
    <2> QED
      BY <1>0, <2>2, ToastsAreSeqs
  <1>5. ToastsInOrder'
    <2> SUFFICES ASSUME NEW i \in 1 .. Len(toasts), NEW j \in 1 .. Len(toasts), i < j
                 PROVE  Ageing(toasts[i], ToastTtl) >= Ageing(toasts[j], ToastTtl)
      BY <1>3 DEF ToastsInOrder
    <2>1. toasts[i] >= toasts[j]
      BY <1>0 DEF QueueOK, ToastsInOrder
    <2> QED
      BY <1>3, <2>1 DEF Ageing, Ages
  <1>6. floats' \in Floats /\ \A k \in FloatKinds : floats'[k].amount = floats[k].amount
    <2>1. floats' = [k \in FloatKinds |->
             IF floats[k].on
             THEN [floats[k] EXCEPT !.age = Ageing(@, FloatTtl)] ELSE floats[k]]
      BY DEF NoticesAge
    <2>2. ASSUME NEW k \in FloatKinds
          PROVE  /\ floats'[k] \in [on : BOOLEAN, age : Ages(FloatTtl), amount : 0 .. AmountMax]
                 /\ floats'[k].amount = floats[k].amount
      <3>1. floats[k] \in [on : BOOLEAN, age : Ages(FloatTtl), amount : 0 .. AmountMax]
        BY DEF QueueOK, Floats
      <3>2. floats'[k] = [floats[k] EXCEPT !.age = Ageing(floats[k].age, FloatTtl)] \/ floats'[k] = floats[k]
        BY <2>1
      <3> QED
        BY <1>2, <3>1, <3>2
    <2>3. DOMAIN floats' = FloatKinds
      BY <2>1
    <2> QED
      BY <2>1, <2>2 DEF Floats
  <1> QED
    BY <1>4, <1>5, <1>6 DEF QueueOK

\* What is too old goes, and what stays keeps its place.
LEMMA TickedQueue ==
    ASSUME QueueOK, FinishPoll
    PROVE  QueueOK' /\ \A k \in FloatKinds : floats'[k].amount <= floats[k].amount
  <1> USE NoticesAssumption
  <1>0. toasts \in Seq(Ages(ToastTtl)) /\ Len(toasts) \in Nat /\ Len(toasts) <= ToastMax
    BY ToastsAreSeqs DEF QueueOK
  <1>1. toasts' = Retained(toasts)
    BY DEF FinishPoll
  <1>2. PartOf(toasts, Len(toasts), toasts', Ages(ToastTtl))
    BY <1>0, <1>1, RetainedIsPart
  <1>3. toasts' \in Seq(Ages(ToastTtl)) /\ Len(toasts') \in Nat /\ Len(toasts') <= Len(toasts)
    BY <1>2 DEF PartOf
  <1>4. toasts' \in Toasts
    <2>1. Len(toasts') <= ToastMax
      BY <1>0, <1>3
    <2> QED
      BY <1>3, <2>1, ToastsAreSeqs
  <1>5. ToastsInOrder'
    <2>1. PICK at \in [1 .. Len(toasts') -> 1 .. Len(toasts)] :
            /\ \A i \in 1 .. Len(toasts') : toasts'[i] = toasts[at[i]]
            /\ \A i, j \in 1 .. Len(toasts') : i < j => at[i] < at[j]
      BY <1>2 DEF PartOf
    <2>2. DOMAIN toasts' = 1 .. Len(toasts')
      BY <1>3
    <2> SUFFICES ASSUME NEW i \in 1 .. Len(toasts'), NEW j \in 1 .. Len(toasts'), i < j
                 PROVE  toasts'[i] >= toasts'[j]
      BY <2>2 DEF ToastsInOrder
    <2>3. at[i] \in DOMAIN toasts /\ at[j] \in DOMAIN toasts /\ at[i] < at[j]
      BY <1>0, <2>1
    <2> QED
      BY <2>1, <2>3 DEF QueueOK, ToastsInOrder
  <1>6. floats' \in Floats /\ \A k \in FloatKinds : floats'[k].amount <= floats[k].amount
    <2>1. floats' = [k \in FloatKinds |-> IF Alive(floats[k]) THEN floats[k] ELSE NoFloat]
      BY DEF FinishPoll
    <2>2. NoFloat \in [on : BOOLEAN, age : Ages(FloatTtl), amount : 0 .. AmountMax] /\ NoFloat.amount = 0
      BY DEF NoFloat, Ages
    <2>3. \A k \in FloatKinds :
             /\ floats[k] \in [on : BOOLEAN, age : Ages(FloatTtl), amount : 0 .. AmountMax]
             /\ floats[k].amount \in Nat
      BY DEF QueueOK, Floats
    <2> HIDE DEF NoFloat
    <2>4. floats' \in Floats
      BY <2>1, <2>2, <2>3 DEF Floats
    <2>5. ASSUME NEW k \in FloatKinds PROVE floats'[k].amount <= floats[k].amount
      <3>1. floats'[k] = floats[k] \/ floats'[k] = NoFloat
        BY <2>1
      <3> QED
        BY <2>2, <2>3, <3>1
    <2> QED
      BY <2>4, <2>5
  <1> QED
    BY <1>4, <1>5, <1>6 DEF QueueOK

\* A step of the notices is a step of their ring, or takes away what a drain gave.
LEMMA NoticeRingSteps ==
    ASSUME NoticesNext
    PROVE  [RingNext]_ringVars \/ (ring' = ring /\ reader' = [reader EXCEPT !.got = {}])
  <1> USE DEF ringVars
  <1>1. CASE World
    BY <1>1 DEF World, Arrives, HookWrites, GameWindowChanges, NoticesAge, RingNext, Push
  <1>2. CASE Polling
    BY <1>2 DEF Polling, StartPoll, ReadOne, FinishPoll, RingNext, Drain
  <1>3. CASE Render \/ OverlayEnds
    BY <1>3 DEF Render, OverlayEnds
  <1> QED
    BY <1>1, <1>2, <1>3 DEF NoticesNext

LEMMA HeadStays == ASSUME RingInvariant, HeadStored, NoticesNext PROVE HeadStored'
  <1> USE Parts DEF RingInvariant
  <1>1. CASE StartDrain
    <2>1. reader' = [head |-> reader.head, at |-> CaughtUp, seen |-> ring.tail, got |-> {},
                     raced |-> reader.raced]
      BY <1>1 DEF StartDrain, RingTypeOK
    <2>2. CaughtUp = ring.tail => reader.head = CaughtUp
      BY RingAssumption DEF CaughtUp
    <2> QED
      BY <2>1, <2>2 DEF HeadStored, Draining
  <1>2. CASE ReadSlot
    <2>1. reader'.at = reader.at + 1 /\ reader'.head = Stored(reader.at + 1) /\ reader'.seen = reader.seen
      BY <1>2 DEF ReadSlot, RingTypeOK
    <2> QED
      BY <2>1 DEF HeadStored, Draining, Stored
  <1>3. CASE ReadFails
    BY <1>3 DEF ReadFails, HeadStored, RingTypeOK
  <1>4. CASE reader' = reader \/ reader' = [reader EXCEPT !.got = {}]
    BY <1>4 DEF HeadStored, Draining, RingTypeOK
  <1> QED
    BY <1>1, <1>2, <1>3, <1>4, NoticeRingSteps DEF RingNext, ringVars, Push, Claim, WriteHeader,
       WritePayload, WriteNothing, Drain

LEMMA SourceKeeps == ASSUME SourceInvariant, NoticesNext PROVE SourceInvariant'
  <1> USE RingAssumption, Parts DEF SourceInvariant, RingInvariant
  <1>1. RingInvariant'
    BY NoticeRingSteps, RingKeeps, TakenKeeps
  <1>2. HeadStored'
    BY HeadStays
  <1>3. SentClaimed' /\ ValidNumbered'
    <2>1. CASE Arrives
      <3>1. PICK p \in Packets : sent' = Append(sent, p)
        BY <2>1 DEF Arrives
      <3>2. ring'.tail = ring.tail + 1 /\ ring'.slots = ring.slots
        BY <2>1 DEF Arrives, Claim, RingTypeOK
      <3> QED
        BY <3>1, <3>2, OneMoreNumber DEF SentClaimed, ValidNumbered
    <2>2. CASE HookWrites
      <3>0. Claimed \in 0 .. Slots - 1 /\ ring.tail >= 1
        <4>1. ring.tail - 1 \in Nat /\ ring.tail >= 1
          BY <2>2 DEF WritesClaimed, HookWrites, WriteHeader, WritePayload
        <4>2. Index(ring.tail - 1) \in 0 .. Slots - 1
          BY <4>1, IndexInRing
        <4> QED
          BY <4>1, <4>2 DEF Claimed
      <3>1. sent' = sent /\ ring'.tail = ring.tail
        BY <2>2 DEF HookWrites, WriteHeader, WritePayload, RingTypeOK
      <3>2. ASSUME NEW i \in 0 .. Slots - 1, ring'.slots[i].valid PROVE ring'.slots[i].opcode >= 1
        <4>1. CASE WriteHeader
          <5>1. i = Claimed => ring'.slots[i].opcode = ring.tail
            BY <3>0, <4>1 DEF WriteHeader, RingTypeOK
          <5>2. i # Claimed => ring'.slots[i] = ring.slots[i]
            BY <3>0, <4>1 DEF WriteHeader, RingTypeOK
          <5> QED
            BY <3>0, <3>2, <5>1, <5>2 DEF ValidNumbered
        <4>2. CASE WritePayload
          <5>1. i = Claimed => ring'.slots[i] = [ring.slots[i] EXCEPT !.body = ring.tail]
            BY <3>0, <4>2 DEF WritePayload, RingTypeOK
          <5>2. i # Claimed => ring'.slots[i] = ring.slots[i]
            BY <3>0, <4>2 DEF WritePayload, RingTypeOK
          <5>3. ring.slots[i] \in Slot
            OBVIOUS
          <5>4. ring'.slots[i].opcode = ring.slots[i].opcode /\ ring'.slots[i].valid = ring.slots[i].valid
            BY <5>1, <5>2, <5>3 DEF Slot
          <5> QED
            BY <3>2, <5>4 DEF ValidNumbered
        <4> QED
          BY <2>2, <4>1, <4>2 DEF HookWrites
      <3> QED
        BY <3>1, <3>2 DEF SentClaimed, ValidNumbered
    <2>3. CASE UNCHANGED <<sent, ring>>
      BY <2>3 DEF SentClaimed, ValidNumbered
    <2>4. ~Arrives /\ ~HookWrites => UNCHANGED <<sent, ring>>
      BY DEF NoticesNext, World, Polling, Arrives, HookWrites, GameWindowChanges, NoticesAge, StartPoll, ReadOne,
         FinishPoll, Render, OverlayEnds, StartDrain, ReadSlot, ReadFails
    <2> QED
      BY <2>1, <2>2, <2>3, <2>4
  <1> QED
    BY <1>1, <1>2, <1>3

\* What the reader gets of a slot that the game has left is the next packet.
LEMMA ReadGets ==
    ASSUME SourceInvariant, ReadSlot, ring.slots[Index(reader.at)].valid
    PROVE  LET slot == ring.slots[Index(reader.at)]
           IN /\ slot.opcode \in 1 .. Len(sent)
              /\ ~reader'.raced => slot.opcode = reader.at + 1 /\ slot.body = reader.at + 1
  <1> USE RingAssumption, Parts DEF SourceInvariant, RingInvariant
  <1> DEFINE p == reader.at
  <1> DEFINE slot == ring.slots[Index(p)]
  <1>0. p \in 0 .. MaxPackets - 1 /\ p < ring.tail
    BY DEF ReadSlot, Draining, ReaderBehind, Numbers
  <1>1. Index(p) \in 0 .. Slots - 1 /\ slot \in Slot
    BY <1>0, IndexInRing
  <1>2. slot.opcode \in 1 .. Len(sent)
    BY <1>1 DEF ValidNumbered, SlotsFromPast, SentClaimed, Slot, Numbers
  <1>3. ASSUME ~reader'.raced PROVE slot.opcode = p + 1 /\ slot.body = p + 1
    <2>1. ~Racing(p)
      BY <1>3 DEF ReadSlot, RingTypeOK
    <2> QED
      BY <1>0, <2>1 DEF SlotsHold, Racing
  <1> QED
    BY <1>2, <1>3

\* The slot of packets that a step of the reader passes, and that the queue gets.
LEMMA ReadQueue ==
    ASSUME SourceInvariant, QueueOK, ReadOne
    PROVE  /\ QueueOK'
           /\ \A k \in FloatKinds :
                 \/ floats'[k].amount <= floats[k].amount
                 \/ reader'.raced
                 \/ /\ floats'[k].amount <= floats[k].amount + 1
                    /\ reader'.at = reader.at + 1 /\ sent[reader.at + 1] = k
  <1> DEFINE slot == ring.slots[Index(reader.at)]
  <1>0. \A k \in FloatKinds : floats[k].amount \in Nat
    BY DEF QueueOK, Floats
  <1>1. CASE UNCHANGED notices
    BY <1>0, <1>1 DEF notices, QueueOK, ToastsInOrder
  <1>2. CASE ReadSlot /\ slot.valid /\ ~UNCHANGED notices
    <2>1. PICK p \in Packets : Received(p) /\ (slot.opcode = slot.body => p = sent[slot.opcode])
      <3>1. sent[slot.opcode] \in Packets
        BY <1>2, ReadGets DEF SourceInvariant, SentClaimed
      <3> QED
        BY <1>2, <3>1 DEF ReadOne, ReadFails
    <2>2. /\ QueueOK'
          /\ \A k \in FloatKinds :
                 /\ floats'[k].amount <= floats[k].amount + 1
                 /\ k # p => floats'[k].amount <= floats[k].amount
      BY <2>1, ReceivedQueue
    <2>3. reader'.at = reader.at + 1
      BY <1>2 DEF ReadSlot, SourceInvariant, RingInvariant, RingTypeOK
    <2>4. ~reader'.raced => p = sent[reader.at + 1]
      BY <1>2, <2>1, ReadGets
    <2> QED
      BY <2>2, <2>3, <2>4
  <1> QED
    BY <1>1, <1>2 DEF ReadOne

LEMMA QueueKeeps == ASSUME SourceInvariant, QueueOK, NoticesNext PROVE QueueOK'
  <1>1. CASE ReadOne
    BY <1>1, ReadQueue
  <1>2. CASE FinishPoll
    BY <1>2, TickedQueue
  <1>3. CASE NoticesAge
    BY <1>3, OlderQueue
  <1>4. CASE UNCHANGED notices
    BY <1>4 DEF notices, QueueOK, ToastsInOrder
  <1>5. ~ReadOne /\ ~FinishPoll /\ ~NoticesAge => UNCHANGED notices
    BY DEF NoticesNext, World, Polling, Arrives, HookWrites, GameWindowChanges, StartPoll, Render, OverlayEnds
  <1> QED
    BY <1>1, <1>2, <1>3, <1>4, <1>5

LEMMA FiniteUpTo ==
    ASSUME NEW n \in Nat, NEW B, B \subseteq 1 .. n
    PROVE  IsFiniteSet(B) /\ Cardinality(B) \in Nat
  <1>1. 1 \in Int /\ n \in Int
    OBVIOUS
  <1>2. IsFiniteSet(1 .. n)
    BY <1>1, FS_Interval, Zenon
  <1> QED
    BY <1>2, FS_Subset, FS_CardinalityType, Zenon

LEMMA GainsKeep == ASSUME SourceInvariant, QueueOK, GainsCounted, NoticesNext PROVE GainsCounted'
  <1> USE RingAssumption, Parts DEF SourceInvariant, RingInvariant
  <1> SUFFICES ASSUME ~reader'.raced, NEW k \in FloatKinds
               PROVE  floats'[k].amount <= Cardinality(Gained(k)')
    BY DEF GainsCounted
  <1>0. floats[k].amount \in Nat /\ floats'[k].amount \in Nat
    BY QueueKeeps DEF QueueOK, Floats
  <1>1. ~reader.raced
    <2>1. [RingNext]_ringVars => ~reader.raced
      BY RaceStands
    <2>2. reader' = [reader EXCEPT !.got = {}] => ~reader.raced
      BY DEF RingTypeOK
    <2> QED
      BY <2>1, <2>2, NoticeRingSteps
  <1>2. reader.at <= Len(sent) /\ reader.at <= reader'.at /\ reader'.at \in Nat
    <2>1. RingTypeOK' /\ ReaderBehind'
      BY SourceKeeps
    <2>2. CASE reader' = reader \/ reader' = [reader EXCEPT !.got = {}]
      BY <2>2 DEF SentClaimed, ReaderBehind, RingTypeOK, Numbers
    <2>3. CASE StartDrain
      <3>1. reader'.at = CaughtUp
        BY <2>3 DEF StartDrain, RingTypeOK
      <3>2. reader.head = reader.at
        BY <2>3 DEF StartDrain, HeadStored
      <3> QED
        BY <2>1, <3>1, <3>2 DEF CaughtUp, SentClaimed, ReaderBehind, RingTypeOK, Numbers
    <2>4. CASE ReadSlot
      <3>1. reader'.at = reader.at + 1
        BY <2>4 DEF ReadSlot, RingTypeOK
      <3> QED
        BY <3>1 DEF SentClaimed, ReaderBehind, Numbers
    <2>5. CASE ReadFails
      <3>1. reader'.at = reader.at
        BY <2>5 DEF ReadFails, RingTypeOK
      <3> QED
        BY <3>1 DEF SentClaimed, ReaderBehind, Numbers
    <2> QED
      BY <2>2, <2>3, <2>4, <2>5, NoticeRingSteps DEF RingNext, ringVars, Push, Claim, WriteHeader,
         WritePayload, WriteNothing, Drain
  <1>3. \A n \in 1 .. reader.at : sent'[n] = sent[n]
    <2>1. CASE Arrives
      <3>1. PICK p \in Packets : sent' = Append(sent, p)
        BY <2>1 DEF Arrives
      <3>2. \A n \in DOMAIN sent : sent'[n] = sent[n]
        BY <3>1, OneMoreNumber DEF SentClaimed
      <3> QED
        BY <1>2, <3>2 DEF SentClaimed
    <2>2. ~Arrives => sent' = sent
      BY DEF NoticesNext, World, Polling, HookWrites, GameWindowChanges, NoticesAge, StartPoll, ReadOne,
         FinishPoll, Render, OverlayEnds
    <2> QED
      BY <2>1, <2>2
  <1>4. /\ IsFiniteSet(Gained(k)) /\ IsFiniteSet(Gained(k)')
        /\ Cardinality(Gained(k)) \in Nat /\ Cardinality(Gained(k)') \in Nat
    <2>1. Gained(k) \subseteq 1 .. reader.at /\ Gained(k)' \subseteq 1 .. reader'.at
      BY DEF Gained
    <2>2. reader.at \in Nat /\ reader'.at \in Nat
      BY <1>2
    <2> QED
      BY <2>1, <2>2, FiniteUpTo
  <1>5. Gained(k) \subseteq Gained(k)'
    BY <1>2, <1>3 DEF Gained
  <1>6. floats[k].amount <= Cardinality(Gained(k))
    BY <1>1 DEF GainsCounted
  <1>7. CASE floats'[k].amount <= floats[k].amount
    <2>1. Cardinality(Gained(k)) <= Cardinality(Gained(k)')
      BY <1>4, <1>5, FS_Subset
    <2> QED
      BY <1>0, <1>4, <1>6, <1>7, <2>1
  <1>8. CASE ReadOne /\ ~(floats'[k].amount <= floats[k].amount)
    <2>1. /\ floats'[k].amount <= floats[k].amount + 1
          /\ reader'.at = reader.at + 1 /\ sent[reader.at + 1] = k /\ sent' = sent
      BY <1>8, ReadQueue DEF ReadOne
    <2>2. reader.at + 1 \in Gained(k)' /\ reader.at + 1 \notin Gained(k)
      BY <1>2, <2>1 DEF Gained
    <2>3. Cardinality(Gained(k) \cup {reader.at + 1}) = Cardinality(Gained(k)) + 1
      BY <1>4, <2>2, FS_AddElement
    <2>4. Cardinality(Gained(k) \cup {reader.at + 1}) <= Cardinality(Gained(k)')
      BY <1>4, <1>5, <2>2, FS_Subset
    <2> QED
      BY <1>0, <1>4, <1>6, <2>1, <2>3, <2>4
  <1>9. CASE ~ReadOne
    <2>1. floats'[k].amount <= floats[k].amount
      <3>1. CASE FinishPoll
        BY <3>1, TickedQueue
      <3>2. CASE NoticesAge
        BY <1>0, <3>2, OlderQueue
      <3>3. ~FinishPoll /\ ~NoticesAge => floats' = floats
        BY <1>9 DEF NoticesNext, World, Polling, Arrives, HookWrites, GameWindowChanges, StartPoll, Render,
           OverlayEnds, notices
      <3> QED
        BY <1>0, <3>1, <3>2, <3>3
    <2> QED
      BY <1>7, <2>1
  <1> QED
    BY <1>7, <1>8, <1>9

\* The switches and what the overlay's thread knows.
RestTyped ==
    /\ enabled \subseteq {"toast", "float"} /\ poll \in {"drain", "dispatch"} /\ snapshot \in BOOLEAN
    /\ overlay \in [running : BOOLEAN, drawn : BOOLEAN, visible : BOOLEAN]
    /\ inFront \in BOOLEAN

LEMMA RestKeeps == ASSUME RestTyped, NoticesNext PROVE RestTyped'
  <1>1. enabled' \subseteq {"toast", "float"} /\ poll' \in {"drain", "dispatch"}
    BY DEF RestTyped, NoticesNext, World, Polling, Arrives, HookWrites, GameWindowChanges, NoticesAge, StartPoll,
       ReadOne, FinishPoll, Render, OverlayEnds
  <1>2. snapshot' \in BOOLEAN
    <2>1. CASE FinishPoll
      BY <2>1 DEF FinishPoll
    <2>2. ~FinishPoll => snapshot' = snapshot
      BY DEF NoticesNext, World, Polling, Arrives, HookWrites, GameWindowChanges, NoticesAge, StartPoll, ReadOne,
         Render, OverlayEnds
    <2> QED
      BY <2>1, <2>2 DEF RestTyped
  <1>3. overlay' \in [running : BOOLEAN, drawn : BOOLEAN, visible : BOOLEAN]
    <2>1. CASE Render
      BY <2>1 DEF Render, RestTyped
    <2>2. CASE OverlayEnds
      BY <2>2 DEF OverlayEnds
    <2>3. ~Render /\ ~OverlayEnds => overlay' = overlay
      BY DEF NoticesNext, World, Polling, Arrives, HookWrites, GameWindowChanges, NoticesAge, StartPoll, ReadOne,
         FinishPoll
    <2> QED
      BY <2>1, <2>2, <2>3 DEF RestTyped
  <1>4. inFront' \in BOOLEAN
    <2>1. CASE GameWindowChanges
      BY <2>1 DEF GameWindowChanges
    <2>2. ~GameWindowChanges => inFront' = inFront
      BY DEF NoticesNext, World, Polling, Arrives, HookWrites, NoticesAge, StartPoll, ReadOne, FinishPoll, Render,
         OverlayEnds
    <2> QED
      BY <2>1, <2>2 DEF RestTyped
  <1> QED
    BY <1>1, <1>2, <1>3, <1>4 DEF RestTyped

NoticesInvariant == SourceInvariant /\ QueueOK /\ GainsCounted /\ RestTyped

LEMMA NoticesBegin == ASSUME NoticesInit PROVE NoticesInvariant
  <1> USE RingAssumption, NoticesAssumption DEF NoticesInit
  <1>1. SourceInvariant
    <2>1. RingInvariant
      BY RingBegins
    <2>2. HeadStored /\ SentClaimed /\ ValidNumbered
      BY DEF RingInit, HeadStored, Draining, SentClaimed, ValidNumbered, Zeroed
    <2> QED
      BY <2>1, <2>2 DEF SourceInvariant
  <1>2. QueueOK
    <2>1. toasts \in Toasts
      <3>1. toasts \in Seq(Ages(ToastTtl)) /\ Len(toasts) <= ToastMax
        OBVIOUS
      <3> QED
        BY <3>1, ToastsAreSeqs
    <2>2. floats \in Floats
      BY DEF Floats, NoFloat, Ages
    <2> QED
      BY <2>1, <2>2 DEF QueueOK, ToastsInOrder
  <1>3. GainsCounted
    <2> SUFFICES ASSUME NEW k \in FloatKinds PROVE floats[k].amount <= Cardinality(Gained(k))
      BY DEF GainsCounted
    <2>1. Gained(k) = {}
      BY DEF Gained, RingInit
    <2>2. Cardinality(Gained(k)) = 0
      BY <2>1, FS_EmptySet
    <2> QED
      BY <2>2 DEF NoFloat
  <1>4. RestTyped
    BY DEF RestTyped
  <1> QED
    BY <1>1, <1>2, <1>3, <1>4 DEF NoticesInvariant

LEMMA NoticesKeep == ASSUME NoticesInvariant, [NoticesNext]_noticeVars PROVE NoticesInvariant'
  <1>1. CASE NoticesNext
    BY <1>1, SourceKeeps, QueueKeeps, GainsKeep, RestKeeps DEF NoticesInvariant
  <1>2. CASE UNCHANGED noticeVars
    <2>1. SourceInvariant'
      BY <1>2, RingKeeps DEF noticeVars, ringVars, NoticesInvariant, SourceInvariant, HeadStored, Draining,
         SentClaimed, ValidNumbered
    <2>2. QueueOK' /\ GainsCounted' /\ RestTyped'
      BY <1>2 DEF noticeVars, notices, NoticesInvariant, QueueOK, ToastsInOrder, GainsCounted, Gained, RestTyped
    <2> QED
      BY <2>1, <2>2 DEF NoticesInvariant
  <1> QED
    BY <1>1, <1>2

\* Whatever the size of the queue and of the ring: the toasts stand in the order
\* in which they get too old, and a float never counts a gain that the server did
\* not announce, unless the game wrote a slot while it was read.
THEOREM NoticesAreSound == NoticesSpec => []NoticesAreTrue
  <1>1. NoticesInvariant => NoticesAreTrue
    <2> SUFFICES ASSUME NoticesInvariant PROVE NoticesAreTrue
      OBVIOUS
    <2> USE RingAssumption, Parts DEF NoticesInvariant, SourceInvariant, RingInvariant
    <2>1. Len(sent) <= MaxPackets
      BY DEF SentClaimed, Numbers
    <2>2. NoticesTypeOK
      BY <2>1 DEF NoticesTypeOK, SentClaimed, QueueOK, RestTyped
    <2>3. FloatsCountGains
      <3> SUFFICES ASSUME NEW k \in FloatKinds, ~reader.raced
                   PROVE  floats[k].amount <= Cardinality({n \in DOMAIN sent : sent[n] = k})
        BY DEF FloatsCountGains
      <3>1. DOMAIN sent = 1 .. Len(sent) /\ Len(sent) \in Nat /\ reader.at <= Len(sent)
        BY DEF SentClaimed, ReaderBehind, Numbers
      <3>2. Gained(k) \subseteq {n \in DOMAIN sent : sent[n] = k}
        BY <3>1 DEF Gained
      <3>3. IsFiniteSet({n \in DOMAIN sent : sent[n] = k})
        <4>1. {n \in DOMAIN sent : sent[n] = k} \subseteq 1 .. Len(sent)
          BY <3>1
        <4> QED
          BY <3>1, <4>1, FiniteUpTo
      <3>4. /\ Cardinality(Gained(k)) <= Cardinality({n \in DOMAIN sent : sent[n] = k})
            /\ Cardinality(Gained(k)) \in Nat /\ Cardinality({n \in DOMAIN sent : sent[n] = k}) \in Nat
        BY <3>2, <3>3, FS_Subset, FS_CardinalityType
      <3>5. floats[k].amount <= Cardinality(Gained(k)) /\ floats[k].amount \in Nat
        BY DEF GainsCounted, QueueOK, Floats
      <3> QED
        BY <3>4, <3>5
    <2> QED
      BY <2>2, <2>3 DEF NoticesAreTrue, QueueOK
  <1> QED
    BY <1>1, NoticesBegin, NoticesKeep, PTL DEF NoticesSpec

-----------------------------------------------------------------------------
(***************************************************************************)
(* BotEngine: the mutex keeps who turns the master.                          *)
(***************************************************************************)

\* The start of the launcher keeps the invariant: nobody is inside ENGINE.
LEMMA EngineStarts == EngineInit => EngineInvariant
  <1> SUFFICES ASSUME EngineInit PROVE EngineInvariant
    OBVIOUS
  <1>1. /\ engine \in BOOLEAN /\ master \in BOOLEAN
        /\ cancel \in BOOLEAN /\ hotkeyCancel \in BOOLEAN
    BY DEF EngineInit
  <1>2. /\ ticker \in [at: {"top", "read", "hunt", "ended"}, inWorld: BOOLEAN]
        /\ hotkey \in [at: {"poll", "switch", "stop", "ended"}, on: BOOLEAN]
        /\ window \in [at: {"closed", "open", "switch", "stop"}, on: BOOLEAN]
    BY DEF EngineInit
  <1>3. attack \in [auto: BOOLEAN, walking: BOOLEAN, deaf: BOOLEAN]
    BY DEF EngineInit
  <1>4. EngineTypeOK
    BY <1>1, <1>2, <1>3 DEF EngineInit, EngineTypeOK
  <1>5. StopperInside /\ StopFindsMasterOff
    BY DEF EngineInit, StopperInside, StopFindsMasterOff
  <1> QED
    BY <1>4, <1>5 DEF EngineInvariant

\* A step of the tick thread does not touch the mutex, the switches or the flag.
LEMMA TickKeeps == EngineInvariant /\ Tick => EngineInvariant'
  <1> SUFFICES ASSUME EngineInvariant, Tick PROVE EngineInvariant'
    OBVIOUS
  <1> USE DEF EngineInvariant, EngineTypeOK, StopperInside, StopFindsMasterOff, switches
  <1>1. CASE TickBegins
    BY <1>1 DEF TickBegins
  <1>2. CASE TickEnds
    BY <1>2 DEF TickEnds
  <1>3. CASE TickDecides
    BY <1>3 DEF TickDecides, NextState, CanTransition
  <1>4. CASE TickHunts
    <2>1. \A c \in HuntEffects : c \in [auto: BOOLEAN, walking: BOOLEAN, deaf: BOOLEAN]
      BY DEF HuntEffects
    <2>2. attack' \in [auto: BOOLEAN, walking: BOOLEAN, deaf: BOOLEAN]
      BY <1>4, <2>1 DEF TickHunts
    <2> QED
      BY <1>4, <2>2 DEF TickHunts
  <1> QED
    BY <1>1, <1>2, <1>3, <1>4 DEF Tick

\* Whether the attack could be stopped or not, the client is one that can be.
LEMMA StopTyped ==
    ASSUME EngineTypeOK, StopClientAutoAttack
    PROVE  attack' \in [auto: BOOLEAN, walking: BOOLEAN, deaf: BOOLEAN]
  <1>1. PICK stopped \in BOOLEAN :
            attack' = [attack EXCEPT !.auto = @ /\ ~stopped, !.deaf = ~stopped]
    BY DEF StopClientAutoAttack
  <1>2. CASE stopped
    BY <1>1, <1>2 DEF EngineTypeOK
  <1>3. CASE ~stopped
    BY <1>1, <1>3 DEF EngineTypeOK
  <1> QED
    BY <1>2, <1>3

\* A switch enters ENGINE only when nobody is inside, hence when nobody is about to
\* stop the attack; and it stays inside if it has switched the bot off.
LEMMA SwitchKeeps == EngineInvariant /\ (Hotkey \/ SettingsWindow) => EngineInvariant'
  <1> SUFFICES ASSUME EngineInvariant, Hotkey \/ SettingsWindow PROVE EngineInvariant'
    OBVIOUS
  <1> USE DEF EngineInvariant, EngineTypeOK, StopperInside, StopFindsMasterOff, switches
  <1>1. CASE HotkeySwitches
    BY <1>1 DEF HotkeySwitches, SwitchMaster
  <1>2. CASE HotkeyStops
    BY <1>2, StopTyped DEF HotkeyStops, SwitchStops
  <1>3. CASE HotkeyEnds
    BY <1>3 DEF HotkeyEnds
  <1>4. CASE WindowSwitches
    BY <1>4 DEF WindowSwitches, SwitchMaster
  <1>5. CASE WindowStops
    BY <1>5, StopTyped DEF WindowStops, SwitchStops
  <1> QED
    BY <1>1, <1>2, <1>3, <1>4, <1>5 DEF Hotkey, SettingsWindow

\* The shutdown takes ENGINE when it is free and gives it back when it is done.
LEMMA MainKeeps == EngineInvariant /\ Main => EngineInvariant'
  <1> SUFFICES ASSUME EngineInvariant, Main PROVE EngineInvariant'
    OBVIOUS
  <1> USE DEF EngineInvariant, EngineTypeOK, StopperInside, StopFindsMasterOff, switches
  <1>1. CASE MainSees
    BY <1>1 DEF MainSees
  <1>2. CASE MainLocks
    <2>1. engine' \in BOOLEAN /\ cancel' \in BOOLEAN
      BY <1>2 DEF MainLocks
    <2>2. EngineTypeOK'
      BY <1>2, <2>1 DEF MainLocks
    <2>3. owner = "none" /\ owner' = "main" /\ UNCHANGED <<master, hotkey, window>>
      BY <1>2 DEF MainLocks
    <2> QED
      BY <2>2, <2>3
  <1>3. CASE MainJoins
    BY <1>3 DEF MainJoins
  <1>4. CASE MainStops
    BY <1>4, StopTyped DEF MainStops
  <1> QED
    BY <1>1, <1>2, <1>3, <1>4 DEF Main

\* What the user does is before the mutex: a key, a click, a window.
LEMMA UserKeeps == EngineInvariant /\ User => EngineInvariant'
  <1> SUFFICES ASSUME EngineInvariant, User PROVE EngineInvariant'
    OBVIOUS
  <1> USE DEF EngineInvariant, EngineTypeOK, StopperInside, StopFindsMasterOff, switches
  <1>1. CASE GameMoves
    BY <1>1 DEF GameMoves
  <1>2. CASE PressF8
    BY <1>2 DEF PressF8
  <1>3. CASE WindowOpens
    BY <1>3 DEF WindowOpens
  <1>4. CASE WindowMoves
    <2>1. \A on \in BOOLEAN : [at |-> "switch", on |-> ~on]
                \in [at: {"closed", "open", "switch", "stop"}, on: BOOLEAN]
      OBVIOUS
    <2>2. window' \in [at: {"closed", "open", "switch", "stop"}, on: BOOLEAN]
      BY <1>4, <2>1 DEF WindowMoves
    <2> QED
      BY <1>4, <2>2 DEF WindowMoves
  <1> QED
    BY <1>1, <1>2, <1>3, <1>4 DEF User

\* A step that changes nothing keeps the invariant.
LEMMA EngineStutters == EngineInvariant /\ UNCHANGED engineVars => EngineInvariant'
  BY DEF EngineInvariant, EngineTypeOK, StopperInside, StopFindsMasterOff, engineVars, switches

LEMMA EngineHolds == EngineSpec => []EngineInvariant
  <1>1. EngineInvariant /\ [EngineNext]_engineVars => EngineInvariant'
    BY TickKeeps, SwitchKeeps, MainKeeps, UserKeeps, EngineStutters DEF EngineNext
  <1> QED
    BY EngineStarts, <1>1, PTL DEF EngineSpec

\* The attack of the client is stopped only while the master is off, in every order of
\* the threads (set_master_enabled).
THEOREM StopsOnlyWhenOff == EngineSpec => []StopFindsMasterOff
  <1>1. EngineInvariant => StopFindsMasterOff
    BY DEF EngineInvariant
  <1> QED
    BY EngineHolds, <1>1, PTL

\* The variables of the engine keep their types.
THEOREM EngineTyped == EngineSpec => []EngineTypeOK
  <1>1. EngineInvariant => EngineTypeOK
    BY DEF EngineInvariant
  <1> QED
    BY EngineHolds, <1>1, PTL

\* While the master is off an attack begins at most in the one tick that was hunting
\* already (tick_loop reads the flag anew in every tick).
THEOREM OneTickAttacks == EngineSpec => OneTickMayAttack
  <1> DEFINE Late == ~master => /\ ticker'.at = "hunt" => ticker.at = "hunt"
                                /\ attack'.auto /\ ~attack.auto => ticker.at = "hunt" /\ ticker'.at # "hunt"
  <1>1. ASSUME EngineInvariant, [EngineNext]_engineVars PROVE Late
    <2> SUFFICES ASSUME ~master PROVE Late
      OBVIOUS
    <2>1. ticker \in [at: {"top", "read", "hunt", "ended"}, inWorld: BOOLEAN]
          /\ attack \in [auto: BOOLEAN, walking: BOOLEAN, deaf: BOOLEAN]
      BY <1>1 DEF EngineInvariant, EngineTypeOK
    <2>2. CASE TickBegins \/ TickEnds
      BY <2>1, <2>2 DEF TickBegins, TickEnds
    <2>3. CASE TickDecides
      <3>1. NextState(master, ticker.inWorld) # "Hunting"
        BY DEF NextState
      <3>2. ticker' = [ticker EXCEPT !.at = "top"] /\ attack' = attack
        BY <2>3, <3>1 DEF TickDecides
      <3> QED
        BY <2>1, <3>2
    <2>4. CASE TickHunts
      BY <2>1, <2>4 DEF TickHunts
    <2>5. StopClientAutoAttack => (attack'.auto => attack.auto)
      BY <2>1 DEF StopClientAutoAttack
    <2>6. CASE Hotkey \/ SettingsWindow
      <3>1. ticker' = ticker /\ (attack' = attack \/ StopClientAutoAttack)
        BY <2>6
        DEF Hotkey, SettingsWindow, HotkeySwitches, HotkeyStops, HotkeyEnds, WindowSwitches, WindowStops,
            SwitchMaster, SwitchStops
      <3> QED
        BY <2>5, <3>1
    <2>7. CASE Main
      <3>1. ticker' = ticker /\ (attack' = attack \/ StopClientAutoAttack)
        BY <2>7 DEF Main, MainSees, MainLocks, MainJoins, MainStops
      <3> QED
        BY <2>5, <3>1
    <2>8. CASE User \/ UNCHANGED engineVars
      <3>1. ticker' = ticker /\ attack' = attack
        BY <2>8 DEF User, GameMoves, PressF8, WindowOpens, WindowMoves, engineVars
      <3> QED
        BY <3>1
    <2> QED
      BY <1>1, <2>2, <2>3, <2>4, <2>6, <2>7, <2>8 DEF EngineNext, Tick
  <1>2. EngineInvariant /\ [EngineNext]_engineVars => [Late]_engineVars
    BY <1>1
  <1> QED
    BY EngineHolds, <1>2, PTL DEF EngineSpec, OneTickMayAttack
================================================================================
