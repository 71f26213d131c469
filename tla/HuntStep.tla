------------------------------ MODULE HuntStep ------------------------------
(***************************************************************************)
(* The hunting bot's tick (bot/hunt4): the pure state machine of step.rs,   *)
(* the memory it reads and updates (TacticalMemory and the delta of one     *)
(* tick, MemoryUpdate, of memory.rs), the dispatch of the one action it asks *)
(* for (actions.rs) and the bookkeeping around it (runtime.rs, backend.rs). *)
(*                                                                         *)
(* A tick is two actions.  Frame is everything before the pure step: the    *)
(* 200 ms sleep, the world frame, the position memory, the attack watch.    *)
(* Step is the pure step, the update of the memory, the dispatch and the    *)
(* bookkeeping after it.  What the game shows is chosen freely in each      *)
(* tick: which targets are candidates and how, what is in the bag, whether  *)
(* a request reaches the client.                                           *)
(*                                                                         *)
(* Time is counted in ticks.  An Instant t of the code is kept here as its  *)
(* age, now - t, which stops growing at the largest duration the code ever  *)
(* compares it with; a deadline is kept as the ticks that are left.  Both   *)
(* lose nothing that a guard of the code can see.  The tiles of the memory  *)
(* (obstacles, portals, failed directions, visits) are in HuntPlan.        *)
(***************************************************************************)
EXTENDS Integers

CONSTANTS Targets,          \* the ids of the monsters the bot may meet
          NoTarget,         \* None, where the code has an Option<u32>
          AttackCooldown,   \* REPEAT_NORMAL_ATTACK_COOLDOWN
          SkillCooldown,    \* skill_cd_ms of the configured skill, 0 for none
          ScrollCooldown,   \* TELEPORT_SCROLL_COOLDOWN
          InactivityReset,  \* INACTIVITY_RESET_DURATION
          IdleTeleport,     \* cfg.idle_teleport_secs, 0 for "at once"
          FailedTtl,        \* FAILED_TARGET_TTL
          RepeatedTtl,      \* REPEATED_FAILED_TARGET_TTL
          StallWindow,      \* STALL_WINDOW_TICKS = POSITION_HISTORY_CAP
          ExploreBudget,    \* EMPTY_EXPLORE_WALK_BUDGET
          EscapingWait,     \* ESCAPING_WAIT_DURATION
          KillConfirm,      \* KILL_CONFIRM_DURATION
          WalkStuckWait,    \* RECOVERY_WALK_STUCK_DURATION
          RecoveryWait,     \* the other RECOVERY_*_DURATIONs, all of two seconds
          NoProgress,       \* ATTACK_NO_PROGRESS_DURATION
          Lapses,           \* the lengths a tick may have, in tick intervals
          ScrollNamed,      \* cfg.teleport_scroll_name is not empty
          SkillSet          \* the attack sequence has a skill step

ASSUME MemoryAssumption ==
    /\ NoTarget \notin Targets
    /\ {AttackCooldown, SkillCooldown, IdleTeleport} \subseteq Nat
    /\ {ScrollCooldown, InactivityReset, FailedTtl, RepeatedTtl} \subseteq Nat \ {0}
    /\ {StallWindow, ExploreBudget} \subseteq Nat \ {0}
    /\ StallWindow > 2
    /\ FailedTtl =< RepeatedTtl
    /\ ScrollCooldown < InactivityReset

ASSUME StepAssumption ==
    /\ {EscapingWait, WalkStuckWait, RecoveryWait} \subseteq Nat
    /\ {KillConfirm, NoProgress} \subseteq Nat \ {0}
    /\ Lapses \subseteq Nat \ {0}
    /\ {ScrollNamed, SkillSet} \subseteq BOOLEAN

-----------------------------------------------------------------------------
(* The memory: what one tick leaves for the next ones (memory.rs).           *)

\* An Option<Instant> that is None.
Never == -1

Older(age, lapse, cap) ==
    IF age = Never THEN Never
    ELSE IF age + lapse > cap THEN cap ELSE age + lapse

Left(ticks, lapse) == IF ticks > lapse THEN ticks - lapse ELSE 0

OneMore(n, cap) == IF n < cap THEN n + 1 ELSE cap

-----------------------------------------------------------------------------
\* A record of failed_targets; left = 0 stands for "no record": apply drops a
\* record as soon as its `until` is not after now.
FailureCauses == {"Unreachable", "AttackRejected"}
FailureRecord == [cause: FailureCauses \cup {"none"}, left: 0..RepeatedTtl]
NoRecord == [cause |-> "none", left |-> 0]

TacticalMemory ==
    [failed      : [Targets -> FailureRecord],
     attackAge   : 0..AttackCooldown,         \* last_attack, None is "long ago"
     skillAge    : 0..SkillCooldown,          \* last_skill_cast, likewise
     teleportAge : 0..ScrollCooldown,         \* last_teleport, likewise
     activityAge : {Never} \cup 0..InactivityReset,  \* latest_activity_at
     idleAge     : {Never} \cup 0..IdleTeleport,     \* no_actionable_target_since
     emptyWalks  : 0..ExploreBudget,
     pending     : Targets \cup {NoTarget},   \* post_skill_basic_pending_target
     walked      : BOOLEAN,                   \* last_walk is Some
     still       : 0..StallWindow,            \* newest samples on one tile
     quiet       : 0..StallWindow]            \* samples not older than last_walk

EmptyMemory ==
    [failed |-> [t \in Targets |-> NoRecord],
     attackAge |-> AttackCooldown, skillAge |-> SkillCooldown,
     teleportAge |-> ScrollCooldown, activityAge |-> Never, idleAge |-> Never,
     emptyWalks |-> 0, pending |-> NoTarget, walked |-> FALSE,
     still |-> 0, quiet |-> 0]

-----------------------------------------------------------------------------
Expired(r, lapse) ==
    IF r.left > lapse THEN [r EXCEPT !.left = @ - lapse] ELSE NoRecord

\* `lapse` ticks later.
Elapsed(m, lapse) ==
    [m EXCEPT !.failed = [t \in Targets |-> Expired(m.failed[t], lapse)],
              !.attackAge = Older(@, lapse, AttackCooldown),
              !.skillAge = Older(@, lapse, SkillCooldown),
              !.teleportAge = Older(@, lapse, ScrollCooldown),
              !.activityAge = Older(@, lapse, InactivityReset),
              !.idleAge = Older(@, lapse, IdleTeleport)]

\* A sample after the history was cleared counts as a change of position: the
\* code compares it with recent_positions.back().
PositionChanged(m, moved) == moved \/ m.still = 0

Sampled(m, moved) ==
    [m EXCEPT !.still = IF PositionChanged(m, moved) THEN 1
                        ELSE OneMore(@, StallWindow),
              !.quiet = IF m.walked THEN OneMore(@, StallWindow) ELSE 0,
              !.activityAge = IF PositionChanged(m, moved) THEN 0 ELSE @]

\* is_stalled_since(STALL_WINDOW_TICKS, last_walk)
Stalled(m) ==
    m.walked /\ StallWindow >= 2 /\ m.still = StallWindow /\ m.quiet = StallWindow

\* Standing still counts only short of the next tile; `there`: the player's tile
\* is known and is the next one.
StalledShort(m, there) == Stalled(m) /\ ~there

-----------------------------------------------------------------------------
\* The delta a tick asks for; its fields are those of MemoryUpdate.
NoUpdate ==
    [fail |-> NoTarget, cause |-> "none",           \* add_failed_targets
     forgetPositions |-> FALSE,                     \* clear_recent_positions
     walk |-> FALSE, attack |-> FALSE,              \* set_last_walk, _attack
     skillOn |-> NoTarget,    \* set_last_skill_cast, set_post_skill_basic_pending
     basicDone |-> FALSE,     \* clear_post_skill_basic_pending
     teleport |-> FALSE,      \* set_last_teleport
     startIdle |-> FALSE, clearIdle |-> FALSE,
     countWalk |-> FALSE, clearWalks |-> FALSE]

MemoryUpdate ==
    [fail: Targets \cup {NoTarget}, cause: FailureCauses \cup {"none"},
     forgetPositions: BOOLEAN, walk: BOOLEAN, attack: BOOLEAN,
     skillOn: Targets \cup {NoTarget}, basicDone: BOOLEAN, teleport: BOOLEAN,
     startIdle: BOOLEAN, clearIdle: BOOLEAN, countWalk: BOOLEAN, clearWalks: BOOLEAN]

\* A target that fails again before its record ran out is avoided for longer.
Marked(failed, t, cause) ==
    [failed EXCEPT ![t] = [cause |-> cause,
                           left |-> IF @.left > 0 THEN RepeatedTtl ELSE FailedTtl]]

\* `here`: the player's position was sampled in this tick, at this very instant.
Applied(m, u, here) ==
    LET idle == IF u.clearIdle THEN Never ELSE m.idleAge
        walks == IF u.clearWalks THEN 0 ELSE m.emptyWalks
    IN [m EXCEPT
        !.failed = IF u.fail = NoTarget THEN @ ELSE Marked(@, u.fail, u.cause),
        !.still = IF u.forgetPositions THEN 0 ELSE @,
        !.quiet = IF u.forgetPositions THEN 0
                  ELSE IF u.walk THEN IF here THEN 1 ELSE 0
                  ELSE @,
        !.walked = IF u.walk THEN TRUE ELSE @,
        !.attackAge = IF u.attack THEN 0 ELSE @,
        !.skillAge = IF u.skillOn = NoTarget THEN @ ELSE 0,
        !.teleportAge = IF u.teleport THEN 0 ELSE @,
        !.activityAge = IF u.attack \/ u.skillOn # NoTarget \/ u.teleport
                        THEN 0 ELSE @,
        !.pending = IF u.basicDone THEN NoTarget
                    ELSE IF u.skillOn = NoTarget THEN @ ELSE u.skillOn,
        !.idleAge = IF u.startIdle /\ idle = Never THEN 0 ELSE idle,
        !.emptyWalks = IF u.countWalk THEN OneMore(walks, ExploreBudget) ELSE walks]

-----------------------------------------------------------------------------
(* The machine.                                                              *)

VARIABLES
    label,      \* StateLabel of the HuntState
    lock,       \* the target of an Engaging state
    wait,       \* ticks to `until` (Recovering) or `wait_until` (Escaping)
    since,      \* age of state_since
    memory,     \* TacticalMemory
    watch,      \* AttackProgressWatch
    outcome,    \* last_outcome
    bootstrapped, \* DispatchState.last_bootstrap_target
    client,     \* the game client as the bot left it: AUTO_ATTACK_FLAG ("auto"),
                \* ATTACK_TARGET_PTR ("target"), MOUSE_HELD ("walking"), and
                \* whether the last attempt to clear the flag failed ("deaf")
    frame,      \* the world frame of the tick in progress, or NoFrame
    act         \* the action dispatched by the step just taken

vars == <<label, lock, wait, since, memory, watch, outcome, bootstrapped,
          client, frame, act>>

-----------------------------------------------------------------------------
Disabled == {"DisabledMasterOff", "DisabledNotInGame", "StoppedDied"}
Engaging == {"EngagingApproach", "EngagingAttack"}
Interruptible == {"RecoveringWalkStuck", "RecoveringAttackFailed",
                  "RecoveringNoReachableTarget"}
Retreating == {"RecoveringDamageSpike", "RecoveringCriticalHp"}
Recovering == Interruptible \cup Retreating
Labels == Disabled \cup Engaging \cup Recovering
              \cup {"Idle", "Exploring", "Escaping"}

\* inactivity_watchdog_state_allowed
Watched == Engaging \cup Interruptible \cup {"Exploring"}

RecoveryTime(l) == IF l = "RecoveringWalkStuck" THEN WalkStuckWait ELSE RecoveryWait

SinceCap == IF KillConfirm > IdleTeleport THEN KillConfirm ELSE IdleTeleport

NoWatch == [target |-> NoTarget, age |-> 0]
NoOutcome == [kind |-> "None", target |-> NoTarget]
NoAction == [kind |-> "none", target |-> NoTarget]
NoFrame == [lapse |-> 0, here |-> FALSE, moved |-> FALSE, hit |-> FALSE]
OutcomeKinds == {"None", "WalkOk", "WalkFailed", "AttackOk", "AttackFailed",
                 "AttackNoProgress", "ScrollOk", "ScrollFailed"}
ActionKinds == {"none", "Wait", "Walk", "Attack", "Skill", "Scroll"}

\* Type correctness.
TypeOK ==
    /\ label \in Labels
    /\ lock \in Targets \cup {NoTarget}
    /\ wait \in Nat
    /\ since \in 0..SinceCap
    /\ memory \in TacticalMemory
    /\ watch \in [target: Targets \cup {NoTarget}, age: 0..NoProgress - 1]
    /\ outcome \in [kind: OutcomeKinds, target: Targets \cup {NoTarget}]
    /\ bootstrapped \in Targets \cup {NoTarget}
    /\ client \in [auto: BOOLEAN, target: Targets \cup {NoTarget},
                   walking: BOOLEAN, deaf: BOOLEAN]
    /\ frame \in [lapse: Lapses \cup {0}, here: BOOLEAN, moved: BOOLEAN, hit: BOOLEAN]
    /\ act \in [kind: ActionKinds, target: Targets \cup {NoTarget}]

-----------------------------------------------------------------------------
(* Before the pure step.                                                   *)

\* update_attack_watch_before_tick and record_no_progress_target
WatchBeforeTick(lapse, hit) ==
    LET age == watch.age + lapse
        stale == /\ label = "EngagingAttack" /\ watch.target = lock
                 /\ ~hit /\ age >= NoProgress
    IN /\ watch' = IF label # "EngagingAttack" \/ stale THEN NoWatch
                   ELSE IF watch.target # lock \/ hit
                        THEN [target |-> lock, age |-> 0]
                        ELSE [watch EXCEPT !.age = age]
       /\ outcome' = IF stale THEN [kind |-> "AttackNoProgress", target |-> lock]
                     ELSE outcome

\* `here`: the player's tile could be read; `moved`: it is not the last sample;
\* `hit`: the packets show recent damage on the target under attack.
Frame ==
    /\ frame = NoFrame
    /\ \E lapse \in Lapses, here, moved, hit \in BOOLEAN :
        /\ moved => here
        /\ hit => label = "EngagingAttack"
        /\ frame' = [lapse |-> lapse, here |-> here, moved |-> moved, hit |-> hit]
        /\ memory' = LET m == Elapsed(memory, lapse)
                     IN IF here THEN Sampled(m, moved) ELSE m
        /\ wait' = Left(wait, lapse)
        /\ since' = Older(since, lapse, SinceCap)
        /\ WatchBeforeTick(lapse, hit)
    /\ act' = NoAction
    /\ UNCHANGED <<label, lock, bootstrapped, client>>

-----------------------------------------------------------------------------
(* Dispatch (actions.rs).  Every dispatch but a walk first releases the     *)
(* mouse button that makes the character walk.                             *)

Released == [client EXCEPT !.walking = FALSE]

\* Mutant of Noop: a Wait leaves the mouse button as it is.
NoopKeepsWalking ==
    /\ act' = [kind |-> "Wait", target |-> NoTarget]
    /\ outcome' = NoOutcome
    /\ UNCHANGED <<watch, bootstrapped, client>>

Noop ==
    /\ act' = [kind |-> "Wait", target |-> NoTarget]
    /\ outcome' = NoOutcome
    /\ client' = Released
    /\ UNCHANGED <<watch, bootstrapped>>

\* A walk fails when the player's tile is unknown, when the tile is the one he
\* stands on, or when a message cannot be posted, the button perhaps already down.
Walk ==
    /\ act' = [kind |-> "Walk", target |-> NoTarget]
    /\ \/ /\ frame.here
          /\ outcome' = [NoOutcome EXCEPT !.kind = "WalkOk"]
          /\ client' = [client EXCEPT !.walking = TRUE]
       \/ /\ outcome' = [NoOutcome EXCEPT !.kind = "WalkFailed"]
          /\ \/ client' = client
             \/ frame.here /\ client' = [client EXCEPT !.walking = TRUE]
    /\ UNCHANGED <<watch, bootstrapped>>

\* Mutant of WatchAfterAttack: every attack that was sent starts the watch anew.
WatchAfterAttackRestarts(t, ok) ==
    watch' = IF ok THEN [target |-> t, age |-> 0]
             ELSE IF watch.target = t THEN NoWatch ELSE watch

\* record_attack_watch_after_dispatch
WatchAfterAttack(t, ok) ==
    watch' = IF ok THEN IF watch.target = t THEN watch ELSE [target |-> t, age |-> 0]
             ELSE IF watch.target = t THEN NoWatch ELSE watch

\* bootstrap_click_attack writes the target, then the auto-attack flag, and can
\* fail before, between and after the two.
Bootstrap(t) ==
    /\ act' = [kind |-> "Attack", target |-> t]
    /\ \E ok, aimed, armed \in BOOLEAN :
        /\ ok => armed
        /\ armed => aimed
        /\ client' = [auto |-> client.auto \/ armed,
                      target |-> IF aimed THEN t ELSE client.target,
                      walking |-> FALSE, deaf |-> FALSE]
        /\ bootstrapped' = IF ok THEN t ELSE bootstrapped
        /\ outcome' = [kind |-> IF ok THEN "AttackOk" ELSE "AttackFailed", target |-> t]
        /\ WatchAfterAttack(t, ok)

\* `found`: the target is still in the snapshot; when it is not (AttackLookupFailed)
\* the last bootstrap is not forgotten.
Cast(t) ==
    /\ act' = [kind |-> "Skill", target |-> t]
    /\ client' = Released
    /\ \E ok, found \in BOOLEAN :
        /\ ok => found
        /\ bootstrapped' = IF found THEN NoTarget ELSE bootstrapped
        /\ outcome' = [kind |-> IF ok THEN "AttackOk" ELSE "AttackFailed", target |-> t]
        /\ WatchAfterAttack(t, ok)

\* The client's auto-attack is stopped before the scroll is used and once more
\* after it; both writes may fail, and nobody looks whether they did.
UseScroll ==
    /\ act' = [kind |-> "Scroll", target |-> NoTarget]
    /\ bootstrapped' = NoTarget
    /\ \E stopped \in BOOLEAN :
            client' = [Released EXCEPT !.auto = @ /\ ~stopped, !.deaf = ~stopped]
    /\ \E kind \in {"ScrollOk", "ScrollFailed"} :
            outcome' = [NoOutcome EXCEPT !.kind = kind]
    /\ UNCHANGED watch

-----------------------------------------------------------------------------
(* The pieces of step.rs.                                                  *)

Enter(l, t, w) == label' = l /\ lock' = t /\ wait' = w /\ since' = 0
Stay == UNCHANGED <<label, lock, wait, since>>
Remember(u) == memory' = Applied(memory, u, frame.here)

Transition(l) == Enter(l, NoTarget, 0) /\ Noop /\ Remember(NoUpdate)

Recover(l, u) == Enter(l, NoTarget, RecoveryTime(l)) /\ Noop /\ Remember(u)

\* Mutant of CanForceScroll: TELEPORT_SCROLL_COOLDOWN is not looked at.
CanForceScrollAnyTime == ScrollNamed

\* force_teleport_action does not look into the bag.
CanForceScroll == ScrollNamed /\ memory.teleportAge >= ScrollCooldown

Escape ==
    /\ Enter("Escaping", NoTarget, EscapingWait)
    /\ UseScroll
    /\ Remember([NoUpdate EXCEPT !.teleport = TRUE, !.clearIdle = TRUE,
                                 !.clearWalks = TRUE])

\* Mutant of WatchdogDue: the recoveries are not watched.
WatchdogDueWhileActing ==
    /\ label \in Engaging \cup {"Exploring"}
    /\ memory.activityAge >= InactivityReset
    /\ CanForceScroll

\* inactivity_watchdog_escape
WatchdogDue ==
    /\ label \in Watched
    /\ memory.activityAge >= InactivityReset
    /\ CanForceScroll

\* Mutant of Considered: an attacker is considered whatever its record says.
ConsideredIfAttacker(t, attacker) == memory.failed[t].left > 0 => attacker

\* should_consider_target: a rejected target is left alone until its record runs
\* out, an unreachable one unless it attacks.
Considered(t, attacker) ==
    LET r == memory.failed[t]
    IN r.left > 0 => r.cause = "Unreachable" /\ attacker

\* How a target can be a candidate: in range with a clear line ("range"), an
\* adjacent attacker without one ("counter"), or at the end of a path ("path").
Sights == {"range", "counter", "path"}
Candidate(t, sight) ==
    \E attacker \in BOOLEAN : Considered(t, attacker) /\ (sight = "counter" => attacker)

\* engage_candidate; a path may have no tile to walk to.
Engage(t, sight, u) ==
    LET v == [u EXCEPT !.clearIdle = TRUE, !.clearWalks = TRUE]
    IN IF sight = "path"
       THEN /\ Enter("EngagingApproach", t, 0)
            /\ \/ Walk /\ Remember([v EXCEPT !.walk = TRUE])
               \/ Noop /\ Remember(v)
       ELSE /\ Enter("EngagingAttack", t, 0)
            /\ Bootstrap(t)
            /\ Remember([v EXCEPT !.attack = TRUE])

\* best_candidate and best_candidate_excluding: the order of the candidates is
\* left open, so any of them may be the best one.
Acquire(others, u) ==
    \E t \in others, sight \in Sights : Candidate(t, sight) /\ Engage(t, sight, u)

\* selected_attack_skill
SkillSelected(turn, skillOk) ==
    /\ turn = "Skill" /\ skillOk
    /\ memory.pending # lock
    /\ memory.skillAge >= SkillCooldown

Blow(skill) ==
    [NoUpdate EXCEPT !.attack = TRUE, !.clearIdle = TRUE,
                     !.skillOn = IF skill THEN lock ELSE NoTarget,
                     !.basicDone = ~skill /\ memory.pending = lock]

Turns == {"Waiting", "Basic"} \cup (IF SkillSet THEN {"Skill"} ELSE {})

\* attack_candidate and attack_visible_lock; `skillOk`: in_attack_range, or the
\* lock is merely visible.  `turn` is the attack step the sequence allows now.
Attack(skillOk) ==
    \E turn \in Turns :
        LET skill == SkillSelected(turn, skillOk)
        IN /\ Enter("EngagingAttack", lock, 0)
           /\ IF turn = "Waiting" /\ memory.attackAge < AttackCooldown
              THEN Noop /\ Remember([NoUpdate EXCEPT !.clearIdle = TRUE])
              ELSE /\ IF skill THEN Cast(lock) ELSE Bootstrap(lock)
                   /\ Remember(Blow(skill))

-----------------------------------------------------------------------------
(* No target: a scroll, or exploration, or nothing.                        *)

IdleLongEnough ==
    LET idle == IF memory.idleAge = Never THEN since ELSE memory.idleAge
    IN IdleTeleport > 0 => idle >= IdleTeleport

\* empty_explore_budget_action, then teleport_action
ScrollForWant(explore, inBag) ==
    /\ CanForceScroll
    /\ \/ memory.emptyWalks >= ExploreBudget
       \/ inBag /\ (explore => memory.walked) /\ IdleLongEnough

ExplorationStuck ==
    Recover("RecoveringWalkStuck",
            [NoUpdate EXCEPT !.startIdle = TRUE, !.forgetPositions = TRUE])

ExploreOn ==
    /\ Enter("Exploring", NoTarget, 0)
    /\ Walk
    /\ Remember([NoUpdate EXCEPT !.walk = TRUE, !.startIdle = TRUE, !.countWalk = TRUE])

\* no_target_action; `explore`: the planner has an exploration path, `inBag`:
\* a scroll is in the inventory.
NoTargetAction ==
    \E explore, inBag, there \in BOOLEAN :
        /\ there => frame.here
        /\ IF ScrollForWant(explore, inBag) THEN Escape
           ELSE IF ~explore
                THEN Stay /\ Noop /\ Remember([NoUpdate EXCEPT !.startIdle = TRUE])
           ELSE IF label = "Exploring" /\ StalledShort(memory, there)
                THEN ExplorationStuck
           ELSE ExploreOn

-----------------------------------------------------------------------------
(* One action for each way through step().                                 *)

NotInGame == Transition("DisabledNotInGame")
PlayerDied == Transition("StoppedDied")
CriticalHp == Recover("RecoveringCriticalHp", NoUpdate)
DamageSpike == Recover("RecoveringDamageSpike", NoUpdate)

InactivityEscape == WatchdogDue /\ Escape

WakeUp == label \in Disabled /\ Transition("Idle")

\* Mutant of InterruptRecovery: a target in sight ends every recovery.
InterruptAnyRecovery ==
    label \in Recovering /\ wait > 0 /\ Acquire(Targets, NoUpdate)

\* recovery_interrupt
InterruptRecovery ==
    label \in Interruptible /\ wait > 0 /\ Acquire(Targets, NoUpdate)

\* Mutant of KeepWaiting: waiting sets the deadline anew.
KeepWaitingAnew ==
    /\ label \in Recovering \cup {"Escaping"} /\ wait > 0
    /\ Enter(label, NoTarget, IF label = "Escaping" THEN EscapingWait ELSE RecoveryTime(label))
    /\ Noop /\ Remember(NoUpdate)

KeepWaiting ==
    /\ label \in Recovering \cup {"Escaping"} /\ wait > 0
    /\ Stay /\ Noop /\ Remember(NoUpdate)

RecoveryElapsed ==
    /\ label \in Recovering /\ wait = 0
    /\ IF label = "RecoveringNoReachableTarget" /\ CanForceScroll
       THEN Escape
       ELSE Transition("Idle")

EscapeElapsed == label = "Escaping" /\ wait = 0 /\ Transition("Idle")

IdleAcquire == label = "Idle" /\ Acquire(Targets, NoUpdate)
IdleNoTarget == label = "Idle" /\ NoTargetAction

ExploreAcquire == label = "Exploring" /\ Acquire(Targets, NoUpdate)

ExploreStuck ==
    label = "Exploring" /\ outcome.kind = "WalkFailed" /\ ExplorationStuck

\* continue_exploration_path; `blocked`: its next tile is a remembered obstacle.
\* That tile is never the player's own: consume_reached_path has just dropped it.
ExploreContinue ==
    /\ label = "Exploring" /\ outcome.kind # "WalkFailed"
    /\ \E blocked \in BOOLEAN :
            IF blocked \/ StalledShort(memory, FALSE) THEN ExplorationStuck ELSE ExploreOn

\* The path is used up.
ExploreNoTarget ==
    label = "Exploring" /\ outcome.kind # "WalkFailed" /\ NoTargetAction

-----------------------------------------------------------------------------
(* step_engaging, in the order of its early returns.                       *)

LockRefused == outcome.kind \in {"AttackFailed", "AttackNoProgress"} /\ outcome.target = lock

\* locked_target_recently_damaged is asked again, a moment after the frame.
DamageSeen == frame.hit

AttackDespiteFailure ==
    /\ label \in Engaging /\ LockRefused /\ DamageSeen
    /\ \E skillOk \in BOOLEAN : Attack(skillOk)

Refused == [NoUpdate EXCEPT !.fail = lock, !.cause = "AttackRejected"]

SwitchRefusedLock ==
    /\ label \in Engaging /\ LockRefused
    /\ Acquire(Targets \ {lock}, [Refused EXCEPT !.basicDone = memory.pending = lock])

GiveUpRefusedLock ==
    /\ label \in Engaging /\ LockRefused
    /\ Recover("RecoveringAttackFailed", Refused)

Unreachable == [NoUpdate EXCEPT !.fail = lock, !.cause = "Unreachable",
                                !.forgetPositions = TRUE]

ApproachWalkFailed ==
    /\ label \in Engaging /\ ~LockRefused /\ outcome.kind = "WalkFailed"
    /\ Recover("RecoveringWalkStuck", Unreachable)

Pursuing == label \in Engaging /\ ~LockRefused /\ outcome.kind # "WalkFailed"

\* The packets say that the lock is gone.
LockGone ==
    /\ Pursuing
    /\ IF since < KillConfirm THEN Stay /\ Noop /\ Remember(NoUpdate)
                              ELSE Transition("Idle")

AttackLock ==
    /\ Pursuing
    /\ \/ Candidate(lock, "range") /\ Attack(TRUE)
       \/ Candidate(lock, "counter") /\ Attack(FALSE)
       \/ /\ label = "EngagingAttack" /\ DamageSeen
          /\ Candidate(lock, "path") /\ Attack(FALSE)

\* stalled_approach_recovery
ApproachStalled(there) ==
    label = "EngagingApproach" /\ outcome.kind = "WalkOk" /\ StalledShort(memory, there)

ApproachLock ==
    /\ Pursuing /\ Candidate(lock, "path")
    /\ \E there \in BOOLEAN :
        /\ there => frame.here
        /\ IF ApproachStalled(there)
           THEN Recover("RecoveringWalkStuck", Unreachable)
           ELSE /\ Enter("EngagingApproach", lock, 0)
                /\ Walk
                /\ Remember([NoUpdate EXCEPT !.walk = TRUE])

\* The path to the lock has no tile left to walk to.
ApproachExhausted ==
    /\ Pursuing /\ Candidate(lock, "path")
    /\ Recover("RecoveringNoReachableTarget", Unreachable)

\* The lock is live in the snapshot, but no candidate.
AttackVisibleLock ==
    Pursuing /\ label = "EngagingAttack" /\ Attack(TRUE)

\* The lock is neither a candidate nor attacked.
LoseLock ==
    Pursuing /\ (Acquire(Targets \ {lock}, NoUpdate) \/ NoTargetAction)

-----------------------------------------------------------------------------
Settled ==
    \/ WakeUp \/ InterruptRecovery \/ KeepWaiting \/ RecoveryElapsed \/ EscapeElapsed
    \/ IdleAcquire \/ IdleNoTarget
    \/ ExploreAcquire \/ ExploreStuck \/ ExploreContinue \/ ExploreNoTarget
    \/ AttackDespiteFailure \/ SwitchRefusedLock \/ GiveUpRefusedLock
    \/ ApproachWalkFailed \/ LockGone \/ AttackLock \/ ApproachLock
    \/ ApproachExhausted \/ AttackVisibleLock \/ LoseLock

Step ==
    /\ frame # NoFrame
    /\ frame' = NoFrame
    /\ \/ NotInGame \/ PlayerDied \/ CriticalHp \/ DamageSpike
       \/ InactivityEscape
       \/ ~WatchdogDue /\ Settled

\* A hunt begins with a new HuntContext, and with the client as the hunt before
\* it, or the player, has left it (see BotEngine).
Init ==
    /\ label = "DisabledMasterOff" /\ lock = NoTarget /\ wait = 0 /\ since = 0
    /\ memory = EmptyMemory
    /\ watch = NoWatch /\ outcome = NoOutcome /\ bootstrapped = NoTarget
    /\ client \in [auto: BOOLEAN, target: Targets \cup {NoTarget},
                   walking: BOOLEAN, deaf: {FALSE}]
    /\ frame = NoFrame /\ act = NoAction

Next == Frame \/ Step

\* The tick thread loops for as long as the bot runs.
Spec == Init /\ [][Next]_vars /\ WF_vars(Next)

-----------------------------------------------------------------------------
(* Safety.                                                                 *)

Rejected(t) == memory.failed[t].cause = "AttackRejected" /\ memory.failed[t].left > 0

\* While the rejection of a target lasts, the bot is not engaged with it, so no
\* action of the bot aims at it, whoever attacks whom and however the lock moved
\* meanwhile (planner.rs should_consider_target: retrying at once would lock the
\* bot into an endless loop on the same id).
RejectedIsLeftAlone == label \in Engaging => ~Rejected(lock)

\* While the bot waits for a scroll to take effect, neither the mouse button that
\* makes it walk nor the client's auto-attack is left on, whatever it was doing,
\* unless the client's memory could not be written.
EscapeIsQuiet ==
    label = "Escaping" => ~client.walking /\ (client.auto => client.deaf)

\* Once the bot has made its first step, the button is down only while it
\* approaches a target or explores: every way out of the two states releases it.
WalksOnlyWhileTravelling ==
    client.walking => label \in {"DisabledMasterOff", "EngagingApproach", "Exploring"}

\* A scroll, once named, ends inactivity: the bot is never found inactive in a
\* watched state at the end of two ticks in a row.
InactivityNeverLingers ==
    [][ScrollNamed /\ act'.kind # "none" /\ {label, label'} \subseteq Watched
         => memory'.activityAge < InactivityReset]_vars

-----------------------------------------------------------------------------
(* Liveness.                                                               *)

\* Waiting for a scroll always ends.
EscapeEnds == label = "Escaping" ~> label # "Escaping"

\* Recoveries end, unless the blows never end.
RecoveryEnds ==
    <>[][~(frame # NoFrame /\ (DamageSpike \/ CriticalHp))]_vars
        => []<>(label \notin Recovering)

\* Every crisis comes to an end: neither the escape nor a recovery is for ever.
CrisesEnd == EscapeEnds /\ RecoveryEnds
=============================================================================
