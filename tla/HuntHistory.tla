---------------------------- MODULE HuntHistory ----------------------------
(***************************************************************************)
(* HuntStep with history variables: what an observer of the game, who does  *)
(* not see the bot's memory, remembers of its actions.  The history never   *)
(* restricts a step, so a behaviour of HSpec is one of HuntStep's Spec.     *)
(***************************************************************************)
EXTENDS HuntStep, FiniteSetsExt, TLC

VARIABLE hist

hvars == <<vars, hist>>

\* A tick has a longest length.
ASSUME LapseAssumption == \E longest \in Lapses : \A lapse \in Lapses : longest >= lapse

MaxLapse == Max(Lapses)

HInit ==
    /\ Init
    /\ hist = [scrollAge |-> ScrollCooldown, \* since a scroll was last requested
               alarm     |-> 0,              \* ticks of retreat still to come
               lastSkill |-> NoTarget,       \* last attack was a skill on it
               futile    |-> 0]              \* blows on the lock without damage

\* Between two steps of the machine time passes.
HFrame ==
    LET lapse == frame'.lapse
    IN hist' = [hist EXCEPT
         !.scrollAge = Older(@, lapse, ScrollCooldown),
         !.alarm = Left(@, lapse),
         !.futile = IF label # "EngagingAttack" \/ frame'.hit THEN 0 ELSE @ + lapse]

\* The lock refused the last attack and is left for that.
GivenUp == label \in Engaging /\ LockRefused /\ lock' # lock

HStep ==
    hist' = [hist EXCEPT
         !.scrollAge = IF act'.kind = "Scroll" THEN 0 ELSE @,
         !.alarm = IF label' \in Disabled THEN 0
                   ELSE IF label' \in Retreating /\ since' = 0 THEN RecoveryWait
                   ELSE @,
         !.lastSkill = IF act'.kind = "Skill" THEN act'.target
                       ELSE IF act'.kind = "Attack" \/ GivenUp THEN NoTarget ELSE @,
         !.futile = IF label' = "EngagingAttack" /\ lock' = lock THEN @ ELSE 0]

HNext == (Frame /\ HFrame) \/ (Step /\ HStep)
HSpec == HInit /\ [][HNext]_hvars /\ WF_hvars(HNext)

-----------------------------------------------------------------------------
(* Safety.                                                                 *)

\* A scroll is never requested again before TELEPORT_SCROLL_COOLDOWN is over,
\* whichever of the four ways to a scroll was taken, before or now
\* (step.rs: teleport_action, empty_explore_budget_action,
\* inactivity_watchdog_escape, the end of a NoReachableTarget recovery).
ScrollsAreSpaced ==
    [][act'.kind = "Scroll" => hist.scrollAge >= ScrollCooldown]_hvars

\* After a damage spike or at critical HP the bot neither attacks nor walks nor
\* scrolls before the recovery time is over, unless it leaves the game or dies.
RetreatIsPassive ==
    [][hist.alarm > 0 => act'.kind \in {"none", "Wait"}]_hvars

\* Two skills in a row are never aimed at the same target, unless it was given up
\* as refusing attacks meanwhile: a basic attack, or an attack on another target,
\* comes between, however often the lock is lost and taken up again
\* (post_skill_basic_pending_target).
NoSkillTwiceInARow ==
    [][act'.kind = "Skill" => hist.lastSkill # act'.target]_hvars

\* A lock under attack without any sign of damage is given up after
\* ATTACK_NO_PROGRESS_DURATION, give or take a tick, whatever the attacks return.
FutileAttackEnds ==
    frame = NoFrame => hist.futile < NoProgress + MaxLapse

\* For TLC: targets differ in nothing but their identity.
TargetSymmetry == Permutations(Targets)
=============================================================================
