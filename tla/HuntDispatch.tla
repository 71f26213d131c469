---------------------------- MODULE HuntDispatch ----------------------------
(***************************************************************************)
(* The second half of a tick of the hunt: whose turn it is in the attack     *)
(* sequence (bot/hunt4/context.rs, bot/decide/hunt.rs), what the skill of     *)
(* that turn costs and reaches (backend.rs, skill_cd.rs, plan.rs), what the   *)
(* planner's policy would have done and whether it takes over (policy.rs,     *)
(* intent.rs), and what is noted after the dispatch (backend.rs).            *)
(*                                                                         *)
(* What the first half finds is a View: what HuntStep decides, and where the  *)
(* first of the ranked targets is.  Time passes in units; all that a tick     *)
(* notes bears the time of its frame.                                       *)
(***************************************************************************)
EXTENDS Integers, Sequences, FiniteSets

CONSTANTS Targets,        \* target ids
          Skills,         \* names of skills, without the empty one
          Gate,           \* what the client's table says of each, 0 for nothing
          SkillRange,     \* and how far each reaches
          BasicRange,     \* with the weapon that is worn
          Configs,        \* the settings, see Config
          Views,          \* what the first half may find, see View
          FallbackGate,   \* FALLBACK_GATE_MS
          Cooldown,       \* REPEAT_NORMAL_ATTACK_COOLDOWN
          MinStreak,      \* DISPATCH_TAKEOVER_MIN_ALIGNED_STREAK
          MaxSteps,       \* MAX_ATTACK_SEQUENCE_STEPS
          MaxTime         \* bound on the clock

Nobody == 0
NoTile == 0
NoSkill == "basic"
Never == -1
NotCached == -1

\* A step names its skill, or none.
Step == [skill: Skills \cup {NoSkill}, wait: Nat]
Config == [steps: Seq(Step), legacy: Skills \cup {NoSkill}, cycle: Nat, takeover: BOOLEAN]

\* wants: the action of HuntStep, at a target or a tile, and whether a skill may
\* be used.  top: the first of the ranked targets, its distance and the tile next
\* on the way to it (NoTile: none known).  explore: the tile of the explore.
View == [wants: {"Wait", "Walk", "Attack", "Scroll"}, at: Nat, allowed: BOOLEAN,
         top: Targets \cup {Nobody}, distance: Nat, reachable: BOOLEAN, tile: Nat,
         explores: BOOLEAN, explore: Nat, live: SUBSET Targets]

DispatchAssumption ==
    /\ Nobody \notin Targets /\ NoSkill \notin Skills
    /\ Configs \subseteq Config /\ Views \subseteq View
    /\ Gate \in [Skills -> Nat] /\ SkillRange \in [Skills -> Nat]
    /\ {BasicRange, FallbackGate, Cooldown, MinStreak, MaxTime} \subseteq Nat
    /\ MaxSteps \in Nat \ {0}

VARIABLES now, cfg,
          seq,       \* AttackSequenceRuntime: active_index from 1, cycle_started_at, next_ready_at
          gates, ranges,   \* cached_skill_gate_ms, cached_skill_range
          memory,    \* the ages of last_attack and last_skill_cast, as far as it matters,
                     \* and post_skill_basic_pending_target
          streak,    \* aligned_streak, no further than MinStreak
          sent,      \* what the tick has dispatched, and what HuntStep had wanted
          turns      \* history: the last turn that was used, and the rounds

vars == <<now, cfg, seq, gates, ranges, memory, streak, sent, turns>>

Larger(a, b) == IF a > b THEN a ELSE b
Greatest(S) == CHOOSE n \in S : \A m \in S : n >= m

-----------------------------------------------------------------------------
(* The attack sequence.                                                     *)

\* effective_attack_sequence: without steps the one skill of old settings.
Steps(c) ==
    IF c.steps # <<>> THEN SubSeq(c.steps, 1, IF Len(c.steps) > MaxSteps THEN MaxSteps ELSE Len(c.steps))
    ELSE <<[skill |-> c.legacy, wait |-> 0]>>

\* current_step, up to its answer.
Current(s) ==
    IF s.index > Len(Steps(cfg)) THEN [index |-> 1, started |-> now, ready |-> Never]
    ELSE IF s.started = Never THEN [s EXCEPT !.started = now]
    ELSE s

IsDue(s) == now >= s.ready

\* A wrong version, to show that the properties below can fail.
AdvancedUnrounded(s) ==
    LET step == Steps(cfg)[s.index]
        last == s.index = Len(Steps(cfg))
    IN  [index |-> IF last THEN 1 ELSE s.index + 1,
         started |-> IF last THEN s.started + cfg.cycle ELSE s.started,
         ready |-> now + step.wait]

\* A wrong version, to show that the properties below can fail.
AdvancedByCycle(s) ==
    LET step == Steps(cfg)[s.index]
        last == s.index = Len(Steps(cfg))
        round == IF cfg.cycle = 0 THEN now ELSE s.started + cfg.cycle
    IN  [index |-> IF last THEN 1 ELSE s.index + 1,
         started |-> IF last THEN round ELSE s.started,
         ready |-> IF last THEN round ELSE now + step.wait]

\* advance_after_attack.
Advanced(s) ==
    LET step == Steps(cfg)[s.index]
        last == s.index = Len(Steps(cfg))
        round == IF cfg.cycle = 0 THEN now ELSE s.started + cfg.cycle
        ready == IF last THEN Larger(now + step.wait, round) ELSE now + step.wait
    IN  [index |-> IF last THEN 1 ELSE s.index + 1,
         started |-> IF last THEN ready ELSE s.started,
         ready |-> ready]

\* The step whose turn it is, in the tick's own copy s of the sequence.
DueSkill(s) == IF IsDue(s) THEN Steps(cfg)[s.index].skill ELSE NoSkill

\* resolve_skill_gate_ms_for, resolve_skill_range_for: asked once for all, also when
\* the spell book could not be read.
GateOf(skill, readable) ==
    IF gates[skill] # NotCached THEN gates[skill] ELSE IF readable THEN Gate[skill] ELSE FallbackGate
RangeOf(skill, readable) ==
    IF ranges[skill] # NotCached THEN ranges[skill] ELSE IF readable THEN SkillRange[skill] ELSE 0

AttackRange(skill, readable) ==
    IF skill # NoSkill /\ RangeOf(skill, readable) > 0 THEN RangeOf(skill, readable) ELSE BasicRange

CooledDown(skill, readable) ==
    LET gate == GateOf(skill, readable) IN
    gate = 0 \/ memory.skillAge >= gate

-----------------------------------------------------------------------------
(* What is decided: intents.                                                *)

Intent(kind, id, skill) == [kind |-> kind, id |-> id, skill |-> skill]
Noop == Intent("Noop", 0, NoSkill)
AttackKinds == {"BootstrapAttack", "CastSkill"}

\* intent_for of an attack: the monster may not be there any more.
AttackIntent(v, id, skill) ==
    IF id \notin v.live THEN Intent("AttackLookupFailed", id, NoSkill)
    ELSE IF skill # NoSkill THEN Intent("CastSkill", id, skill)
    ELSE Intent("BootstrapAttack", id, NoSkill)

\* selected_attack_skill, of the step and of the planner alike.
SkillFor(due, id, allowed, readable) ==
    IF allowed /\ due # NoSkill /\ memory.pending # id /\ CooledDown(due, readable) THEN due
    ELSE NoSkill

NormalReady == memory.attackAge >= Cooldown

\* Between two turns a basic attack is sent now and then.
Attacks(v, s) == v.wants = "Attack" /\ (IsDue(s) \/ NormalReady)

\* The intent of HuntStep.
Backend(v, s, readable) ==
    CASE Attacks(v, s) -> AttackIntent(v, v.at, SkillFor(DueSkill(s), v.at, v.allowed, readable))
      [] v.wants = "Walk" -> Intent("Walk", v.at, NoSkill)
      [] v.wants = "Scroll" -> Intent("UseScroll", 0, NoSkill)
      [] OTHER -> Noop

\* policy.rs: decide.  The plan never asks for a scroll.
Decision(v, s, readable) ==
    LET inRange == v.distance =< AttackRange(DueSkill(s), readable) IN
    CASE v.top # Nobody /\ v.reachable /\ inRange -> [kind |-> "Attack", at |-> v.top]
      [] v.top # Nobody /\ v.reachable /\ ~inRange -> [kind |-> "Approach", at |-> v.tile]
      [] ~(v.top # Nobody /\ v.reachable) /\ v.explores -> [kind |-> "Explore", at |-> v.explore]
      [] OTHER -> [kind |-> "Wait", at |-> 0]

\* action_for_decision and intent_for.
Shadow(v, s, readable) ==
    LET d == Decision(v, s, readable) IN
    CASE d.kind = "Attack" -> AttackIntent(v, d.at, SkillFor(DueSkill(s), d.at, TRUE, readable))
      [] d.kind \in {"Approach", "Explore"} /\ d.at # NoTile -> Intent("Walk", d.at, NoSkill)
      [] OTHER -> Noop

\* alignment: what kind of attack it is, is not compared.
Aligned(d, backend) ==
    \/ d.kind = "Wait" /\ backend.kind = "Noop"
    \/ d.kind = "Attack" /\ backend.kind \in AttackKinds /\ backend.id = d.at
    \/ d.kind \in {"Approach", "Explore"} /\ backend.kind = "Walk" /\ d.at # NoTile /\ backend.id = d.at

\* A wrong version, to show that the properties below can fail.
TakenOverWhenAligned(backend, shadow, aligned, run) ==
    /\ cfg.takeover /\ backend.kind \notin {"UseScroll", "AttackLookupFailed"}
    /\ aligned /\ run >= MinStreak
    /\ shadow.kind \in {"Noop", "Walk"} \cup AttackKinds

\* choose_dispatch_intent.
TakenOver(backend, shadow, aligned, run) ==
    /\ cfg.takeover /\ backend.kind \notin {"UseScroll", "AttackLookupFailed"}
    /\ aligned /\ run >= MinStreak
    /\ shadow = backend
    /\ shadow.kind \in {"Noop", "Walk"} \cup AttackKinds

-----------------------------------------------------------------------------
NoTurn == [count |-> 0, until |-> 0, origin |-> Never, rounds |-> 0]

\* After LongAgo no gate and no cooldown is left.
LongAgo == Greatest({Cooldown, FallbackGate} \cup {Gate[s] : s \in Skills})
Aged(age) == IF age < LongAgo THEN age + 1 ELSE age

Init ==
    /\ now = 0 /\ cfg \in Configs
    /\ seq = [index |-> 1, started |-> Never, ready |-> Never]
    /\ gates = [s \in Skills |-> NotCached] /\ ranges = [s \in Skills |-> NotCached]
    /\ memory = [attackAge |-> LongAgo, skillAge |-> LongAgo, pending |-> Nobody]
    /\ streak = 0
    /\ sent = [intent |-> Noop, backend |-> Noop] /\ turns = NoTurn

Passes ==
    /\ now < MaxTime /\ now' = now + 1
    /\ memory' = [memory EXCEPT !.attackAge = Aged(@), !.skillAge = Aged(@)]
    /\ UNCHANGED <<cfg, seq, gates, ranges, streak, sent, turns>>

\* A reload of the settings, between two ticks.
Configure(c) ==
    /\ c # cfg /\ cfg' = c
    /\ turns' = [turns EXCEPT !.origin = seq.started, !.rounds = 0]
    /\ UNCHANGED <<now, seq, gates, ranges, memory, streak, sent>>

\* What the step notes of its decision, whatever becomes of it.
Noted(v, s, readable) ==
    LET skill == SkillFor(DueSkill(s), v.at, v.allowed, readable) IN
    IF ~Attacks(v, s) THEN memory
    ELSE IF skill # NoSkill THEN [attackAge |-> 0, skillAge |-> 0, pending |-> v.at]
    ELSE [memory EXCEPT !.attackAge = 0, !.pending = IF @ = v.at THEN Nobody ELSE @]

\* Only the skill of the turn is looked up.
Cached(cache, skill, value) == IF skill = NoSkill THEN cache ELSE [cache EXCEPT ![skill] = value]

\* A wrong version, to show that the properties below can fail.
AdvancesOnAnyAttack(intent, s) == intent.kind \in AttackKinds

\* record_attack_sequence_after_dispatch: sent or failed, the turn is used; an attack
\* between two turns uses none.
Advances(intent, s) == intent.kind \in AttackKinds /\ IsDue(s)

Tick(v) ==
    \E readable \in BOOLEAN :
        LET s == Current(seq)
            due == DueSkill(s)
            backend == Backend(v, s, readable)
            shadow == Shadow(v, s, readable)
            aligned == Aligned(Decision(v, s, readable), backend)
            run == IF ~aligned THEN 0 ELSE IF streak < MinStreak THEN streak + 1 ELSE streak
            intent == IF TakenOver(backend, shadow, aligned, run) THEN shadow ELSE backend
            used == Advances(intent, s)
        IN  /\ seq' = IF used THEN Advanced(s) ELSE s
            /\ gates' = IF due = NoSkill THEN gates ELSE Cached(gates, due, GateOf(due, readable))
            /\ ranges' = IF due = NoSkill THEN ranges ELSE Cached(ranges, due, RangeOf(due, readable))
            /\ memory' = Noted(v, s, readable)
            /\ streak' = run
            /\ sent' = [intent |-> intent, backend |-> backend]
            /\ turns' = IF ~used THEN [turns EXCEPT !.origin = IF @ = Never THEN s.started ELSE @,
                                                    !.until = IF seq.index > Len(Steps(cfg)) THEN 0 ELSE @]
                        ELSE [count |-> (turns.count + 1) % 2, until |-> now + Steps(cfg)[s.index].wait,
                              origin |-> IF turns.origin = Never THEN s.started ELSE turns.origin,
                              rounds |-> IF s.index = Len(Steps(cfg)) THEN turns.rounds + 1 ELSE turns.rounds]
    /\ UNCHANGED <<now, cfg>>

Next == Passes \/ (\E c \in Configs : Configure(c)) \/ (\E v \in Views : Tick(v))

Spec == Init /\ [][Next]_vars

-----------------------------------------------------------------------------
TypeOK ==
    /\ now \in 0..MaxTime /\ cfg \in Configs
    /\ seq.index \in 1..MaxSteps /\ seq.started \in Nat \cup {Never} /\ seq.ready \in Nat \cup {Never}
    /\ {gates, ranges} \subseteq [Skills -> Nat \cup {NotCached}]
    /\ memory.pending \in Targets \cup {Nobody} /\ streak \in 0..MinStreak
    /\ turns.rounds \in Nat

\* Between two turns passes what the earlier one asks for, also when the settings are
\* changed in between; only settings so short that the turn does not exist any more
\* begin at once.
StepsSpaced ==
    turns'.count # turns.count /\ seq.index =< Len(Steps(cfg)) => now >= turns.until

\* The rounds do not outrun the clock: before a round begins as many cycles have
\* passed since the first one began as there have been rounds.  (A round that took
\* long is made up for by shorter ones.)
RoundsKeepPace ==
    (turns'.count # turns.count /\ seq.index = 1 /\ turns.origin # Never)
    => now >= turns.origin + turns.rounds * cfg.cycle

\* Whoever chose it, what is dispatched is what the step had decided and noted in its
\* memory.
SentIsDecided == sent.intent = sent.backend

\* What makes these inductive: a turn does not begin before the last one allows it,
\* and a round not before those that are through with it; after the first turn of a
\* round its beginning has passed.  Settings in which the turn does not exist any
\* more are new ones, with which the rounds are counted anew.
DispatchTypes ==
    /\ now \in Nat /\ cfg \in Config
    /\ seq \in [index : Nat \ {0}, started : Nat \cup {Never}, ready : Nat \cup {Never}]
    /\ turns \in [count : Nat, until : Nat, origin : Nat \cup {Never}, rounds : Nat]
InTurn == turns.until > 0 => turns.until =< seq.ready
InRound ==
    /\ turns.origin # Never => seq.started >= turns.origin + turns.rounds * cfg.cycle
    /\ turns.origin = Never => turns.rounds = 0
    /\ seq.started = Never => turns.origin = Never
    /\ seq.index = 1 => seq.ready >= seq.started \/ seq.started =< now
    /\ seq.index > 1 => seq.started =< now
    /\ seq.index > Len(Steps(cfg)) => turns.rounds = 0 /\ turns.origin =< now
DispatchInvariant == DispatchTypes /\ InTurn /\ InRound /\ SentIsDecided
=============================================================================
