------------------------------ MODULE HuntPlan ------------------------------
(***************************************************************************)
(* What the bot makes of the monsters it sees, tick by tick: which of them   *)
(* are targets (bot/hunt4/perception.rs, targeting.rs, planner.rs), in which   *)
(* order (targeting.rs), what it believes of who is attacking (plan.rs), the    *)
(* route to the one that is selected (score.rs, route.rs, plan.rs), and where   *)
(* it explores while there is nobody to hunt (planner.rs, memory.rs).         *)
(*                                                                         *)
(* Where a monster stands is its distance, whether there is a clear line to   *)
(* it, and how long the way to where it can be hit is: finding that way is    *)
(* the subject of PathFinding.  The ground that is explored has one way from   *)
(* each of its tiles to each other, shut while a tile of it is an obstacle.    *)
(***************************************************************************)
EXTENDS Integers, Sequences, FiniteSets, FiniteSetsExt

CONSTANTS Monsters,       \* target ids, which are numbers
          Facts,          \* what may be seen of a monster, see Fact
          HuntRange,      \* hunt_range_tiles, 0 for no limit
          Local,          \* LOCAL_CLEAR_RADIUS_TILES
          AttackRange,    \* of the step that is due, see AttackSequence
          MaxFailed,      \* bound on the records of failure kept at once
          Grounds,        \* what may be explored, see GroundOf
          GoalLimit,      \* PROFILE_EXPLORE_GOAL_LIMIT
          MaxVisits,      \* u16::MAX
          MaxTrail        \* POSITION_HISTORY_CAP

Melee == 1   \* MELEE_RANGE_TILES
Nobody == 0
NoWay == -1

Classes == {"monster", "doubtful", "dead", "hidden", "nonWorld", "shadow", "local", "unknown"}

\* named: its name is on the blacklist.  found: its entity pointer is not 0.
\* way: the steps to a tile from where it can be hit, if there is a way.  Without a map
\* of the walls every line is taken to be clear, and every way to be the one step to
\* optimistic_attack_tile: two of the values that a fact may have.
Fact == [class: Classes, dying: BOOLEAN, named: BOOLEAN, found: BOOLEAN,
         distance: Nat, clear: BOOLEAN, way: Nat \cup {NoWay}]

NoTile == 0

\* way: the tiles of the way from one tile to another, without the first.  off: by
\* how much their distance is not EXPLORE_RANGE_TILES.  heading, near: of their
\* direction and distance, for failed_explore_directions.  ahead: the goals at
\* the eight directions; rings: those of EXPLORE_FALLBACK_RADII.  component: the
\* tiles that the map's profile connects to a tile, none if there is no profile.
GroundOf(tiles) ==
    [tiles: {tiles}, way: [tiles \X tiles -> Seq(tiles)], off: [tiles \X tiles -> Nat],
     heading: [tiles \X tiles -> Nat], near: SUBSET (tiles \X tiles),
     ahead: [tiles -> Seq(tiles \cup {NoTile})], rings: [tiles -> Seq(SUBSET tiles)],
     component: [tiles -> SUBSET tiles]]

PlanAssumption ==
    /\ GoalLimit \in Nat \ {0} /\ {MaxVisits, MaxTrail} \subseteq Nat \ {0}
    /\ \A g \in Grounds : g.tiles \subseteq Nat \ {NoTile} /\ g.tiles # {} /\ g \in GroundOf(g.tiles)
    /\ Monsters \subseteq Nat \ {Nobody} /\ IsFiniteSet(Monsters)
    /\ Facts \subseteq Fact
    /\ {HuntRange, Local, MaxFailed} \subseteq Nat /\ AttackRange \in Nat \ {0} /\ Melee =< Local

VARIABLES seen,        \* what is seen of each monster
          failed,      \* failed_targets: the cause of a record that has not expired
          attackers,   \* recent_attackers, from the server's packets
          hpDropped,   \* hp_drop_detected
          chosen,      \* the target the last tick selected
          ground,
          at,          \* the player's tile
          visits,      \* visited_tiles
          trail,       \* recent_positions, the newest last
          blocked,     \* obstacles
          shunned,     \* failed_explore_directions: where from and which way
          suggestion   \* the ExploreSuggestion of the last tick

planVars == <<seen, failed, attackers, hpDropped, chosen>>
exploreVars == <<ground, at, visits, trail, blocked, shunned, suggestion>>
vars == <<planVars, exploreVars>>

NoSuggestion == [goal |-> NoTile, path |-> <<>>]

TypeOK ==
    /\ seen \in [Monsters -> Facts]
    /\ failed \in [Monsters -> {"none", "Unreachable", "AttackRejected"}]
    /\ attackers \subseteq Monsters /\ hpDropped \in BOOLEAN
    /\ chosen \in Monsters \cup {Nobody}
    /\ ground \in Grounds /\ at \in ground.tiles
    /\ visits \in [ground.tiles -> 0..MaxVisits]
    /\ trail \in Seq(ground.tiles) /\ Len(trail) =< MaxTrail
    /\ blocked \subseteq ground.tiles /\ shunned \subseteq ground.tiles \X Nat
    /\ suggestion.goal \in ground.tiles \cup {NoTile} /\ suggestion.path \in Seq(ground.tiles)

-----------------------------------------------------------------------------
(* What is there.                                                          *)

Dead(m) == seen[m].class = "dead" \/ seen[m].dying
Attackable(m) == seen[m].class = "monster"

\* A creature is in the way unless it is dead or no more than a shadow.
BlocksMovement(m) == ~Dead(m) /\ seen[m].class # "shadow"

\* filter_snapshot: the dead stay, however far, so that a lock on them can end.
InSnapshot(m) ==
    \/ Dead(m)
    \/ /\ seen[m].distance > 0
       /\ HuntRange > 0 => seen[m].distance =< HuntRange
       /\ IF Attackable(m) THEN ~seen[m].named ELSE BlocksMovement(m)

\* valid_targets: a dying monster is still one while its class says so.
Targets == {m \in Monsters : InSnapshot(m) /\ Attackable(m)}

Viability(m) ==
    CASE seen[m].class = "monster" -> "Viable"
      [] seen[m].class = "doubtful" -> "Unknown"
      [] seen[m].class = "dead" -> "Dead"
      [] seen[m].class = "hidden" -> "HiddenOrBurrowed"
      [] seen[m].class = "nonWorld" -> "NonWorldMonsterState"
      [] seen[m].class = "shadow" -> "DecorationOrShadow"
      [] seen[m].class = "local" -> "LocalOrInvalid"
      [] OTHER -> "Unknown"

Rejected == {m \in Monsters : InSnapshot(m) /\ Viability(m) # "Viable"}

\* pressure_attackers_for_hp_drop: whoever is near is taken for an attacker, or
\* the nearest if nobody is near.
Nearest(S) ==
    {m \in S : \A o \in S : \/ seen[m].distance < seen[o].distance
                            \/ seen[m].distance = seen[o].distance /\ m =< o}
Suspects ==
    LET near == {m \in Targets : seen[m].distance =< Local} IN
    IF ~hpDropped THEN {} ELSE IF near # {} THEN near ELSE Nearest(Targets)
Attackers == attackers \cup Suspects

-----------------------------------------------------------------------------
(* The candidates.                                                         *)

\* A target that rejected attacks rests; one that could not be reached comes back
\* when it attacks.
ShouldConsider(m) ==
    CASE failed[m] = "AttackRejected" -> FALSE
      [] failed[m] = "Unreachable" -> m \in Attackers
      [] OTHER -> TRUE

\* compute_reachable_path.
InRange(m) == seen[m].distance =< AttackRange /\ seen[m].clear
Way(m) ==
    IF InRange(m) THEN 0
    ELSE IF seen[m].distance =< AttackRange /\ seen[m].distance =< Melee THEN NoWay
    ELSE seen[m].way

CandidateOf(m) ==
    [id |-> m, distance |-> seen[m].distance, inRange |-> InRange(m), way |-> Way(m),
     attacker |-> m \in Attackers, found |-> seen[m].found]

CounterattackableAdjacent(c) == c.attacker /\ c.found /\ c.distance =< Melee
Reachable(c) == c.way # NoWay
Actionable(c) == Reachable(c) \/ CounterattackableAdjacent(c)

CandidateSet ==
    {c \in {CandidateOf(m) : m \in {n \in Targets : ShouldConsider(n)}} : Actionable(c)}

IsLocal(c) == c.distance =< Local

Bit(b) == IF b THEN 0 ELSE 1

\* A wrong version, to show that the properties below can fail.
BandWithoutLocal(c) ==
    IF CounterattackableAdjacent(c) THEN 0 ELSE IF c.inRange /\ Reachable(c) THEN 1
    ELSE (IF Reachable(c) THEN 4 ELSE 6) + Bit(c.attacker)

PriorityBand(c) ==
    IF CounterattackableAdjacent(c) THEN 0 ELSE IF c.inRange /\ Reachable(c) THEN 1
    ELSE (IF ~Reachable(c) THEN 6 ELSE IF IsLocal(c) THEN 2 ELSE 4) + Bit(c.attacker)

Endless == 1000000   \* usize::MAX
ApproachCost(c) == IF c.inRange THEN 0 ELSE IF Reachable(c) THEN c.way ELSE Endless

\* The keys that compare_candidates compares one after the other; how it orders
\* the two lengths depends on both candidates.
Keys(a, b) ==
    LET lengths(c) == IF IsLocal(a) /\ IsLocal(b) THEN <<c.distance, ApproachCost(c)>>
                      ELSE <<ApproachCost(c), c.distance>>
        keys(c) == <<PriorityBand(c)>> \o lengths(c) \o <<Bit(c.attacker), Bit(c.inRange), c.id>>
    IN  <<keys(a), keys(b)>>

Before(a, b) ==
    LET k == Keys(a, b) IN
    \E i \in 1..6 : k[1][i] < k[2][i] /\ \A j \in 1..i - 1 : k[1][j] = k[2][j]

-----------------------------------------------------------------------------
(* What becomes of it.                                                     *)

\* select_target takes the first of the sorted candidates.
Selected ==
    LET candidates == CandidateSet
        first == {c \in candidates : \A o \in candidates \ {c} : Before(c, o)}
    IN  IF first = {} THEN Nobody ELSE (CHOOSE c \in first : TRUE).id

\* route_for_plan: the route to the selected target; without one, exploring.
RouteTo(m) ==
    CASE m = Nobody -> "explore"
      [] m # Nobody /\ InRange(m) -> "AlreadyInRange"
      [] m # Nobody /\ ~InRange(m) /\ Way(m) # NoWay -> "Reachable"
      [] OTHER -> "Unreachable"

-----------------------------------------------------------------------------
(* Where to explore.                                                       *)

\* last_distinct_recent_position.
Previous ==
    LET other == {i \in DOMAIN trail : trail[i] # at} IN
    IF other = {} THEN NoTile ELSE trail[Max(other)]

\* plan_to_any, to one goal: no obstacle is on the way, the player's own tile is none.
Route(g) ==
    LET way == ground.way[at, g] IN
    IF \E i \in DOMAIN way : way[i] \in blocked \ {at} THEN <<>> ELSE way
Routed(S) == {g \in S : Route(g) # <<>>}

\* What a tile adds to the cost of a way: EXPLORE_VISITED_TILE_PENALTY for each of
\* up to 20 visits, EXPLORE_BACKTRACK_TILE_PENALTY for turning back.
ExplorePenalty(t) ==
    160 * (IF visits[t] > 20 THEN 20 ELSE visits[t]) + (IF t = Previous THEN 480 ELSE 0)
Cost(g) ==
    LET step(i) == 10 + ExplorePenalty(Route(g)[i]) IN MapThenSumSet(step, DOMAIN Route(g))
Cheapest(S) ==
    LET priced == {<<g, Cost(g)>> : g \in S} IN
    {p[1] : p \in {q \in priced : \A r \in priced : q[2] =< r[2]}}

\* is_explore_direction_failed.
Shuns(g) ==
    g # at /\ \E k \in shunned : k[2] = ground.heading[at, g] /\ <<k[1], at>> \in ground.near

\* profile_explore_suggestion: by their score, and of one score so many at a time
\* that the search has no more than GoalLimit goals.
ProfileGoals == {g \in ground.component[at] \ ({at} \cup blocked) : ~Shuns(g)}

\* A wrong version, to show that the properties below can fail.
ScoreWithoutVisits(g) == (IF g = Previous THEN 500000 ELSE 0) + ground.off[at, g]

ProfileScore(g) ==
    1000000 * visits[g] + (IF g = Previous THEN 500000 ELSE 0) + ground.off[at, g]
Chunk(g) ==
    Cardinality({h \in ProfileGoals : ProfileScore(h) = ProfileScore(g) /\ h < g}) \div GoalLimit
TriedBefore(g, h) ==
    \/ ProfileScore(g) < ProfileScore(h)
    \/ ProfileScore(g) = ProfileScore(h) /\ Chunk(g) < Chunk(h)
ProfileChoice ==
    LET routed == Routed(ProfileGoals) IN
    Cheapest({g \in routed : \A h \in routed : ~TriedBefore(h, g)})

\* best_directional_explore_suggestion: the way on which the player has been
\* least, then the shortest, then the first from a direction on that the positions
\* of the player determine: it may be any.
PathScore(g) == 10000 * MapThenSumSet(LAMBDA i : visits[Route(g)[i]], DOMAIN Route(g)) + Len(Route(g))
InOrder(offset) ==
    LET n == Len(ground.ahead[at]) IN [o \in 1..n |-> ground.ahead[at][((o + offset) % n) + 1]]
DirectionalChoice(offset) ==
    LET goals == InOrder(offset)
        routed == {o \in DOMAIN goals : goals[o] # NoTile /\ ~Shuns(goals[o]) /\ Route(goals[o]) # <<>>}
    IN  {goals[o] : o \in {p \in routed : \A q \in routed :
            \/ PathScore(goals[p]) < PathScore(goals[q])
            \/ PathScore(goals[p]) = PathScore(goals[q]) /\ p =< q}}

\* build_explore_suggestion_with_profile, its last resort: the first ring that can
\* be reached.
RingChoice ==
    LET ring(r) == Routed({g \in ground.rings[at][r] : ~Shuns(g)})
        reached == {r \in DOMAIN ground.rings[at] : ring(r) # {}}
    IN  IF reached = {} THEN {} ELSE Cheapest(ring(Min(reached)))

ExploreGoals ==
    LET known == ProfileChoice
        ahead == UNION {DirectionalChoice(o) : o \in DOMAIN ground.ahead[at]}
    IN  IF known # {} THEN known ELSE IF ahead # {} THEN ahead ELSE RingChoice

Suggestions ==
    LET goals == ExploreGoals IN
    IF goals = {} THEN {NoSuggestion} ELSE {[goal |-> g, path |-> Route(g)] : g \in goals}

-----------------------------------------------------------------------------
Init ==
    /\ ground \in Grounds /\ at \in ground.tiles
    /\ visits = [t \in ground.tiles |-> 0] /\ trail = <<>>
    /\ blocked = {} /\ shunned = {} /\ suggestion = NoSuggestion
    /\ seen \in [Monsters -> Facts]
    /\ failed = [m \in Monsters |-> "none"]
    /\ attackers = {} /\ hpDropped = FALSE /\ chosen = Nobody

\* record_position_memory_after_frame: each tick, also where the player stands.
RecordsPosition ==
    /\ visits' = [visits EXCEPT ![at] = IF @ < MaxVisits THEN @ + 1 ELSE @]
    /\ trail' = LET longer == Append(trail, at) IN
                IF Len(longer) > MaxTrail THEN Tail(longer) ELSE longer

\* A tick plans with what is seen; the hunt locks on the selected target, or
\* explores with what it remembers by now.
Tick ==
    /\ UNCHANGED <<seen, failed, attackers, hpDropped, ground, at, blocked, shunned>>
    /\ RecordsPosition
    /\ chosen' = Selected
    /\ suggestion' \in IF chosen' = Nobody THEN Suggestions' ELSE {NoSuggestion}

\* The game walks the player to the first tile of the way, or nothing moves him:
\* recover_exploration_stuck.
Walks ==
    /\ suggestion.path # <<>> /\ at' = Head(suggestion.path) /\ suggestion' = NoSuggestion
    /\ UNCHANGED <<planVars, ground, visits, trail, blocked, shunned>>

Stuck ==
    /\ suggestion.path # <<>> /\ suggestion' = NoSuggestion
    /\ Cardinality(shunned) < MaxFailed
    /\ blocked' = blocked \cup {Head(suggestion.path)}
    /\ shunned' = shunned \cup {<<at, ground.heading[at, suggestion.goal]>>}
    /\ trail' = <<>>
    /\ UNCHANGED <<planVars, ground, at, visits>>

\* OBSTACLE_TTL and FAILED_EXPLORE_DIRECTION_TTL.
Clears(t) ==
    /\ t \in blocked /\ blocked' = blocked \ {t}
    /\ UNCHANGED <<planVars, ground, at, visits, trail, shunned, suggestion>>
Forgives(k) ==
    /\ k \in shunned /\ shunned' = shunned \ {k}
    /\ UNCHANGED <<planVars, ground, at, visits, trail, blocked, suggestion>>

\* mark_target_attack_rejected, mark_target_unreachable: by a later tick.
Fails(cause) ==
    /\ chosen # Nobody
    /\ Cardinality({m \in Monsters : failed[m] # "none"}) < MaxFailed
    /\ failed' = [failed EXCEPT ![chosen] = cause] /\ chosen' = Nobody
    /\ UNCHANGED <<seen, attackers, hpDropped, exploreVars>>

Expires(m) ==
    /\ failed[m] # "none" /\ failed' = [failed EXCEPT ![m] = "none"]
    /\ UNCHANGED <<seen, attackers, hpDropped, chosen, exploreVars>>

\* The game: monsters move, attack and are forgotten, the player is hurt.
Moves(m) ==
    /\ \E f \in Facts : seen' = [seen EXCEPT ![m] = f]
    /\ UNCHANGED <<failed, attackers, hpDropped, chosen, exploreVars>>

Attacks ==
    /\ \E S \in {{}} \cup {{m} : m \in Monsters} : attackers' = S
    /\ UNCHANGED <<seen, failed, hpDropped, chosen, exploreVars>>

Hurts ==
    /\ hpDropped' = ~hpDropped
    /\ UNCHANGED <<seen, failed, attackers, chosen, exploreVars>>

Next ==
    \/ Tick \/ Attacks \/ Hurts \/ Walks \/ Stuck
    \/ \E t \in blocked : Clears(t)
    \/ \E k \in shunned : Forgives(k)
    \/ \E cause \in {"Unreachable", "AttackRejected"} : Fails(cause)
    \/ \E m \in Monsters : Expires(m) \/ Moves(m)

Spec == Init /\ [][Next]_vars

-----------------------------------------------------------------------------
\* However the lengths are compared, the candidates stand in one order: the sort
\* is given no cycle, and of two one always comes first.
OrderIsTotal ==
    LET candidates == CandidateSet IN
    /\ \A a, b \in candidates : a # b => (Before(a, b) <=> ~Before(b, a))
    /\ \A a, b, c \in candidates : Before(a, b) /\ Before(b, c) => Before(a, c)

\* Somebody is hunted as long as anybody can be, and who hits the player from the
\* next tile comes before all that does not.
ThreatsComeFirst ==
    LET selected == Selected IN
    /\ selected = Nobody <=> CandidateSet = {}
    /\ selected # Nobody =>
         \A m \in Targets : (/\ m \in attackers /\ seen[m].found
                             /\ seen[m].distance =< Melee /\ failed[m] # "AttackRejected")
            => seen[selected].distance =< Melee /\ selected \in Attackers

\* No walk is planned past a monster that can be hit from here, but to face one
\* that attacks from the next tile; and none through a monster that is not there.
NoDetour ==
    LET selected == Selected
        status == RouteTo(selected)
    IN  /\ status = "Reachable" =>
              /\ \A m \in Targets : ShouldConsider(m) => ~InRange(m)
              /\ selected \notin Rejected
        /\ status = "Unreachable" =>
              selected \in Attackers /\ seen[selected].distance =< Melee

\* Pain alone brings nobody back that has just rejected attacks, and it makes no
\* attacker of what cannot be attacked.
PainIsNoProof ==
    /\ \A c \in CandidateSet : failed[c.id] # "AttackRejected"
    /\ hpDropped /\ Targets # {} => Suspects # {} /\ Suspects \subseteq Targets

\* The bot says that there is nothing to explore only where no way leads that did
\* not just fail, never sets out into an obstacle that it remembers, and on a map
\* that it knows makes for where it has been least.
ExploresOn ==
    LET everywhere == ground.component[at]
                      \cup {ground.ahead[at][i] : i \in DOMAIN ground.ahead[at]}
                      \cup UNION {ground.rings[at][i] : i \in DOMAIN ground.rings[at]}
        leads == {g \in everywhere \ {at, NoTile} : Route(g) # <<>> /\ ~Shuns(g)}
    IN  \A s \in Suggestions :
            IF s = NoSuggestion THEN leads = {}
            ELSE /\ s.goal \in leads /\ Head(s.path) \notin blocked
                 /\ leads \cap ground.component[at] # {} =>
                       \A g \in leads \cap ground.component[at] :
                           \/ visits[s.goal] < visits[g]
                           \/ visits[s.goal] = visits[g] /\ (s.goal = Previous => g = Previous)

\* What makes the first four inductive: the order, the choice and the route are made of
\* what is seen, whatever it is.
PlanInvariant ==
    /\ seen \in [Monsters -> Facts] /\ hpDropped \in BOOLEAN /\ attackers \subseteq Monsters
    /\ failed \in [Monsters -> {"none", "Unreachable", "AttackRejected"}]
=============================================================================
