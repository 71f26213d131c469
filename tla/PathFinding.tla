---------------------------- MODULE PathFinding ----------------------------
(***************************************************************************)
(* How the bot finds its way: the map's tiles (minimap/nav_grid.rs), what    *)
(* the tactical memory and the other creatures lay over them                 *)
(* (bot/hunt4/planner.rs), the A* search through the result                 *)
(* (bot/decide/pathfind.rs), and which part of an earlier path is kept when   *)
(* the player has moved (bot/hunt4/route.rs).                               *)
(*                                                                         *)
(* A step of the search is one round of its loop.  The heap does not say     *)
(* which of two equal nodes it gives out first; here it may be either.  What *)
(* the overlay answers does not change during a search: it is worked out     *)
(* once, in `grid`.                                                        *)
(***************************************************************************)
EXTENDS Integers, Sequences, FiniteSets

CONSTANTS Columns, Rows,    \* the part of the map that is loaded
          Situations,       \* the questions asked, see Situation
          ExploreRange,     \* EXPLORE_RANGE_TILES
          MaxIterations     \* MAX_ITERATIONS

Tiles == (1..Columns) \X (1..Rows)
NoTile == <<0, 0>>

\* What one question is about: a monster to attack, a direction to explore, or a
\* ring around the player.  shut1 and shut2 are the tiles whose
\* attributes do not let through from north to south and from east to west.
Situation ==
    [aim: {"attack", "direction", "ring"}, direction: 0..7,
     walls: SUBSET Tiles, shut1: SUBSET Tiles, shut2: SUBSET Tiles,
     obstacles: SUBSET Tiles, occupied: SUBSET Tiles,
     start: Tiles, target: Tiles, range: Nat,
     visited: SUBSET Tiles, previous: Tiles \cup {NoTile}]

PathAssumption ==
    /\ {Columns, Rows, ExploreRange, MaxIterations} \subseteq Nat \ {0}
    /\ \A w \in Situations : w.start \in Tiles \ w.occupied /\ w.target # w.start

VARIABLES world,       \* the question
          grid,        \* what the overlay answers: the steps and their penalties
          goals, open, gScore, cameFrom, iterations,
          answer,      \* what the caller is told
          player,      \* where the player is while it follows the path
          kept         \* the path that the hunt keeps

vars == <<world, grid, goals, open, gScore, cameFrom, iterations, answer, player, kept>>

Abs(n) == IF n < 0 THEN -n ELSE n
Chebyshev(a, b) ==
    LET dx == Abs(a[1] - b[1]) dy == Abs(a[2] - b[2]) IN IF dx > dy THEN dx ELSE dy
Moved(t, d) == <<t[1] + d[1], t[2] + d[2]>>
Delta(from, to) == <<to[1] - from[1], to[2] - from[2]>>
Diagonal(d) == d[1] # 0 /\ d[2] # 0
Smallest(S) == CHOOSE n \in S : \A m \in S : n =< m
Greatest(S) == CHOOSE n \in S : \A m \in S : n >= m

-----------------------------------------------------------------------------
(* The map.  A tile that is not loaded is blocked; what is not walkable       *)
(* blocks the sight too.                                                   *)

IsWalkable(w, t) == t \in Tiles \ w.walls

CanCardinalStep(w, from, to) ==
    /\ IsWalkable(w, to) /\ from \in Tiles
    /\ {from, to} \cap (IF from[1] = to[1] THEN w.shut1 ELSE w.shut2) = {}

\* A diagonal is the two ways around its corners, both of them open.
Legs(from, to) ==
    LET d == Delta(from, to) IN
    IF ~Diagonal(d) THEN {<<from, to>>}
    ELSE UNION {{<<from, side>>, <<side, to>>}
                    : side \in {Moved(from, <<d[1], 0>>), Moved(from, <<0, d[2]>>)}}

MapCanStep(w, from, to) == \A leg \in Legs(from, to) : CanCardinalStep(w, leg[1], leg[2])

-----------------------------------------------------------------------------
(* The overlay of one planning: obstacles that are remembered, creatures that *)
(* stand in the way.  The player's own tile counts for neither.              *)

RuntimeBlocked(w, t) == t # w.start /\ t \in w.obstacles \cup w.occupied
EntityBlocker(w, t) == t # w.start /\ t \in w.occupied
SolidBlocker(w, t) == t # w.start /\ (t \in w.obstacles \/ ~IsWalkable(w, t))

\* The two tiles on one side of a straight step.
Beside(from, to, side) ==
    LET d == Delta(from, to) IN
    <<Moved(from, <<-d[2] * side, d[1] * side>>), Moved(to, <<-d[2] * side, d[1] * side>>)>>

\* Between a creature on one side and a wall on the other.
EntitySqueeze(w, from, to) ==
    \E side \in {-1, 1} :
        /\ \E i \in 1..2 : EntityBlocker(w, Beside(from, to, side)[i])
        /\ \E i \in 1..2 : SolidBlocker(w, Beside(from, to, -side)[i])

\* Between two corners that face each other; a corridor is none.
CornerSqueeze(w, from, to) ==
    LET solid(side, i) == SolidBlocker(w, Beside(from, to, side)[i]) IN
    /\ ~\A side \in {-1, 1}, i \in 1..2 : solid(side, i)
    /\ \E side \in {-1, 1} : solid(side, 1) /\ solid(-side, 2)

Squeezed(w, from, to) ==
    \E leg \in Legs(from, to) :
        EntitySqueeze(w, leg[1], leg[2]) \/ CornerSqueeze(w, leg[1], leg[2])

\* A tile to stand on; for an attack the monster's own tile is not in the way.
Free(w, t, target) == IsWalkable(w, t) /\ (t = target \/ ~RuntimeBlocked(w, t))

CanStepTowards(w, from, to, target) ==
    /\ Free(w, to, target)
    /\ MapCanStep(w, from, to)
    /\ ~Squeezed(w, from, to)
    /\ LET d == Delta(from, to) IN
       Diagonal(d) => /\ Free(w, Moved(from, <<d[1], 0>>), NoTile)
                      /\ Free(w, Moved(from, <<0, d[2]>>), NoTile)

CanStep(w, from, to) == CanStepTowards(w, from, to, NoTile)

Straight == {<<0, -1>>, <<1, 0>>, <<0, 1>>, <<-1, 0>>}
Oblique == {<<1, -1>>, <<1, 1>>, <<-1, 1>>, <<-1, -1>>}
Opposite(d) == <<-d[1], -d[2]>>
NextClockwise(d) == <<-d[2], d[1]>>

WallPenalty(w, t) ==
    LET walls(D) == {d \in D : SolidBlocker(w, Moved(t, d))}
        near == walls(Straight)
    IN  IF t = w.start THEN 0
        ELSE 18 * Cardinality(near) + 4 * Cardinality(walls(Oblique))
             + 24 * Cardinality({d \in near : NextClockwise(d) \in near})
             + (IF \E d \in near : Opposite(d) \in near THEN 72 ELSE 0)

\* Only what explores avoids where it has been, and first of all turning back.
ExplorePenalty(w, t) ==
    IF w.aim = "attack" THEN 0
    ELSE (IF t \in w.visited THEN 160 ELSE 0) + (IF t = w.previous THEN 480 ELSE 0)

MovementPenalty(w, t) == WallPenalty(w, t) + ExplorePenalty(w, t)

-----------------------------------------------------------------------------
(* From where a monster can be hit.                                         *)

RoundDivNearest(n, d) ==
    IF n >= 0 THEN (n + (d \div 2)) \div d ELSE -(((-n) + (d \div 2)) \div d)

AttackLineClear(w, from, target) ==
    LET d == Delta(from, target)
        steps == Chebyshev(from, target)
        at(k) == IF k = steps THEN target
                 ELSE Moved(from, <<RoundDivNearest(d[1] * k, steps),
                                    RoundDivNearest(d[2] * k, steps)>>)
    IN  /\ IsWalkable(w, target)
        /\ \A k \in 1..steps :
              /\ CanStepTowards(w, at(k - 1), at(k), target)
              /\ k < steps => Free(w, at(k), target)

\* A wrong version, to show that the properties below can fail.
TilesInRange(w) ==
    {t \in Tiles \ {w.target} : Chebyshev(t, w.target) =< w.range /\ Free(w, t, NoTile)}

AttackTiles(w) ==
    {t \in Tiles \ {w.target} : /\ Chebyshev(t, w.target) =< w.range
                                /\ Free(w, t, NoTile)
                                /\ AttackLineClear(w, t, w.target)}

Headings == <<<<0, -1>>, <<1, -1>>, <<1, 0>>, <<1, 1>>, <<0, 1>>, <<-1, 1>>, <<-1, 0>>, <<-1, -1>>>>

ExploreGoal(w, direction) ==
    LET d == Headings[direction + 1] IN
    Moved(w.start, <<d[1] * ExploreRange, d[2] * ExploreRange>>)

RingGoals(w, radius) ==
    {Moved(w.start, d) : d \in {e \in (-radius..radius) \X (-radius..radius)
                                    : Abs(e[1]) = radius \/ Abs(e[2]) = radius}}

Goals(w) ==
    IF w.aim = "attack" THEN AttackTiles(w)
    ELSE IF w.aim = "ring" THEN RingGoals(w, w.range)
    ELSE {ExploreGoal(w, w.direction)}

-----------------------------------------------------------------------------
(* The search.                                                             *)

Unknown == -1   \* no entry in g_score
Heuristic(t) == 10 * Smallest({Chebyshev(t, g) : g \in goals})
StepCost(from, to) == IF Diagonal(Delta(from, to)) THEN 14 ELSE 10
NoAnswer == [kind |-> "asked", path |-> <<>>]

Init ==
    /\ world \in Situations
    /\ grid = [steps |-> {}, penalty |-> [t \in Tiles |-> 0]]
    /\ goals = {} /\ open = {} /\ iterations = 0
    /\ gScore = [t \in Tiles |-> Unknown] /\ cameFrom = [t \in Tiles |-> NoTile]
    /\ answer = NoAnswer /\ player = world.start /\ kept = <<>>

Answers(kind, path) == answer' = [kind |-> kind, path |-> path]

\* compute_reachable_path before it searches: in range and nothing between, no
\* walk is needed; next to the monster and something between, it is given up.
InRange(w) == w.aim = "attack" /\ Chebyshev(w.start, w.target) =< w.range
HitsFrom(w) == InRange(w) /\ AttackLineClear(w, w.start, w.target)
TooClose(w) == InRange(w) /\ Chebyshev(w.start, w.target) =< 1

AnswerAtOnce ==
    /\ answer.kind = "asked"
    /\ \/ HitsFrom(world) /\ Answers("inRange", <<>>)
       \/ ~HitsFrom(world) /\ TooClose(world) /\ Answers("none", <<>>)
    /\ UNCHANGED <<world, grid, goals, open, gScore, cameFrom, iterations, player, kept>>

\* plan_to_any up to its loop: goals one cannot stand on are left out.
StartSearch ==
    /\ answer.kind = "asked" /\ ~HitsFrom(world) /\ ~TooClose(world)
    /\ LET all == Goals(world)
           standable == {t \in all : Free(world, t, NoTile)}
       IN  /\ goals' = standable
           /\ answer' = [kind |-> IF world.start \in all THEN "path"
                                  ELSE IF standable = {} THEN "none" ELSE "searching",
                         path |-> <<>>]
           /\ open' = IF standable = {} THEN {}
                      ELSE {[f |-> 10 * Smallest({Chebyshev(world.start, g) : g \in standable}),
                             g |-> 0, pos |-> world.start]}
    /\ grid' = [steps |-> {s \in Tiles \X Tiles : /\ Chebyshev(s[1], s[2]) = 1
                                                  /\ CanStep(world, s[1], s[2])},
                penalty |-> [t \in Tiles |-> MovementPenalty(world, t)]]
    /\ gScore' = [gScore EXCEPT ![world.start] = 0]
    /\ UNCHANGED <<world, cameFrom, iterations, player, kept>>

\* The smallest f first and the smallest g among these.
FirstOut(node) ==
    \A other \in open : node.f < other.f \/ (node.f = other.f /\ node.g =< other.g)

Backtrack(pos) ==
    LET trace[n \in 0..Cardinality(Tiles)] ==
            IF n = 0 THEN <<pos>>
            ELSE LET p == trace[n - 1] IN
                 IF cameFrom[Head(p)] \in {NoTile, world.start} THEN p
                 ELSE <<cameFrom[Head(p)]>> \o p
    IN  trace[Cardinality(Tiles)]

\* A wrong version, to show that the properties below can fail.
BareCost(node, to) == node.g + StepCost(node.pos, to)

Tentative(node, to) == node.g + StepCost(node.pos, to) + grid.penalty[to]

Better(node) ==
    {to \in Tiles : /\ <<node.pos, to>> \in grid.steps
                    /\ gScore[to] = Unknown \/ Tentative(node, to) < gScore[to]}

Expand(node) ==
    LET better == Better(node) IN
    /\ gScore' = [t \in Tiles |-> IF t \in better THEN Tentative(node, t) ELSE gScore[t]]
    /\ cameFrom' = [t \in Tiles |-> IF t \in better THEN node.pos ELSE cameFrom[t]]
    /\ open' = (open \ {node}) \cup
               {[f |-> Tentative(node, t) + Heuristic(t), g |-> Tentative(node, t), pos |-> t]
                    : t \in better}
    /\ UNCHANGED answer

Round ==
    /\ answer.kind = "searching"
    /\ \E node \in open :
          /\ FirstOut(node)
          /\ iterations' = iterations + 1
          /\ \/ /\ iterations' > MaxIterations
                /\ Answers("givenUp", <<>>)
                /\ UNCHANGED <<open, gScore, cameFrom>>
             \/ /\ iterations' =< MaxIterations /\ node.pos \in goals
                /\ Answers("path", Backtrack(node.pos))
                /\ UNCHANGED <<open, gScore, cameFrom>>
             \/ /\ iterations' =< MaxIterations /\ node.pos \notin goals
                /\ node.g > gScore[node.pos]
                /\ open' = open \ {node}
                /\ UNCHANGED <<answer, gScore, cameFrom>>
             \/ /\ iterations' =< MaxIterations /\ node.pos \notin goals
                /\ node.g =< gScore[node.pos]
                /\ Expand(node)
    /\ UNCHANGED <<world, grid, goals, player, kept>>

Exhausted ==
    /\ answer.kind = "searching" /\ open = {}
    /\ Answers("none", <<>>)
    /\ UNCHANGED <<world, grid, goals, open, gScore, cameFrom, iterations, player, kept>>

-----------------------------------------------------------------------------
(* Following the path.                                                     *)

Follow ==
    /\ answer.kind = "path" /\ answer.path # <<>> /\ kept = <<>>
    /\ kept' = answer.path
    /\ UNCHANGED <<world, grid, goals, open, gScore, cameFrom, iterations, answer, player>>

\* consume_reached_path: up to the player's tile, else to the last tile next to it.
Remaining(p, path) ==
    LET on == {i \in DOMAIN path : path[i] = p}
        near == {i \in DOMAIN path : Chebyshev(path[i], p) =< 1}
    IN  IF on # {} THEN SubSeq(path, Smallest(on) + 1, Len(path))
        ELSE IF near # {} THEN SubSeq(path, Greatest(near), Len(path))
        ELSE path

\* A wrong version, to show that the properties below can fail.
UsefulThoughShut(p, path, obstacles) ==
    LET rest == Remaining(p, path) IN
    /\ rest # <<>>
    /\ Len(rest) < Len(path) \/ Chebyshev(Head(path), p) =< 1

\* stable_approach_path: whether the current path is kept rather than the fresh one.
StaysUseful(p, path, obstacles) ==
    LET rest == Remaining(p, path) IN
    /\ rest # <<>>
    /\ Head(rest) \notin obstacles
    /\ Len(rest) < Len(path) \/ Chebyshev(Head(path), p) =< 1

\* A tick of the approach: the player is somewhere, the memory may have learnt of
\* an obstacle.  Where the code takes the fresh path another question is asked.
Approach ==
    /\ kept # <<>>
    /\ \E p \in Tiles \ world.walls, o \in SUBSET {kept[1], kept[Len(kept)]} :
          /\ Chebyshev(p, player) =< 2
          /\ player' = p
          /\ world' = [world EXCEPT !.obstacles = @ \cup o]
          /\ kept' = IF StaysUseful(p, kept, world.obstacles \cup o) THEN Remaining(p, kept)
                     ELSE <<>>
          /\ answer' = IF kept' = <<>> THEN [answer EXCEPT !.kind = "left"] ELSE answer
    /\ UNCHANGED <<grid, goals, open, gScore, cameFrom, iterations>>

Next == AnswerAtOnce \/ StartSearch \/ Round \/ Exhausted \/ Follow \/ Approach

Spec == Init /\ [][Next]_vars

-----------------------------------------------------------------------------
TypeOK ==
    /\ world \in Situation
    /\ grid.steps \subseteq Tiles \X Tiles /\ grid.penalty \in [Tiles -> Nat]
    /\ goals \subseteq Tiles /\ iterations \in 0..MaxIterations + 1
    /\ open \subseteq [f: Nat, g: Nat, pos: Tiles]
    /\ gScore \in [Tiles -> Nat \cup {Unknown}] /\ cameFrom \in [Tiles -> Tiles \cup {NoTile}]
    /\ answer.kind \in {"asked", "inRange", "searching", "path", "none", "givenUp", "left"}
    /\ answer.path \in Seq(Tiles) /\ kept \in Seq(Tiles) /\ player \in Tiles

\* What a way from the start to each tile costs at least, as pairs: all steps are
\* tried as often as a way can be long.
LeastCosts ==
    LET relaxed[n \in 0..Cardinality(Tiles)] ==
            IF n = 0 THEN {<<world.start, 0>>}
            ELSE LET last == relaxed[n - 1]
                     longer == {<<p[2][2], p[1][2] + StepCost(p[2][1], p[2][2]) + grid.penalty[p[2][2]]>>
                                    : p \in {q \in last \X grid.steps : q[1][1] = q[2][1]}}
                     all == last \cup longer
                 IN  {e \in all : \A other \in all : other[1] = e[1] => e[2] =< other[2]}
    IN  relaxed[Cardinality(Tiles)]

CostOf(path) ==
    LET way == <<world.start>> \o path
        cost[i \in 0..Len(path)] ==
            IF i = 0 THEN 0 ELSE cost[i - 1] + StepCost(way[i], way[i + 1]) + grid.penalty[way[i + 1]]
    IN  cost[Len(path)]

\* A path that was found can be walked, ends at a goal, and no way to any goal is
\* cheaper; and "no path" is said only where there is none.
PathsAreBest ==
    answer.kind \in {"path", "none"} =>
    LET way == <<world.start>> \o answer.path
        reached == {e \in LeastCosts : e[1] \in goals}
    IN  /\ answer.kind = "none" => reached = {}
        /\ answer.path # <<>> =>
              /\ \A i \in DOMAIN answer.path : <<way[i], way[i + 1]>> \in grid.steps
              /\ way[Len(way)] \in goals
              /\ CostOf(answer.path) = Smallest({e[2] : e \in reached})

\* Who walks the path to its end can hit the monster from there: what was planned
\* from afar is found true on arrival.  The tile one came from was no obstacle.
ArrivalCanAttack ==
    (/\ answer.kind = "path" /\ answer.path # <<>> /\ kept = <<>> /\ world.aim = "attack"
     /\ world.start \notin world.obstacles \cup world.walls)
    => HitsFrom([world EXCEPT !.start = answer.path[Len(answer.path)]])

\* The kept path goes on from where the player is and not into an obstacle that
\* is known by then.
KeptGoesOn ==
    kept # <<>> /\ kept' # <<>> => /\ Chebyshev(Head(kept'), player') =< 1
                                   /\ Head(kept') \notin world'.obstacles
=============================================================================
