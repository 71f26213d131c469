------------------------------- MODULE MCRules --------------------------------
(***************************************************************************)
(* TLC's instances of what is a matter of rules rather than of threads: the  *)
(* programs that change the client's code and what these draw, the notation   *)
(* and the form of the auxiliary's settings, the files of characters, servers  *)
(* and the client, the keys, and the hunt's eyes and plans: what is read of    *)
(* the game, which target, on which way, in whose turn.                      *)
(*                                                                         *)
(* A behaviour is of one of the modules; s1 to s12 are its variables, in     *)
(* the order in which it lists them, and the slots that it has no use for      *)
(* hold 0.                                                                 *)
(***************************************************************************)
EXTENDS Integers, Sequences

\* The constants of the modules of which there is a theorem; they are explained
\* there.
CONSTANTS
    Victims, SelfId, Ids, Others, Damages, Timeout, ClockSize, TotalSize, MaxHits, MaxTargets, \* DamageText
    ItemNames, Numbers, Recipients, Suffixes,                             \* BuffNotation
    Rows, InFile, Carried, NoItem, MaxChanges,                        \* AuxForm
    ListSlots, Typed, NoName, MaxKeys, MaxMoves,                          \* ServerLists
    Characters, NoCharacter, Files, FileOf, Fallback, Values, Default, MaxDeeds, \* Profiles
    Entities, Addresses, SpriteSteps, LastFrame,                            \* RunFeet
    Monsters, Facts, HuntRange, Local, AttackReach, MaxFailed, Grounds,
    GoalLimit, MaxVisits, MaxTrail,                                   \* HuntPlan, for its targets
    HuntTargets, Skills, Gate, SkillRange, BasicRange, Configs, Views, FallbackGate,
    Cooldown, MinStreak, MaxSteps, MaxTime,                           \* HuntDispatch
    Chunks, Creatures, NamesOf, ShownName, Hostile, Queries, Prefixes, Maps, MapTiles \* BotPerception

VARIABLES part, s1, s2, s3, s4, s5, s6, s7, s8, s9, s10, s11, s12

mcVars == <<part, s1, s2, s3, s4, s5, s6, s7, s8, s9, s10, s11, s12>>

\* The server may send less than nothing.
DamagesSent == {-1, 0, 2}

\* Two of the three characters share a file.
CharacterFile == [c \in {"a", "b", "c"} |-> IF c = "a" THEN "fa" ELSE "fbc"]

\* The items of the list's file.
FileItems == <<"a", "b">>

\* A letter, a character of two units and three bytes, what stands for an
\* unreadable one.
CodecChars == <<[units |-> <<1>>, bytes |-> <<1>>], [units |-> <<2, 3>>, bytes |-> <<4, 5, 6>>],
                [units |-> <<7>>, bytes |-> <<3, 7, 7>>]>>

\* Values that look like keys, a value of the wrong size, a text.
SettingEntries == {<<1, 1, 0>>, <<1, 1, 1>>, <<2, 1, 4>>, <<2, 2, 4, 1>>, <<3, 2, 1, 1>>, <<8, 2, 1, 0>>}

\* Lists of two and of three sprites, of the kinds that the two makers of such lists
\* write and of the ways in which they go together.
Act(base, variant, name, spr, next) ==
    [kind |-> "action", base |-> base, variant |-> variant, name |-> name,
     content |-> [dir |-> 1, fc |-> 8, rows |-> <<spr, next>>]]
Rated == [kind |-> "rate", rate |-> 24]
Head1(sid, count, gfx, within, clash) ==
    [kind |-> "sprite", sid |-> sid, count |-> count, gfx |-> gfx, inline |-> within, clash |-> clash]
Kinds == {"walker", "inline", "clash", "others", "dash", "own", "named", "sword", "first", "second", "far", "32",
          "single", "builtin"}
\* The number tells apart the pictures of the sprites.
SpriteOf(kind, n, gfx) ==
    LET w(k) == 100 * n + k
        head(count) == Head1(n, count, gfx, <<>>, FALSE)
    IN  CASE kind = "walker" -> <<head(24), Act(0, 0, "walk", w(0), w(0)), Act(4, 0, "walk", w(0), w(0))>>
          [] kind = "inline" -> <<Head1(n, 24, gfx, <<Act(4, 0, "walk", w(0), w(0)), Act(0, 0, "walk", w(0), w(0))>>, FALSE)>>
          [] kind = "clash" -> <<Head1(n, 24, gfx, <<>>, TRUE), Act(0, 0, "walk", w(0), w(0))>>
          [] kind = "others" -> <<head(24), Act(0, 0, "walk", w(0), w(0)), Act(0, 3, "spell", w(1), w(1)),
                                  Act(120, 0, "sword", w(2), w(2)), Act(121, 0, "sword", w(3), w(3))>>
          [] kind = "dash" -> <<head(32), Rated, Act(0, 1, "runl", w(16), w(17)), Act(0, 2, "runr", w(24), w(25))>>
          [] kind = "own" -> <<head(24), Act(0, 0, "walk", w(0), w(0)), Act(0, 1, "runl", w(16), w(17))>>
          [] kind = "named" -> <<head(40), Rated, Act(0, 0, "runl", w(16), w(17)), Act(4, 0, "runr", w(24), w(25))>>
          [] kind = "sword" -> <<head(40), Act(0, 0, "walk", w(0), w(0)), Act(137, 0, "runr sword", w(24), w(25))>>
          [] kind = "first" -> <<head(32), Act(0, 0, "walk", w(0), w(1)), Rated, Act(4, 0, "sword", w(8), w(9))>>
          [] kind = "second" -> <<head(48), Act(0, 0, "sword", w(0), w(1)), Act(4, 0, "walk", w(8), w(9))>>
          [] kind = "far" -> <<head(32), Rated, Act(0, 0, "sword", w(20), w(23)), Act(4, 0, "sword", w(23), w(20))>>
          [] kind = "32" -> <<head(24), Act(0, 0, "walk", w(0), w(0)), Act(33, 0, "", w(16), w(17)), Act(32, 0, "", w(24), w(25))>>
          [] kind = "single" -> <<head(24), Act(0, 0, "walkfast", w(16), w(17))>>
          [] kind = "builtin" -> <<head(24), Act(0, 0, "walkfast", w(0), w(1)), Act(4, 0, "walkfast", w(3), w(4))>>
AsPak(lines) == [form |-> "pak", sound |-> TRUE, prepared |-> TRUE, lines |-> lines]
\* Creatures with an entry of their own, and two that share an entry, with different
\* low halves; one without a right step.
Apart == <<[slot |-> 1, tag |-> 8], [slot |-> 2, tag |-> 16]>>
Together == <<[slot |-> 2, tag |-> 16], [slot |-> 2, tag |-> 528]>>
FeetAddresses == {Apart, Together}
FeetSteps == <<{98}, {98, 99}>>
Title == [kind |-> "other"]
MorphFiles ==
    {AsPak(<<Title>> \o SpriteOf(k, m, g) \o SpriteOf(l, 3 - m, h)) :
        k, l \in Kinds, m \in {1, 2}, g \in {0, 7}, h \in {0, 7, 1}}
    \cup
    {AsPak(SpriteOf(k, x[1], 7) \o SpriteOf(l, x[2], 7) \o SpriteOf(m, x[3], g)) :
        k \in {"walker", "own", "others"}, l \in {"first", "second", "named"}, m \in {"first", "second", "dash", "far"},
        g \in {7, 1, 2}, x \in {<<1, 2, 3>>, <<2, 3, 1>>, <<1, 3, 2>>}}
    \cup
    {[form |-> f, sound |-> d, prepared |-> FALSE, lines |-> SpriteOf("own", 1, 0)] : f \in {"pak", "txt"}, d \in BOOLEAN}

\* Walls, gates that shut later and creatures around the way of a player at <<1, 2>>
\* to a target, or to the east.
Pairs(S) == {{}} \cup {{a, b} : a, b \in S}
Around == {<<2, 1>>, <<2, 2>>, <<3, 2>>, <<2, 3>>}
PathSituations ==
    {[aim |-> "attack", direction |-> 0, walls |-> w, shut1 |-> {}, shut2 |-> g, obstacles |-> o, occupied |-> {t} \cup c,
      start |-> <<1, 2>>, target |-> t, range |-> r, visited |-> {}, previous |-> <<0, 0>>] :
        w \in Pairs(Around), g \in {{}, {<<2, 1>>}},
        o \in {{}, {<<2, 2>>}, {<<1, 2>>}}, c \in {{}, {<<3, 3>>}}, t \in {<<4, 2>>, <<3, 1>>}, r \in {1, 2}}
    \cup
    {[aim |-> a, direction |-> 2, walls |-> w, shut1 |-> g, shut2 |-> {}, obstacles |-> {}, occupied |-> {},
      start |-> <<1, 2>>, target |-> <<4, 2>>, range |-> 2, visited |-> v, previous |-> p] :
        a \in {"direction", "ring"}, w \in Pairs(Around), g \in {{}, {<<3, 3>>}},
        v \in {{}, {<<3, 1>>}}, p \in {<<0, 0>>, <<1, 1>>}}

\* Next to the player behind a corner, near on a long and on a short way, far in
\* sight, farther as it is without a map, and one that is not there to be hit.
Mob(d, c, w) == [class |-> "monster", dying |-> FALSE, named |-> FALSE, found |-> TRUE,
                 distance |-> d, clear |-> c, way |-> w]
PlanFacts == {Mob(1, FALSE, -1), Mob(3, FALSE, 9), Mob(5, FALSE, 2), Mob(7, TRUE, 0), Mob(8, TRUE, 1),
              [Mob(1, TRUE, 0) EXCEPT !.class = "hidden"]}

\* Nothing to explore; and a street of three tiles with a dead end in its middle,
\* without and with a profile, ExploreRange being 2.
Nowhere == [tiles |-> {1}, way |-> [p \in {1} \X {1} |-> <<>>], off |-> [p \in {1} \X {1} |-> 0],
            heading |-> [p \in {1} \X {1} |-> 0], near |-> {}, ahead |-> [t \in {1} |-> <<>>],
            rings |-> [t \in {1} |-> <<>>], component |-> [t \in {1} |-> {}]]
NoGround == {Nowhere}
Place == <<<<0, 0>>, <<1, 0>>, <<2, 0>>, <<1, 1>>>>
Sgn(n) == IF n < 0 THEN -1 ELSE IF n = 0 THEN 0 ELSE 1
Far(a, b) == LET gap(i) == IF Place[a][i] < Place[b][i] THEN Place[b][i] - Place[a][i] ELSE Place[a][i] - Place[b][i]
             IN  IF gap(1) > gap(2) THEN gap(1) ELSE gap(2)
Street(a, b) == [i \in 1..(b - a) * Sgn(b - a) |-> a + i * Sgn(b - a)]
WayOf(a, b) ==
    CASE a = b -> <<>> [] a = 4 -> <<2>> \o Street(2, b) [] b = 4 -> Street(a, 2) \o <<4>> [] OTHER -> Street(a, b)
CrossOf(known) ==
    [tiles |-> 1..4, way |-> [p \in (1..4) \X (1..4) |-> WayOf(p[1], p[2])],
     off |-> [p \in (1..4) \X (1..4) |-> IF Far(p[1], p[2]) < 2 THEN 2 - Far(p[1], p[2]) ELSE Far(p[1], p[2]) - 2],
     heading |-> [p \in (1..4) \X (1..4) |->
                     4 + 3 * Sgn(Place[p[2]][1] - Place[p[1]][1]) + Sgn(Place[p[2]][2] - Place[p[1]][2])],
     near |-> {p \in (1..4) \X (1..4) : Far(p[1], p[2]) =< 1},
     ahead |-> [t \in 1..4 |-> [i \in 1..2 |-> IF t + (IF i = 1 THEN 2 ELSE -2) \in 1..3 /\ t # 4
                                             THEN t + (IF i = 1 THEN 2 ELSE -2) ELSE 0]],
     rings |-> [t \in 1..4 |-> [r \in 1..2 |-> {u \in 1..4 : Far(t, u) = 3 - r}]],
     component |-> [t \in 1..4 |-> IF known THEN 1..4 ELSE {}]]
ExploreGrounds == {CrossOf(TRUE), CrossOf(FALSE)}

\* A sequence of two steps that takes over, and the one skill of old settings.
SkillGates == [s \in {"A"} |-> 1]
SkillRanges == [s \in {"A"} |-> 4]
DispatchConfigs ==
    {[steps |-> <<[skill |-> "basic", wait |-> 1], [skill |-> "A", wait |-> 2]>>, legacy |-> "basic", cycle |-> 4, takeover |-> TRUE],
     [steps |-> <<>>, legacy |-> "A", cycle |-> 2, takeover |-> FALSE]}
Sees(wants, at, allowed, top, distance, explores) ==
    [wants |-> wants, at |-> at, allowed |-> allowed, top |-> top, distance |-> distance, reachable |-> TRUE,
     tile |-> 3, explores |-> explores, explore |-> 4, live |-> {1}]
DispatchViews ==
    {Sees("Attack", 1, TRUE, 1, 1, FALSE), Sees("Attack", 2, TRUE, 1, 1, FALSE),
     Sees("Attack", 1, FALSE, 1, 1, FALSE), Sees("Walk", 4, FALSE, 0, 0, TRUE),
     Sees("Scroll", 0, FALSE, 0, 0, FALSE)}

\* The player and what he has summoned share a name.
CreatureNames == [c \in 1..4 |-> CASE c = 1 -> {"me"} [] c = 2 -> {"me", "mine"} [] c = 3 -> {"you"} [] c = 4 -> {"rat"}]
FirstNames == [c \in 1..4 |-> CASE c = 1 -> "me" [] c = 2 -> "mine" [] c = 3 -> "you" [] c = 4 -> "rat"]
QueryBegins == [q \in {"me", "mine", "you bear"} |->
                   CASE q = "you bear" -> {"you"} [] q = "mine" -> {"me", "mine"} [] OTHER -> {"me"}]

Patch == INSTANCE ClientPatch WITH
    name <- s1, site <- s2, coded <- s3, frozen <- s4, state <- s5, run <- s6, page <- s7,
    writable <- s8, failed <- s9, hung <- s10, foreign <- s11, came <- s12
Text == INSTANCE DamageText WITH
    Monsters <- Victims,
    now <- s1, loaded <- s2, last <- s3, packet <- s4, shown <- s5, gap <- s6
Notation == INSTANCE BuffNotation WITH
    Names <- ItemNames, Targets <- Recipients,
    written <- s1, listed <- s2, kept <- s3, command <- s4
Form == INSTANCE AuxForm WITH
    settings <- s1, form <- s2, applying <- s3, shown <- s4, bag <- s5, wish <- s6,
    changes <- s7
Lists == INSTANCE ServerLists WITH
    Slots <- ListSlots, MaxSteps <- MaxMoves,
    list <- s1, config <- s2, server <- s3, slots <- s4, current <- s5, form <- s6,
    keys <- s7, saved <- s8, typed <- s9, past <- s10
Profile == INSTANCE Profiles WITH
    Nobody <- NoCharacter, MaxSteps <- MaxDeeds,
    player <- s1, session <- s2, disk <- s3, wish <- s4, excuse <- s5, steps <- s6
Coded == INSTANCE FileFormats WITH
    Room <- 4, Block <- 2, Size <- 8, MaxText <- 4, Chars <- CodecChars, Table <- <<3, 5, 1, 7, 2, 6, 4, 0, 1>>,
    given <- s1, list <- s2, read <- s3,
    FullScreen <- 1, WindowMode <- 2, PrevMode <- 3, TextKeys <- 8, EndMark <- 9, MaxSize <- 2,
    Modes <- {4, 5}, AskedModes <- {3, 4}, DefaultMode <- 5, Entries <- SettingEntries, MaxEntries <- 2,
    Optimized <- <<"OFF", "off">>, OtherFlags <- {"dpi"}, MaxFlags <- 1,
    file <- s4, flags <- s5, last <- s6
Morphs == INSTANCE SmoothRun WITH
    Files <- MorphFiles,
    file <- s1, phase <- s2, sprites <- s3, roles <- s4, runs <- s5, pairs <- s6, output <- s7
Feet == INSTANCE RunFeet WITH
    Steps <- SpriteSteps,
    address <- s1, table <- s2, frame <- s3, haste <- s4, answer <- s5, shown <- s6, again <- s7
Path == INSTANCE PathFinding WITH
    Columns <- 4, Rows <- 3, Situations <- PathSituations, ExploreRange <- 3, MaxIterations <- 9,
    world <- s1, grid <- s2, goals <- s3, open <- s4, gScore <- s5, cameFrom <- s6,
    iterations <- s7, answer <- s8, player <- s9, kept <- s10
Plan == INSTANCE HuntPlan WITH
    AttackRange <- AttackReach,
    seen <- s1, failed <- s2, attackers <- s3, hpDropped <- s4, chosen <- s5, ground <- s6,
    at <- s7, visits <- s8, trail <- s9, blocked <- s10, shunned <- s11, suggestion <- s12
Explore == INSTANCE HuntPlan WITH
    Monsters <- {}, Facts <- {}, HuntRange <- 8, Local <- 6, AttackRange <- 7, MaxFailed <- 1,
    Grounds <- ExploreGrounds, GoalLimit <- 1, MaxVisits <- 1, MaxTrail <- 2,
    seen <- s1, failed <- s2, attackers <- s3, hpDropped <- s4, chosen <- s5, ground <- s6,
    at <- s7, visits <- s8, trail <- s9, blocked <- s10, shunned <- s11, suggestion <- s12
Dispatch == INSTANCE HuntDispatch WITH
    Targets <- HuntTargets,
    now <- s1, cfg <- s2, seq <- s3, gates <- s4, ranges <- s5, memory <- s6, streak <- s7,
    sent <- s8, turns <- s9
Perception == INSTANCE BotPerception WITH
    Places <- Chunks, Tiles <- MapTiles, Monsters <- Hostile,
    heap <- s1, dead <- s2, map <- s3, reader <- s4, scan <- s5, minimap <- s6, search <- s7,
    hunt <- s8, stirred <- s9, torn <- s10, moved <- s11

ASSUME PartsAssumption ==
    /\ Text!DamageAssumption /\ Notation!NotationAssumption /\ Form!FormAssumption
    /\ Lists!ListsAssumption /\ Profile!ProfilesAssumption /\ Coded!ListAssumption
    /\ Coded!SettingsAssumption /\ Feet!FeetAssumption /\ Path!PathAssumption
    /\ Plan!PlanAssumption /\ Explore!PlanAssumption /\ Dispatch!DispatchAssumption
    /\ Perception!PerceptionAssumption

MCInit ==
    \/ part = "patch" /\ Patch!Init
    \/ part = "text" /\ Text!Init /\ s7 = 0 /\ s8 = 0 /\ s9 = 0 /\ s10 = 0 /\ s11 = 0 /\ s12 = 0
    \/ part = "notation" /\ Notation!Init
       /\ s5 = 0 /\ s6 = 0 /\ s7 = 0 /\ s8 = 0 /\ s9 = 0 /\ s10 = 0 /\ s11 = 0 /\ s12 = 0
    \/ part = "form" /\ Form!Init /\ s8 = 0 /\ s9 = 0 /\ s10 = 0 /\ s11 = 0 /\ s12 = 0
    \/ part = "lists" /\ Lists!Init /\ s11 = 0 /\ s12 = 0
    \/ part = "profiles" /\ Profile!Init
       /\ s7 = 0 /\ s8 = 0 /\ s9 = 0 /\ s10 = 0 /\ s11 = 0 /\ s12 = 0
    \/ part = "codec" /\ Coded!ListInit
       /\ s4 = 0 /\ s5 = 0 /\ s6 = 0 /\ s7 = 0 /\ s8 = 0 /\ s9 = 0 /\ s10 = 0 /\ s11 = 0 /\ s12 = 0
    \/ part = "settings" /\ Coded!SettingsInit
       /\ s1 = 0 /\ s2 = 0 /\ s3 = 0 /\ s7 = 0 /\ s8 = 0 /\ s9 = 0 /\ s10 = 0 /\ s11 = 0 /\ s12 = 0
    \/ part = "morphs" /\ Morphs!Init /\ s8 = 0 /\ s9 = 0 /\ s10 = 0 /\ s11 = 0 /\ s12 = 0
    \/ part = "feet" /\ Feet!Init /\ s8 = 0 /\ s9 = 0 /\ s10 = 0 /\ s11 = 0 /\ s12 = 0
    \/ part = "path" /\ Path!Init /\ s11 = 0 /\ s12 = 0
    \/ part = "plan" /\ Plan!Init
    \/ part = "explore" /\ Explore!Init
    \/ part = "dispatch" /\ Dispatch!Init /\ s10 = 0 /\ s11 = 0 /\ s12 = 0
    \/ part = "perception" /\ Perception!Init /\ s12 = 0

\* What a step of each part leaves alone.
PatchRest == part = "patch" /\ UNCHANGED part
TextRest == part = "text" /\ UNCHANGED <<part, s7, s8, s9, s10, s11, s12>>
NotationRest == part = "notation" /\ UNCHANGED <<part, s5, s6, s7, s8, s9, s10, s11, s12>>
FormRest == part = "form" /\ UNCHANGED <<part, s8, s9, s10, s11, s12>>
ListsRest == part = "lists" /\ UNCHANGED <<part, s11, s12>>
ProfileRest == part = "profiles" /\ UNCHANGED <<part, s7, s8, s9, s10, s11, s12>>
CodecRest == part = "codec" /\ UNCHANGED <<part, s4, s5, s6, s7, s8, s9, s10, s11, s12>>
SettingRest == part = "settings" /\ UNCHANGED <<part, s1, s2, s3, s7, s8, s9, s10, s11, s12>>
MorphsRest == part = "morphs" /\ UNCHANGED <<part, s8, s9, s10, s11, s12>>
FeetRest == part = "feet" /\ UNCHANGED <<part, s8, s9, s10, s11, s12>>
PathRest == part = "path" /\ UNCHANGED <<part, s11, s12>>
PlanRest == part = "plan" /\ UNCHANGED part
ExploreRest == part = "explore" /\ UNCHANGED part
DispatchRest == part = "dispatch" /\ UNCHANGED <<part, s10, s11, s12>>
PerceptionRest == part = "perception" /\ UNCHANGED <<part, s12>>

MCNext ==
    \/ PatchRest /\ Patch!Next
    \/ TextRest /\ Text!Next
    \/ NotationRest /\ Notation!Next
    \/ FormRest /\ Form!Next
    \/ ListsRest /\ Lists!Next
    \/ ProfileRest /\ Profile!Next
    \/ CodecRest /\ Coded!ListNext
    \/ SettingRest /\ Coded!SettingsNext
    \/ MorphsRest /\ Morphs!Next
    \/ FeetRest /\ Feet!Next
    \/ PathRest /\ Path!Next
    \/ PlanRest /\ Plan!Next
    \/ ExploreRest /\ Explore!Next
    \/ DispatchRest /\ Dispatch!Next
    \/ PerceptionRest /\ Perception!Next

MCSpec == MCInit /\ [][MCNext]_mcVars

-------------------------------------------------------------------------------
TypeOK ==
    CASE part = "patch" -> Patch!TypeOK
      [] part = "text" -> Text!TypeOK
      [] part = "notation" -> Notation!TypeOK
      [] part = "form" -> Form!TypeOK
      [] part = "lists" -> Lists!TypeOK
      [] part = "profiles" -> Profile!TypeOK
      [] part = "codec" -> Coded!ListTypes
      [] part = "settings" -> Coded!SettingsTypes
      [] part = "morphs" -> Morphs!TypeOK
      [] part = "feet" -> Feet!TypeOK
      [] part = "path" -> Path!TypeOK
      [] part = "plan" -> Plan!TypeOK
      [] part = "explore" -> Explore!TypeOK
      [] part = "dispatch" -> Dispatch!TypeOK
      [] OTHER -> Perception!TypeOK

\* The properties of the parts; each is explained in its module.
\* Where the code of a place jumps to, the page of that code is filled.
JumpsLand == part = "patch" => Patch!JumpsLand
\* After a program that suspends them the game's threads go on, unless it failed there.
ThreadsGoOn == part = "patch" => Patch!ThreadsGoOn
\* Places that the game must meet together change while its threads stand still.
MetTogether == part = "patch" => Patch!MetTogether
\* What is installed is what the page shows, unless something failed.
MatchesPage == part = "patch" => Patch!MatchesPage
\* A clock that is shown has been noted.
ClockKnows == part = "patch" => Patch!ClockKnows
\* The total shown is the sum of the chain of hits.
TotalIsTheChain == part = "text" => Text!TotalIsTheChain
\* A total goes on from the one before, or starts anew.
TotalGoesOn == part = "text" => Text!TotalGoesOn
\* The reader of a packet stays in step with it.
Aligned == part = "text" => Text!Aligned
\* An entry read back means what it meant.
KeepsItsMeaning == part = "notation" => Notation!KeepsItsMeaning
\* No other item than the chosen one is used.
NeverAnotherItem == part = "form" => Form!NeverAnotherItem
\* What is listed is what is stored.
ListsAgree == part = "form" => Form!ListsAgree
\* What was typed is kept.
TypedIsKept == part = "lists" => Lists!TypedIsKept
\* What was saved without gaps comes back.
KeptWithoutGaps == part = "lists" => Lists!KeptWithoutGaps
\* The key of the server is that of the list.
ServerKeyReachesList == part = "lists" => Lists!ServerKeyReachesList
\* A character's settings come back.
SettingsComeBack == part = "profiles" => Profile!SettingsComeBack
\* A server is read as it was typed.
ReadAsTyped == part = "codec" => Coded!ReadAsTyped
\* The mode chosen stands in the client's file.
ModeApplied == part = "settings" => Coded!ModeApplied
\* A way leads where it should, no way is shorter, and none is missed.
PathsAreBest == part = "path" => Path!PathsAreBest
\* Where the way ends the target can be hit.
ArrivalCanAttack == part = "path" => Path!ArrivalCanAttack
\* The targets stand in one order.
OrderIsTotal == part = "plan" => Plan!OrderIsTotal
\* Who hits the player comes first.
ThreatsComeFirst == part = "plan" => Plan!ThreatsComeFirst
\* Nobody who can be hit is passed by.
NoDetour == part = "plan" => Plan!NoDetour
\* Who rejected attacks is left alone.
PainIsNoProof == part = "plan" => Plan!PainIsNoProof
\* Exploring goes on, and to what is known least.
ExploresOn == part = "explore" => Explore!ExploresOn
\* What is sent is what was decided.
SentIsDecided == part = "dispatch" => Dispatch!SentIsDecided
\* A name on the minimap is that of its creature.
NameOfTheId == part = "perception" => Perception!NameOfTheId
\* Who is found by a name has it.
AnswerIsNamed == part = "perception" => Perception!AnswerIsNamed
\* What the client can read of its list of shapes stays.
LinesStay == part = "morphs" => Morphs!LinesStay
\* Who has frames of a run shows them.
OwnFramesFirst == part = "morphs" => Morphs!OwnFramesFirst
\* Nobody runs with another's body.
RunsAsOneself == part = "morphs" => Morphs!RunsAsOneself
\* The order of a list does not matter.
InAnyOrder == part = "morphs" => Morphs!InAnyOrder
\* A walker gets both steps.
BothSteps == part = "morphs" => Morphs!BothSteps
\* A header counts the pictures.
HeaderCounts == part = "morphs" => Morphs!HeaderCounts
\* The step shown is one that the sprite has.
SlotIsThere == part = "feet" => Feet!SlotIsThere
\* What others wrote stays.
OthersStay == [][part = "patch" => Patch!OthersStay]_mcVars
\* A click on one box switches the other off.
ClickCounts == [][part = "patch" => Patch!ClickCounts]_mcVars
\* Only one's own hits are shown.
OwnHitsOnly == [][part = "text" => Text!OwnHitsOnly]_mcVars
\* Formatting a command again changes nothing.
CommandsSettle == [][part = "notation" => Notation!CommandsSettle]_mcVars
\* A change of one entry leaves the others.
OthersKeepTheirUse == [][part = "notation" => Notation!OthersKeepTheirUse]_mcVars
\* Filling the page in changes no setting.
FillingKeepsSettings == [][part = "form" => Form!FillingKeepsSettings]_mcVars
\* A list is not worn down by rewriting.
NothingMoreIsLost == [][part = "codec" => Coded!NothingMoreIsLost]_mcVars
\* The rest of the client's file stays.
OtherWordsStay == [][part = "settings" => Coded!OtherWordsStay]_mcVars
\* The player's flags stay.
FlagsStay == [][part = "settings" => Coded!FlagsStay]_mcVars
\* A foot stays during an animation.
FootIsSteady == [][part = "feet" => Feet!FootIsSteady]_mcVars
\* A route is kept as long as it leads on.
KeptGoesOn == [][part = "path" => Path!KeptGoesOn]_mcVars
\* Turns are spaced.
StepsSpaced == [][part = "dispatch" => Dispatch!StepsSpaced]_mcVars
\* Rounds do not outrun the clock.
RoundsKeepPace == [][part = "dispatch" => Dispatch!RoundsKeepPace]_mcVars
\* Only where the hunt went it learns portals.
PortalsWereWalked == [][part = "perception" => Perception!PortalsWereWalked]_mcVars

-------------------------------------------------------------------------------
\* What the run checks, by what it is about and by what is known of it: what is
\* computed by recursion over data, and the patches, with their concrete programs,
\* are checked for these instances; the rest is proved as well, in RulesProofs.

\* The client can run on between any two steps of a patch and after any failure of
\* one: jumps lead to code that is there, threads are not left suspended, what must
\* be met together changes together; and the page shows what is installed.  Every
\* variable has its type.
PatchesSound ==
    /\ TypeOK /\ JumpsLand /\ ThreadsGoOn /\ MetTogether
    /\ MatchesPage /\ ClockKnows
\* What the hooks draw is the damage of the packets, added up as long as the chain
\* lasts, and the steps that a sprite has.
DrawnRight ==
    /\ TotalGoesOn /\ Aligned /\ SlotIsThere
\* What the player has set comes back: the settings of a character and the servers
\* from their files, the entry of a list in either notation, the chosen item and the
\* lists in a window that is filled again and again.
SettingsAreKept ==
    /\ SettingsComeBack /\ TypedIsKept /\ KeptWithoutGaps /\ ServerKeyReachesList
    /\ KeepsItsMeaning /\ NeverAnotherItem /\ ListsAgree
\* The hunt sees who is there, picks its target by one order and sends what it
\* decided; and a name asked for is the name of the answer.
TargetsAreRight ==
    /\ OrderIsTotal /\ ThreatsComeFirst /\ NoDetour /\ PainIsNoProof
    /\ SentIsDecided /\ NameOfTheId /\ AnswerIsNamed
\* What is computed from data is what it should be: the sum of a chain of hits, the list
\* of shapes that is prepared for running, the files of the servers and of the client,
\* the ways through walls and to what is not explored.
ComputedRight ==
    /\ TotalIsTheChain /\ LinesStay /\ OwnFramesFirst /\ RunsAsOneself
    /\ InAnyOrder /\ BothSteps /\ HeaderCounts /\ ReadAsTyped
    /\ ModeApplied /\ PathsAreBest /\ ArrivalCanAttack /\ ExploresOn
\* A step does what it is for and leaves the rest: the other box and the other entries,
\* the settings behind a page that is filled in, the hits of others, the foot during an
\* animation; and from tick to tick the hunt keeps to the turns of its attacks and to
\* the portals that it went through.
StepsKeepToTheirs ==
    /\ ClickCounts /\ OwnHitsOnly /\ CommandsSettle /\ OthersKeepTheirUse
    /\ FillingKeepsSettings /\ FootIsSteady /\ StepsSpaced /\ RoundsKeepPace
    /\ PortalsWereWalked
\* What others wrote stays: their code, the rest of a file, the words and flags of the
\* player, a list that is written once more; and so does a route that leads on.
OthersWorkStays ==
    /\ OthersStay /\ NothingMoreIsLost /\ OtherWordsStay /\ FlagsStay
    /\ KeptGoesOn
===============================================================================
