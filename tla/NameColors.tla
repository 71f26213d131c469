------------------------------ MODULE NameColors ------------------------------
(***************************************************************************)
(* The scanner of monster_color_patch: a thread that looks for the monsters   *)
(* in the game's memory, writes into each the colour of its level against the  *)
(* player's, and remembers the colour that was there before, by address, for    *)
(* the end; and the hooks that draw the name of an object in two colours if its   *)
(* address is in the table of the last scan.  The game frees its objects and uses *)
(* their addresses again when it likes.                                          *)
(***************************************************************************)
EXTENDS Naturals, FiniteSets, FiniteSetsExt

CONSTANTS
    Addresses, \* of objects, numbers
    Beings,    \* what lives there: its level, its own colour, whether the table of types
               \* lists its sprite and as a monster's, whether its kind byte is a monster's,
               \* whether its id is as high as theirs, whether it is the player's
    Levels,    \* of the player
    Room,      \* RENDER_MARKER_TABLE_CAPACITY
    MaxFaults, \* bound: writes that fail
    MaxBirths  \* bound: objects that come

NoColour == "no colour"
Nobody == [level |-> 0, own |-> NoColour, listed |-> FALSE, sprite |-> FALSE, kind |-> FALSE, high |-> FALSE,
           self |-> FALSE]

ColorsAssumption ==
    /\ Addresses \subseteq Nat /\ IsFiniteSet(Addresses) /\ Levels \subseteq Nat /\ {MaxFaults, MaxBirths} \subseteq Nat
    /\ \A b \in Beings : /\ b.level \in Nat /\ b.own # NoColour
                         /\ {b.listed, b.sprite, b.kind, b.high, b.self} \subseteq BOOLEAN

VARIABLES
    object,  \* what lives at an address
    colour,  \* the colour in it
    level,   \* the player's
    app,     \* "off", "on", "joins" the thread, "restores" the colours
    scan,    \* the thread
    touched, \* TouchedColors
    types,   \* the types of the sprites have been found
    marked,  \* the table of the names that are drawn by the hook
    past     \* history: addresses that were used again while they were touched,
             \* those whose colour got lost, faults, births

vars == <<object, colour, level, app, scan, touched, types, marked, past>>

Features == {"dark red", "light red", "blue", "green"}
Colours == {b.own : b \in Beings} \cup Features \cup {NoColour}
Ended == [at |-> "ended", level |-> 0, todo |-> {}, on |-> 0, seen |-> NoColour, color |-> NoColour, marks |-> {}, who |-> {}]

TypeOK ==
    /\ object \in [Addresses -> Beings \cup {Nobody}] /\ colour \in [Addresses -> Colours]
    /\ level \in Levels /\ app \in {"off", "on", "joins", "restores"}
    /\ scan \in [at : {"ended", "rests", "looks", "writes"}, level : Levels \cup {0}, todo : SUBSET Addresses,
                 on : Addresses \cup {0}, seen : Colours, color : Colours, marks : SUBSET Addresses,
                 who : SUBSET Beings]
    /\ touched \in [Addresses -> Colours] /\ types \in BOOLEAN /\ marked \subseteq Addresses
    /\ past \in [reused : SUBSET Addresses, lost : SUBSET Addresses,
                 faults : 0 .. MaxFaults, births : 0 .. MaxBirths]

Init ==
    /\ object = [a \in Addresses |-> Nobody] /\ colour = [a \in Addresses |-> NoColour]
    /\ level \in Levels /\ app = "off" /\ scan = Ended
    /\ touched = [a \in Addresses |-> NoColour] /\ types = FALSE /\ marked = {}
    /\ past = [reused |-> {}, lost |-> {}, faults |-> 0, births |-> 0]

-------------------------------------------------------------------------------
(* The colour of a monster.                                                    *)

\* select_level_color and patch_color_for_level: a level that is not above the
\* player's is white, which is nothing to write.
ColorOf(monster, player) ==
    LET delta == IF monster > player THEN monster - player ELSE 0
    IN  CASE delta >= 30 -> "dark red" [] delta \in 20 .. 29 -> "light red"
          [] delta \in 11 .. 19 -> "blue" [] delta \in 1 .. 10 -> "green"
          [] OTHER -> NoColour

\* can_use_runtime_monster_level: with a type of a monster, or a high id where the
\* type is not known (none has been found, or not that of this sprite), the kind
\* byte or an earlier colour decides.
IsMonster(a, being) ==
    /\ IF types /\ being.listed THEN being.sprite ELSE being.high
    /\ being.kind \/ touched[a] # NoColour

\* A wrong version, to show that the properties below can fail.
NobodyIsSelf(being) == being = Nobody

\* read_local_player_identity: address, ids and names of the one in the world.
LocalIdentity == {object[a] : a \in {x \in Addresses : object[x].self}}

\* is_local_player_entity, by what was read at the start of the scan, and what is
\* not in the world.
Skipped(being) == being \in scan.who \/ being = Nobody

Chosen(a, being) ==
    IF IsMonster(a, being) THEN ColorOf(being.level, scan.level) ELSE NoColour

-------------------------------------------------------------------------------
(* The thread.                                                                 *)

Fault == [past EXCEPT !.faults = past.faults + 1]
CanFail == past.faults < MaxFaults

\* refresh_runtime_sprite_types_if_needed, who the player is and its level, and
\* the addresses of all objects.  A read that fails makes the player nobody.
Begins(found, fails) ==
    /\ scan.at = "rests" /\ app = "on"
    /\ types' = (types \/ found)
    /\ scan' = [Ended EXCEPT !.at = "looks", !.level = level,
                             !.who = IF fails THEN {} ELSE LocalIdentity,
                             !.todo = {a \in Addresses : object[a] # Nobody}]
    /\ IF fails
       THEN CanFail /\ past' = [Fault EXCEPT !.reused = @ \cup {a \in Addresses : object[a].self}]
       ELSE UNCHANGED past
    /\ UNCHANGED <<object, colour, level, app, touched, marked>>

\* One object, the next by address, is read.
Looks ==
    /\ scan.at = "looks" /\ scan.todo # {}
    /\ LET a == Min(scan.todo)
           being == object[a]
           rest == [scan EXCEPT !.todo = scan.todo \ {a}]
           color == Chosen(a, being)
           marks == IF color # NoColour THEN scan.marks \cup {a} ELSE scan.marks
       IN  scan' = IF Skipped(being) THEN rest
                   ELSE IF color = colour[a] THEN [rest EXCEPT !.marks = marks]
                   ELSE [rest EXCEPT !.at = "writes", !.on = a, !.color = color,
                                     !.seen = colour[a], !.marks = marks]
    /\ UNCHANGED <<object, colour, level, app, touched, types, marked, past>>

Rests == [Ended EXCEPT !.at = "rests"]
\* A wrong version, to show that the properties below can fail.
RemembersLast(a, color) == color

\* remember_original_color.
Remembers(a, color) == IF touched[a] = NoColour THEN color ELSE touched[a]

\* Its colour is written; a write that fails ends the scan.
WritesColor(fails) ==
    /\ scan.at = "writes" /\ scan.color # NoColour
    /\ touched' = [touched EXCEPT ![scan.on] = Remembers(scan.on, scan.seen)]
    /\ IF fails
       THEN CanFail /\ past' = Fault /\ scan' = Rests /\ UNCHANGED colour
       ELSE /\ colour' = [colour EXCEPT ![scan.on] = IF object[scan.on] = Nobody THEN @ ELSE scan.color]
            /\ scan' = [scan EXCEPT !.at = "looks"] /\ UNCHANGED past
    /\ UNCHANGED <<object, level, app, types, marked>>

\* restore_original_color_if_needed: what was remembered is forgotten, also if
\* it then cannot be written.
Restores(fails) ==
    /\ scan.at = "writes" /\ scan.color = NoColour
    /\ touched' = [touched EXCEPT ![scan.on] = NoColour]
    /\ LET was == touched[scan.on]
           writes == was # NoColour /\ was # scan.seen
       IN  IF fails
           THEN /\ writes /\ CanFail /\ scan' = Rests /\ UNCHANGED colour
                /\ past' = [Fault EXCEPT !.lost = past.lost \cup {scan.on}]
           ELSE /\ colour' = [colour EXCEPT ![scan.on] =
                                IF writes /\ object[scan.on] # Nobody THEN was ELSE @]
                /\ scan' = [scan EXCEPT !.at = "looks"] /\ UNCHANGED past
    /\ UNCHANGED <<object, level, app, types, marked>>

\* A wrong version, to show that the properties below can fail.
MarksOneLess(fails) ==
    /\ scan.at = "looks" /\ scan.todo = {} /\ ~fails
    /\ marked' = {a \in scan.marks : Cardinality({b \in scan.marks : b < a}) < Room - 1}
    /\ scan' = Rests
    /\ UNCHANGED <<object, colour, level, app, touched, types, past>>

\* write_render_marker_table: the first of those that have a colour.
Marks(fails) ==
    /\ scan.at = "looks" /\ scan.todo = {}
    /\ IF fails
       THEN CanFail /\ past' = Fault /\ UNCHANGED marked
       ELSE /\ marked' = {a \in scan.marks : Cardinality({b \in scan.marks : b < a}) < Room}
            /\ UNCHANGED past
    /\ scan' = Rests
    /\ UNCHANGED <<object, colour, level, app, touched, types>>

\* The flag is read between two scans only.
Ends ==
    /\ scan.at = "rests" /\ app = "joins" /\ scan' = Ended
    /\ UNCHANGED <<object, colour, level, app, touched, types, marked, past>>

-------------------------------------------------------------------------------
(* The page.                                                                   *)

Install ==
    /\ app = "off" /\ app' = "on" /\ scan' = Rests
    /\ touched' = [a \in Addresses |-> NoColour] /\ types' = FALSE /\ marked' = {}
    /\ UNCHANGED <<object, colour, level, past>>

Uninstall ==
    /\ app = "on" /\ app' = "joins"
    /\ UNCHANGED <<object, colour, level, scan, touched, types, marked, past>>

\* A wrong version, to show that the properties below can fail.
JoinsNobody ==
    /\ app = "joins" /\ app' = "restores"
    /\ UNCHANGED <<object, colour, level, scan, touched, types, marked, past>>

Joined ==
    /\ app = "joins" /\ scan.at = "ended" /\ app' = "restores"
    /\ UNCHANGED <<object, colour, level, scan, touched, types, marked, past>>

Remembered == {a \in Addresses : touched[a] # NoColour}

\* restore_touched_colors, one address at a time; at the first write that fails
\* all the others are forgotten as well.
PutsBack(a, fails) ==
    /\ app = "restores" /\ a \in Remembered
    /\ IF fails
       THEN /\ CanFail /\ past' = [Fault EXCEPT !.lost = past.lost \cup Remembered]
            /\ touched' = [x \in Addresses |-> NoColour] /\ UNCHANGED colour
       ELSE /\ colour' = [colour EXCEPT ![a] = IF object[a] = Nobody THEN @ ELSE touched[a]]
            /\ touched' = [touched EXCEPT ![a] = NoColour] /\ UNCHANGED past
    /\ UNCHANGED <<object, level, app, scan, types, marked>>

Restored ==
    /\ app = "restores" /\ Remembered = {} /\ app' = "off"
    /\ UNCHANGED <<object, colour, level, scan, touched, types, marked, past>>

-------------------------------------------------------------------------------
(* The hooks.                                                                  *)

\* is_feature_color.
IsFeature(color) == color \in Features

\* A wrong version, to show that the properties below can fail.
AnyEntry(a) == a \in Addresses

\* emit_marker_table_check.
InTable(a) == a \in marked

\* build_name_render_shellcode: its name in the colour of the feature around
\* white, instead of the game's colour around black.
HighlightsName(a) ==
    app # "off" /\ object[a] # Nobody /\ IsFeature(colour[a]) /\ object[a].high /\ InTable(a)

\* build_text_draw_color_fix_shellcode, for the object that is selected.
HighlightsSelected(a) == app # "off" /\ object[a] # Nobody /\ IsFeature(colour[a]) /\ InTable(a)

-------------------------------------------------------------------------------
(* The game.                                                                   *)

InUse(a) ==
    \/ touched[a] # NoColour \/ a \in marked \cup scan.marks \cup scan.todo
    \/ scan.at = "writes" /\ scan.on = a

Comes(a, being) ==
    /\ object[a] = Nobody /\ past.births < MaxBirths
    /\ being.self => \A b \in Addresses : ~object[b].self
    /\ object' = [object EXCEPT ![a] = being] /\ colour' = [colour EXCEPT ![a] = being.own]
    /\ past' = [past EXCEPT !.births = past.births + 1, !.lost = past.lost \ {a},
                            !.reused = IF InUse(a) THEN @ \cup {a} ELSE @ \ {a}]
    /\ UNCHANGED <<level, app, scan, touched, types, marked>>

Goes(a) ==
    /\ object[a] # Nobody
    /\ object' = [object EXCEPT ![a] = Nobody] /\ colour' = [colour EXCEPT ![a] = NoColour]
    /\ UNCHANGED <<level, app, scan, touched, types, marked, past>>

LevelChanges(l) ==
    /\ l # level /\ level' = l
    /\ UNCHANGED <<object, colour, app, scan, touched, types, marked, past>>

Thread ==
    \/ \E f \in BOOLEAN : WritesColor(f) \/ Restores(f) \/ Marks(f)
    \/ \E found, f \in BOOLEAN : Begins(found, f)
    \/ Looks \/ Ends
Page == Joined \/ Restored \/ \E a \in Addresses, f \in BOOLEAN : PutsBack(a, f)
User == Install \/ Uninstall
World ==
    \/ \E a \in Addresses, b \in Beings : Comes(a, b)
    \/ \E a \in Addresses : Goes(a)
    \/ \E l \in Levels : LevelChanges(l)
Next == Thread \/ Page \/ User \/ World

Spec == Init /\ [][Next]_vars /\ WF_vars(Thread) /\ WF_vars(Page)

-------------------------------------------------------------------------------
\* The one whose colour is remembered is the one that lives there, and no
\* colour got lost on the way.
Sure(a) == object[a] # Nobody /\ a \notin past.reused /\ a \notin past.lost

\* What is remembered of a being is its own colour, never one that was written
\* here: over many scans, changes of level and visits of the page.
OriginalKept == \A a \in Addresses : Sure(a) /\ touched[a] # NoColour => touched[a] = object[a].own

\* Whoever is seen when the page has switched off has its own colour.
AllRestored == app = "off" => \A a \in Addresses : Sure(a) => colour[a] = object[a].own

\* The player has its own colour, in the shape of a monster as well.
SelfKeepsColour == \A a \in Addresses : Sure(a) /\ object[a].self => colour[a] = object[a].own

\* Nor is its name drawn in another way, though its colour may be one that monsters
\* get.
SelfLooksAsEver ==
    \A a \in Addresses : Sure(a) /\ object[a].self => ~HighlightsName(a) /\ ~HighlightsSelected(a)

\* A monster that stays gets the colour of its level, and is drawn in it if there is
\* room; the player's level stays, too, and the writes that fail are few.
Coloured == {b \in Beings : b.kind /\ ~b.self}
Stays(a, being, l) == app = "on" /\ object[a] = being /\ level = l
Shows(a, being, l) ==
    LET color == ColorOf(being.level, l)
    IN  color # NoColour => colour[a] = color /\ HighlightsName(a)
===============================================================================
