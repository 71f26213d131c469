---------------------------- MODULE BotPerception ----------------------------
(***************************************************************************)
(* How the launcher finds creatures in the memory of the running game        *)
(* (aux/entity_scan.rs), and three that live on it: the minimap with its      *)
(* cache of addresses (minimap/snapshot.rs), the search for the creature that *)
(* a scroll is meant for (find_entity_by_name), and the hunt, which learns    *)
(* portals from what it sees of the map (bot/hunt4/world.rs, backend.rs).     *)
(*                                                                         *)
(* The game goes on while its memory is read.  A place of the heap that held  *)
(* one creature may hold another one a moment later.  The readers do not      *)
(* disturb each other: a behaviour has one of them.                          *)
(***************************************************************************)
EXTENDS Integers, Sequences, FiniteSets

CONSTANTS Places,        \* of the heap, in the order of the scan; the first is the player's
          Creatures,     \* target ids
          NamesOf,       \* the names that stand in the three fields of a creature
          ShownName,     \* the first of them
          Monsters,      \* the creatures whose sprite is a monster's
          Queries,       \* the names asked for
          Prefixes,      \* of each query: what it begins with, of two letters or more
          Maps, Tiles

Freed == -1      \* no creature's table is there any more
Blank == 0       \* a place that is not in use yet: target_id 0
NoMap == 0
NoTile == "none"
Own == 1         \* the player's creature is in its place as long as it is in the game

PerceptionAssumption ==
    /\ Places = 1..Cardinality(Places) /\ Cardinality(Places) \in Nat \ {0}
    /\ Creatures \subseteq Nat \ {Blank, Own}
    /\ Monsters \subseteq Creatures
    /\ \A c \in Creatures \cup {Own} : ShownName[c] \in NamesOf[c]
    /\ Prefixes \in [Queries -> SUBSET UNION {NamesOf[c] : c \in Creatures}]
    /\ NoMap \notin Maps /\ NoTile \notin Tiles

VARIABLES heap,       \* what is in each place
          dead,       \* the places whose creature is dead
          map,        \* where the player is, NoMap outside the game
          reader,     \* who reads, and how far it is
          scan,       \* the places found so far, and what was read of them
          minimap,    \* CACHE, which is what is drawn, and whether a rescan is due
          search,     \* the name asked for, and the answer
          hunt,       \* last_map_id, last_walk_tile, the portal tiles learnt
          stirred,    \* history: the places that changed since the reader began, or were
                      \* not read; those whose id is not that of the creature whose
          torn,       \* name is read, or which had no creature when it was read;
          moved       \* and how the hunt moved last

vars == <<heap, dead, map, reader, scan, minimap, search, hunt, stirred, torn, moved>>

Present(p) == heap[p] # Freed
Vacant(p) == heap[p] \in {Freed, Blank}

\* Whose names are read in a place: nothing says that they went with the creature.
StandsIn(p, left) == IF Vacant(p) THEN left ELSE heap[p]
Left == {Blank} \cup Creatures
Attackable(p) == heap[p] \in Monsters /\ p \notin dead
Readers == {"minimap", "search", "hunt"}
Last == Cardinality(Places)
NoScan == [next |-> 1, hits |-> {}, id |-> Blank]
NoSearch == [query |-> "none", how |-> "none", id |-> Blank, place |-> 1]
NoMove == [kind |-> "none", tile |-> NoTile]

Init ==
    /\ heap = [p \in Places |-> IF p = 1 THEN Own ELSE Freed]
    /\ dead = {} /\ map \in Maps
    /\ reader \in [who: Readers, at: {"idle"}]
    /\ scan = NoScan /\ minimap = [cache |-> {}, due |-> TRUE] /\ search = NoSearch
    /\ hunt = [lastMap |-> NoMap, lastWalk |-> NoTile, portals |-> {}]
    /\ stirred = {} /\ torn = {} /\ moved = NoMove

At(who, at) == reader.who = who /\ reader.at = at
GoesTo(at) == reader' = [reader EXCEPT !.at = at]

-----------------------------------------------------------------------------
(* The game.                                                               *)

\* Something comes into a place, or leaves it.
Changes(p) ==
    /\ reader.who # "hunt" /\ p # 1
    /\ \E c \in {Freed, Blank} \cup Creatures :
          c # heap[p] /\ heap' = [heap EXCEPT ![p] = c]
    /\ dead' = dead \ {p}
    /\ stirred' = IF reader.who = "search" THEN stirred \cup {p} ELSE stirred
    /\ torn' = IF reader.at \in {"idle", "scan", "answered"} THEN torn ELSE torn \cup {p}
    /\ UNCHANGED <<map, reader, scan, minimap, search, hunt, moved>>

Dies(p) ==
    /\ reader.who = "minimap" /\ heap[p] \in Creatures /\ dead' = dead \cup {p}
    /\ UNCHANGED <<heap, map, reader, scan, minimap, search, hunt, stirred, torn, moved>>

\* Another map: through a portal, by a scroll, or because the game says so.  The
\* player may also leave the game and come back.
Travels ==
    /\ reader.who = "hunt" /\ \E m \in Maps \cup {NoMap} : m # map /\ map' = m
    /\ UNCHANGED <<heap, dead, reader, scan, minimap, search, hunt, stirred, torn, moved>>

-----------------------------------------------------------------------------
(* enumerate_player_entities: the heap is gone through from the beginning.  A  *)
(* region that cannot be read is left out, and what lies beyond MAX_REGION_READ *)
(* of a region.                                                            *)

Scans ==
    /\ reader.at = "scan" /\ scan.next =< Last
    /\ \E read \in BOOLEAN :
          /\ scan' = [scan EXCEPT !.next = @ + 1,
                                 !.hits = IF read /\ Present(scan.next) THEN @ \cup {scan.next} ELSE @]
          /\ stirred' = IF read \/ reader.who # "search" THEN stirred ELSE stirred \cup {scan.next}
    /\ UNCHANGED <<heap, dead, map, reader, minimap, search, hunt, torn, moved>>

\* capture_entities: every 1.5 s the heap is scanned again.
Rescan ==
    /\ At("minimap", "idle") /\ minimap.due
    /\ GoesTo("scan") /\ scan' = NoScan
    /\ UNCHANGED <<heap, dead, map, minimap, search, hunt, stirred, torn, moved>>

\* First list_entity_positions, which leaves the names out ...
ReadsFields ==
    /\ At("minimap", "scan") /\ scan.next > Last
    /\ GoesTo("names")
    /\ minimap' = [minimap EXCEPT !.due = FALSE,
                                  !.cache = {[place |-> p, id |-> heap[p], name |-> "none", clean |-> TRUE]
                                                : p \in {q \in scan.hits : Attackable(q)}}]
    /\ UNCHANGED <<heap, dead, map, scan, search, hunt, stirred, torn, moved>>

\* ... then the names of the monsters, from whatever is there by now; who has none is
\* not drawn.
ReadsNames ==
    /\ At("minimap", "names")
    /\ GoesTo("idle") /\ scan' = NoScan /\ torn' = {}
    /\ \E left \in Left :
          LET named == {[e EXCEPT !.name = ShownName[StandsIn(e.place, left)], !.clean = e.place \notin torn]
                            : e \in {f \in minimap.cache : StandsIn(f.place, left) # Blank}}
          IN  minimap' = [minimap EXCEPT !.cache = named]
    /\ UNCHANGED <<heap, dead, map, search, hunt, stirred, moved>>

\* A wrong version, to show that the properties below can fail.
WhateverIsThere(e) == Present(e.place) /\ Attackable(e.place)

\* read_entity_position and the test of the id: what is still in its place.
StillThere(e) == Present(e.place) /\ heap[e.place] = e.id /\ Attackable(e.place)

\* Between two scans only the places are read that are known.
Refresh ==
    /\ At("minimap", "idle") /\ ~minimap.due
    /\ LET kept == {[e EXCEPT !.id = heap[e.place]] : e \in {f \in minimap.cache : StillThere(f)}}
       IN  minimap' = [minimap EXCEPT !.cache = kept]
    /\ UNCHANGED <<heap, dead, map, reader, scan, search, hunt, stirred, torn, moved>>

RescanDue ==
    /\ At("minimap", "idle") /\ minimap' = [minimap EXCEPT !.due = TRUE]
    /\ UNCHANGED <<heap, dead, map, reader, scan, search, hunt, stirred, torn, moved>>

-----------------------------------------------------------------------------
(* find_entity_by_name.                                                     *)

Answers(how, id) ==
    /\ GoesTo("answered") /\ scan' = NoScan
    /\ search' = [search EXCEPT !.how = how, !.id = id, !.place = scan.next]

\* A wrong version, to show that the properties below can fail.
BeginningOf(c, query) == c \notin {Freed, Blank} /\ NamesOf[c] \cap (Prefixes[query] \cup {query}) # {}

Exactly(c, query) == c \notin {Freed, Blank} /\ query \in NamesOf[c]
Begins(c, query) == c \notin {Freed, Blank} /\ NamesOf[c] \cap Prefixes[query] # {}

\* The player's own creature comes before all others.
Ask(query) ==
    /\ At("search", "idle")
    /\ stirred' = {} /\ torn' = {}
    /\ IF Exactly(heap[1], query)
       THEN /\ search' = [query |-> query, how |-> "self", id |-> Own, place |-> 1]
            /\ GoesTo("answered") /\ UNCHANGED scan
       ELSE /\ search' = [NoSearch EXCEPT !.query = query]
            /\ GoesTo("scan") /\ scan' = NoScan
    /\ UNCHANGED <<heap, dead, map, minimap, hunt, moved>>

ScanDone ==
    /\ At("search", "scan") /\ scan.next > Last
    /\ GoesTo("exact") /\ scan' = [scan EXCEPT !.next = 1]
    /\ UNCHANGED <<heap, dead, map, minimap, search, hunt, stirred, torn, moved>>

Passes == {"exact", "prefix"}
Skipped == scan.next \notin scan.hits \/ scan.next = 1

\* read_entity_names: the id, which may be 0 or that of a creature that is gone ...
ReadsId ==
    /\ reader.at \in Passes /\ scan.next =< Last /\ ~Skipped
    /\ \E left \in Left :
          scan' = [scan EXCEPT !.id = IF heap[scan.next] = Blank THEN Blank ELSE StandsIn(scan.next, left)]
    /\ torn' = IF Vacant(scan.next) THEN torn \cup {scan.next} ELSE torn \ {scan.next}
    /\ reader' = [reader EXCEPT !.at = IF @ = "exact" THEN "exact name" ELSE "prefix name"]
    /\ UNCHANGED <<heap, dead, map, minimap, search, hunt, stirred, moved>>

\* ... and then the names.
Fits(pass, c) == IF pass = "exact" THEN Exactly(c, search.query) ELSE Begins(c, search.query)
ReadsName(pass) ==
    /\ At("search", IF pass = "exact" THEN "exact name" ELSE "prefix name")
    /\ \E left \in Left :
          IF Fits(pass, StandsIn(scan.next, left)) THEN Answers(pass, scan.id)
          ELSE GoesTo(pass) /\ scan' = [scan EXCEPT !.next = @ + 1] /\ UNCHANGED search
    /\ UNCHANGED <<heap, dead, map, minimap, hunt, stirred, torn, moved>>

NextPlace ==
    /\ reader.at \in Passes /\ scan.next =< Last /\ Skipped
    /\ scan' = [scan EXCEPT !.next = @ + 1]
    /\ UNCHANGED <<heap, dead, map, reader, minimap, search, hunt, stirred, torn, moved>>

PassEnds ==
    /\ reader.at \in Passes /\ scan.next > Last
    /\ IF reader.at = "exact"
       THEN GoesTo("prefix") /\ scan' = [scan EXCEPT !.next = 1] /\ UNCHANGED search
       ELSE Answers("nobody", Blank)
    /\ UNCHANGED <<heap, dead, map, minimap, hunt, stirred, torn, moved>>

\* The answer is used, and another question may come.
Used ==
    /\ At("search", "answered") /\ GoesTo("idle") /\ search' = NoSearch
    /\ UNCHANGED <<heap, dead, map, scan, minimap, hunt, stirred, torn, moved>>

-----------------------------------------------------------------------------
(* The hunt.                                                               *)

\* portal_avoid_update_for_map_change.
Learnt(seen) ==
    IF NoMap \notin {hunt.lastMap, seen} /\ hunt.lastMap # seen /\ hunt.lastWalk # NoTile
    THEN {hunt.lastWalk} ELSE {}

\* record_map_change_after_frame: a tick's frame may also fail to read the map.
Frame ==
    /\ At("hunt", "idle")
    /\ \E seen \in {map, NoMap} :
          hunt' = [hunt EXCEPT !.lastMap = seen, !.portals = @ \cup Learnt(seen)]
    /\ GoesTo("acts")
    /\ UNCHANGED <<heap, dead, map, scan, minimap, search, stirred, torn, moved>>

\* A wrong version, to show that the properties below can fail.
WalkKept(kind, ok, tile) == IF kind = "walk" /\ ok THEN tile ELSE hunt.lastWalk

\* record_dispatch_context_after_dispatch.
WalkNoted(kind, ok, tile) ==
    CASE kind = "walk" /\ ok -> tile
      [] kind = "walk" /\ ~ok -> NoTile
      [] kind = "scroll" /\ ok -> NoTile
      [] OTHER -> hunt.lastWalk

\* What the tick then dispatches.
Acts(kind, tile) ==
    /\ At("hunt", "acts") /\ GoesTo("idle")
    /\ \E ok \in BOOLEAN :
          /\ hunt' = [hunt EXCEPT !.lastWalk = WalkNoted(kind, ok, tile)]
          /\ moved' = IF kind = "walk" \/ (kind = "scroll" /\ ok)
                      THEN [kind |-> IF ok THEN kind ELSE "failed", tile |-> tile] ELSE moved
    /\ UNCHANGED <<heap, dead, map, scan, minimap, search, stirred, torn>>

Next ==
    \/ \E p \in Places : Changes(p) \/ Dies(p)
    \/ Travels \/ Scans
    \/ Rescan \/ ReadsFields \/ ReadsNames \/ Refresh \/ RescanDue
    \/ (\E q \in Queries : Ask(q)) \/ ScanDone \/ ReadsId \/ NextPlace \/ PassEnds \/ Used
    \/ ReadsName("exact") \/ ReadsName("prefix")
    \/ Frame
    \/ \E kind \in {"walk", "scroll", "attack"}, t \in Tiles : Acts(kind, t)

Spec == Init /\ [][Next]_vars

-----------------------------------------------------------------------------
TypeOK ==
    /\ heap \in [Places -> {Freed, Blank, Own} \cup Creatures] /\ dead \subseteq Places
    /\ map \in Maps \cup {NoMap} /\ reader.who \in Readers
    /\ scan.next \in 1..Last + 1 /\ scan.hits \subseteq Places
    /\ \A e \in minimap.cache : e.place \in Places /\ e.id \in Creatures
    /\ search.how \in {"none", "self", "exact", "prefix", "nobody"}
    /\ hunt.portals \subseteq Tiles /\ hunt.lastWalk \in Tiles \cup {NoTile}

\* The minimap gives nobody the name of another one that stood in the same place
\* before, unless the place changed hands within the scan itself.
NameOfTheId ==
    reader.at = "idle" => \A e \in minimap.cache : e.clean => e.name = ShownName[e.id]

Named(c, query) == c \notin {Freed, Blank} /\ query \in NamesOf[c]

\* The answer about a name is of the creature that has it: the player before all
\* others, one that has the whole name before one whose name the query begins with;
\* and nobody is overlooked who was there all the time, in a place that could be read.
\* What a torn place answers is not that of a creature with the name.
AnswerIsNamed ==
    search.how # "none" =>
    LET calm == {p \in Places : p \notin stirred} IN
    /\ search.how = "self" <=> Named(heap[1], search.query)
    /\ search.how = "exact" => search.place \in torn \/ Named(search.id, search.query)
    /\ search.how = "prefix" => search.place \in torn \/ Begins(search.id, search.query)
    /\ search.how \in {"prefix", "nobody"} => \A p \in calm : ~Named(heap[p], search.query)
    /\ search.how = "nobody" => \A p \in calm \ {1} : ~Begins(heap[p], search.query)

\* A tile is learnt to be a portal only if the hunt went there, and did nothing since
\* that moves the player otherwise.
PortalsWereWalked ==
    hunt'.portals # hunt.portals =>
        moved.kind = "walk" /\ hunt'.portals = hunt.portals \cup {moved.tile}

\* What makes these inductive.  The minimap: between its two readings a creature is
\* where it was, unless the place is torn.
PhasesOf(who) ==
    CASE who = "minimap" -> {"idle", "scan", "names"} [] who = "hunt" -> {"idle", "acts"}
      [] OTHER -> {"idle", "scan", "exact", "exact name", "prefix", "prefix name", "answered"}
PerceptionTypes ==
    /\ heap \in [Places -> {Freed, Blank, Own} \cup Creatures] /\ heap[1] = Own
    /\ reader \in [who : Readers, at : {reader.at}] /\ reader.at \in PhasesOf(reader.who)
    /\ scan \in [next : 1..Last + 1, hits : SUBSET Places, id : Int]
    /\ minimap \in [cache : {minimap.cache}, due : BOOLEAN]
    /\ \A e \in minimap.cache :
           /\ e = [place |-> e.place, id |-> e.id, name |-> e.name, clean |-> e.clean]
           /\ e.place \in Places /\ e.clean \in BOOLEAN
    /\ search \in [query : Queries \cup {"none"}, how : {"none", "self", "exact", "prefix", "nobody"},
                   id : Int, place : 1..Last + 1]
DrawnAsRead ==
    /\ reader.who # "minimap" => minimap.cache = {}
    /\ At("minimap", "idle") \/ At("minimap", "scan") => torn = {}
    /\ At("minimap", "names") =>
           \A e \in minimap.cache : e.place \notin torn => ~Vacant(e.place) /\ heap[e.place] = e.id
\* The search: of the places that nothing stirred the scan has found those with a
\* creature, and none that was passed has the name; the id that was read is that of
\* the creature as long as its place is not torn.
Calm == Places \ stirred
Asking == {"scan", "exact", "exact name", "prefix", "prefix name"}
FoundSoFar ==
    /\ reader.who # "search" \/ reader.at # "answered" => search.how = "none"
    /\ reader.at \in Asking /\ reader.who = "search" =>
           ~Named(Own, search.query)
           /\ \A p \in Calm : (reader.at = "scan" => p < scan.next) /\ Present(p) => p \in scan.hits
    /\ reader.at \in {"exact", "exact name"} => \A p \in Calm : p < scan.next => ~Named(heap[p], search.query)
    /\ reader.at \in {"prefix", "prefix name"} =>
           \A p \in Calm : ~Named(heap[p], search.query) /\ (p < scan.next /\ p # 1 => ~Begins(heap[p], search.query))
    /\ reader.at \in {"exact name", "prefix name"} =>
           /\ scan.next \in Places
           /\ scan.next \notin torn => ~Vacant(scan.next) /\ scan.id = heap[scan.next]
\* The hunt: the last walk is the last that moved the player.
LastWalked ==
    /\ hunt \in [lastMap : {hunt.lastMap}, lastWalk : {hunt.lastWalk}, portals : {hunt.portals}]
    /\ hunt.lastWalk # NoTile => moved = [kind |-> "walk", tile |-> hunt.lastWalk]
PerceptionInvariant ==
    PerceptionTypes /\ NameOfTheId /\ DrawnAsRead /\ AnswerIsNamed /\ FoundSoFar /\ LastWalked
=============================================================================
