---------------------------- MODULE RulesProofs ----------------------------
(***************************************************************************)
(* Proofs about the parts of MCRules, for all values of their constants: whom   *)
(* the hunt picks, what is read of the game's memory while the game changes it;  *)
(* and, with RulesLemmas, what holds of every behaviour of MCRules.  The slots   *)
(* s1 to s12 stand for the variables of the part at hand; each section says      *)
(* which.                                                                    *)
(***************************************************************************)
EXTENDS RulesLemmas

-----------------------------------------------------------------------------
(***************************************************************************)
(* BotPerception: s1 to s11 are heap, dead, map, reader, scan, minimap,        *)
(* search, hunt, stirred, torn and moved.                                  *)
(***************************************************************************)

LEMMA PerceptionBegins ==
    ASSUME Perception!PerceptionAssumption, Perception!Init PROVE Perception!PerceptionInvariant
  <1>1. 1 \in Chunks /\ Perception!Last \in Nat \ {0} /\ Chunks = 1..Perception!Last
    BY DEF Perception!PerceptionAssumption, Perception!Last
  <1>2. /\ s1 = [p \in Chunks |-> IF p = 1 THEN 1 ELSE -1]
        /\ s4.who \in {"minimap", "search", "hunt"} /\ s4.at = "idle"
        /\ s4 = [who |-> s4.who, at |-> "idle"]
        /\ s5 = [next |-> 1, hits |-> {}, id |-> 0] /\ s6 = [cache |-> {}, due |-> TRUE]
        /\ s7 = [query |-> "none", how |-> "none", id |-> 0, place |-> 1]
        /\ s8 = [lastMap |-> s8.lastMap, lastWalk |-> "none", portals |-> {}] /\ s9 = {} /\ s10 = {}
    BY DEF Perception!Init, Perception!Own, Perception!Freed, Perception!Readers, Perception!NoScan, Perception!NoSearch,
           Perception!Blank, Perception!NoTile
  <1>3. s4 \in [who : Perception!Readers, at : {s4.at}]
        /\ s4.at \in Perception!PhasesOf(s4.who)
    BY <1>2 DEF Perception!Readers, Perception!PhasesOf
  <1>4. Perception!PerceptionTypes
    BY <1>1, <1>2, <1>3
    DEF Perception!PerceptionTypes, Perception!Own, Perception!Freed, Perception!Blank
  <1> QED
    BY <1>2, <1>4
    DEF Perception!PerceptionInvariant, Perception!NameOfTheId, Perception!DrawnAsRead, Perception!AnswerIsNamed,
        Perception!FoundSoFar, Perception!LastWalked, Perception!At, Perception!Asking, Perception!NoTile

\* What the invariant says, in one place.
LEMMA PerceptionFacts ==
    ASSUME Perception!PerceptionAssumption, Perception!PerceptionInvariant
    PROVE  /\ 1 \in Chunks /\ Perception!Last \in Nat \ {0} /\ Chunks = 1..Perception!Last
           /\ Creatures \subseteq Nat \ {0, 1} /\ "none" \notin MapTiles
           /\ s1 \in [Chunks -> {-1, 0, 1} \cup Creatures] /\ s1[1] = 1
           /\ s4.who \in {"minimap", "search", "hunt"} /\ s4.at \in Perception!PhasesOf(s4.who)
           /\ s4 = [who |-> s4.who, at |-> s4.at]
           /\ s5.next \in 1..Perception!Last + 1 /\ s5.hits \subseteq Chunks /\ s5.id \in Int
           /\ s5 = [next |-> s5.next, hits |-> s5.hits, id |-> s5.id]
           /\ s6 = [cache |-> s6.cache, due |-> s6.due]
           /\ s7 = [query |-> s7.query, how |-> s7.how, id |-> s7.id, place |-> s7.place]
           /\ s7.query \in Queries \cup {"none"} /\ s7.how \in {"none", "self", "exact", "prefix", "nobody"}
           /\ s7.id \in Int /\ s7.place \in 1..Perception!Last + 1
           /\ \A e \in s6.cache :
                  /\ e = [place |-> e.place, id |-> e.id, name |-> e.name, clean |-> e.clean]
                  /\ e.place \in Chunks /\ e.clean \in BOOLEAN
  <1>1. /\ Perception!Freed = -1 /\ Perception!Blank = 0 /\ Perception!Own = 1 /\ Perception!NoTile = "none"
        /\ Perception!Readers = {"minimap", "search", "hunt"}
    BY DEF Perception!Freed, Perception!Blank, Perception!Own, Perception!NoTile, Perception!Readers
  <1>2. 1 \in Chunks /\ Perception!Last \in Nat \ {0} /\ Chunks = 1..Perception!Last
        /\ Creatures \subseteq Nat \ {0, 1} /\ "none" \notin MapTiles
    BY <1>1 DEF Perception!PerceptionAssumption, Perception!Last
  <1>3. /\ s1 \in [Chunks -> {-1, 0, 1} \cup Creatures] /\ s1[1] = 1
        /\ s4 = [who |-> s4.who, at |-> s4.at]
        /\ s4.who \in {"minimap", "search", "hunt"} /\ s4.at \in Perception!PhasesOf(s4.who)
    BY <1>1 DEF Perception!PerceptionInvariant, Perception!PerceptionTypes
  <1>4. s6 = [cache |-> s6.cache, due |-> s6.due]
    BY DEF Perception!PerceptionInvariant, Perception!PerceptionTypes
  <1> QED
    BY <1>2, <1>3, <1>4 DEF Perception!PerceptionInvariant, Perception!PerceptionTypes

LEMMA RenamedEntry ==
    ASSUME NEW e, NEW n, NEW c, e = [place |-> e.place, id |-> e.id, name |-> e.name, clean |-> e.clean]
    PROVE  [e EXCEPT !.name = n, !.clean = c] = [place |-> e.place, id |-> e.id, name |-> n, clean |-> c]
  <1> DEFINE f == [e EXCEPT !.name = n]
  <1>1. [f EXCEPT !.clean = c] = [e EXCEPT !.name = n, !.clean = c]
    OBVIOUS
  <1>2. f = [place |-> e.place, id |-> e.id, name |-> n, clean |-> e.clean]
    OBVIOUS
  <1> HIDE DEF f
  <1>3. [f EXCEPT !.clean = c] = [place |-> e.place, id |-> e.id, name |-> n, clean |-> c]
    BY <1>2
  <1> QED
    BY <1>1, <1>3

\* Whoever reads, and however far it is.
LEMMA PerceptionTypesKeep ==
    ASSUME Perception!PerceptionAssumption, Perception!PerceptionInvariant, [Perception!Next]_(Perception!vars)
    PROVE  Perception!PerceptionTypes'
  <1> DEFINE Places1 == 1..Perception!Last
  <1>0. /\ 1 \in Chunks /\ Perception!Last \in Nat \ {0} /\ Chunks = 1..Perception!Last
        /\ s1 \in [Chunks -> {-1, 0, 1} \cup Creatures] /\ s1[1] = 1 /\ Creatures \subseteq Nat \ {0, 1}
        /\ s4.who \in {"minimap", "search", "hunt"} /\ s4.at \in Perception!PhasesOf(s4.who)
        /\ s4 = [who |-> s4.who, at |-> s4.at]
        /\ s5.next \in 1..Perception!Last + 1 /\ s5.hits \subseteq Chunks /\ s5.id \in Int
        /\ s5 = [next |-> s5.next, hits |-> s5.hits, id |-> s5.id]
        /\ s6 = [cache |-> s6.cache, due |-> s6.due]
        /\ s7 = [query |-> s7.query, how |-> s7.how, id |-> s7.id, place |-> s7.place]
        /\ s7.query \in Queries \cup {"none"} /\ s7.how \in {"none", "self", "exact", "prefix", "nobody"}
        /\ s7.id \in Int /\ s7.place \in 1..Perception!Last + 1
        /\ \A e \in s6.cache :
               /\ e = [place |-> e.place, id |-> e.id, name |-> e.name, clean |-> e.clean]
               /\ e.place \in Chunks /\ e.clean \in BOOLEAN
    BY PerceptionFacts
  <1>a. /\ s1 \in [Chunks -> {Perception!Freed, Perception!Blank, Perception!Own} \cup Creatures] /\ s1[1] = Perception!Own
        /\ s4 \in [who : Perception!Readers, at : {s4.at}] /\ s4.at \in Perception!PhasesOf(s4.who)
        /\ s5 \in [next : 1..Perception!Last + 1, hits : SUBSET Chunks, id : Int]
        /\ s6 \in [cache : {s6.cache}, due : BOOLEAN]
        /\ s7 \in [query : Queries \cup {"none"}, how : {"none", "self", "exact", "prefix", "nobody"},
                   id : Int, place : 1..Perception!Last + 1]
    BY DEF Perception!PerceptionInvariant, Perception!PerceptionTypes
  \* The game.
  <1>1. s1' \in [Chunks -> {Perception!Freed, Perception!Blank, Perception!Own} \cup Creatures] /\ s1'[1] = Perception!Own
    <2>1. CASE s1' = s1
      BY <1>a, <2>1
    <2>2. ASSUME NEW p \in Chunks, Perception!Changes(p)
          PROVE  s1' \in [Chunks -> {Perception!Freed, Perception!Blank, Perception!Own} \cup Creatures]
                 /\ s1'[1] = Perception!Own
      BY <1>0, <1>a, <2>2 DEF Perception!Changes
    <2> QED
      BY <2>1, <2>2
      DEF Perception!Next, Perception!vars, Perception!Dies, Perception!Travels, Perception!Scans, Perception!Rescan,
          Perception!ReadsFields, Perception!ReadsNames, Perception!Refresh, Perception!RescanDue, Perception!Ask,
          Perception!ScanDone, Perception!ReadsId, Perception!NextPlace, Perception!PassEnds, Perception!Used,
          Perception!ReadsName, Perception!Frame, Perception!Acts
  \* Who reads goes on to another phase.
  <1>2. s4' \in [who : Perception!Readers, at : {s4'.at}] /\ s4'.at \in Perception!PhasesOf(s4'.who)
    <2>1. CASE s4' = s4
      BY <1>a, <2>1
    <2>2. ASSUME NEW at \in Perception!PhasesOf(s4.who), Perception!GoesTo(at)
          PROVE  s4' \in [who : Perception!Readers, at : {s4'.at}] /\ s4'.at \in Perception!PhasesOf(s4'.who)
      <3>1. s4' = [who |-> s4.who, at |-> at]
        BY <1>0, <2>2 DEF Perception!GoesTo
      <3> QED
        BY <1>a, <3>1
    <2>3. Perception!ReadsId => Perception!GoesTo("exact name") \/ Perception!GoesTo("prefix name")
      BY <1>0 DEF Perception!ReadsId, Perception!GoesTo
    <2>4. s4.at \in {"exact", "prefix"} => s4.who = "search"
      BY <1>0 DEF Perception!PhasesOf
    <2>5. \/ s4' = s4
          \/ s4.who = "minimap" /\ \E at \in {"idle", "scan", "names"} : Perception!GoesTo(at)
          \/ s4.who = "hunt" /\ \E at \in {"idle", "acts"} : Perception!GoesTo(at)
          \/ /\ s4.who = "search"
             /\ \E at \in {"idle", "scan", "exact", "exact name", "prefix", "prefix name", "answered"} : Perception!GoesTo(at)
      BY <2>3, <2>4
      DEF Perception!Next, Perception!vars, Perception!Changes, Perception!Dies, Perception!Travels, Perception!Scans,
          Perception!Rescan, Perception!ReadsFields, Perception!ReadsNames, Perception!Refresh, Perception!RescanDue,
          Perception!Ask, Perception!ScanDone, Perception!ReadsId, Perception!NextPlace, Perception!PassEnds,
          Perception!Used, Perception!ReadsName, Perception!Frame, Perception!Acts, Perception!At, Perception!Answers,
          Perception!Passes
    <2> QED
      BY <1>0, <2>1, <2>2, <2>5 DEF Perception!PhasesOf
  \* How far it is.
  <1>3. s5' \in [next : 1..Perception!Last + 1, hits : SUBSET Chunks, id : Int]
    <2>1. CASE s5' = s5 \/ s5' = Perception!NoScan \/ s5' = [s5 EXCEPT !.next = 1]
      <3>1. 1 \in 1..Perception!Last + 1
        BY <1>0
      <3>2. Perception!NoScan \in [next : 1..Perception!Last + 1, hits : SUBSET Chunks, id : Int]
        BY <3>1 DEF Perception!NoScan, Perception!Blank
      <3> QED
        BY <1>a, <2>1, <3>1, <3>2
    <2>2. CASE s5.next =< Perception!Last /\ s5' = [s5 EXCEPT !.next = @ + 1]
      <3>1. s5.next + 1 \in 1..Perception!Last + 1
        BY <1>0, <2>2
      <3> QED
        BY <1>a, <2>2, <3>1
    <2>3. CASE Perception!Scans
      <3>0. PICK read \in BOOLEAN :
                s5' = [s5 EXCEPT !.next = @ + 1,
                                 !.hits = IF read /\ Perception!Present(s5.next) THEN @ \cup {s5.next} ELSE @]
        BY <2>3 DEF Perception!Scans
      <3> DEFINE hits == IF read /\ Perception!Present(s5.next) THEN s5.hits \cup {s5.next} ELSE s5.hits
      <3>1. s5.next =< Perception!Last /\ s5.next + 1 \in 1..Perception!Last + 1 /\ s5.next \in Chunks
        BY <1>0, <2>3 DEF Perception!Scans
      <3>2. s5' = [next |-> s5.next + 1, hits |-> hits, id |-> s5.id]
        BY <1>0, <3>0
      <3>3. hits \in SUBSET Chunks
        BY <1>0, <3>1
      <3> HIDE DEF hits
      <3> QED
        BY <1>0, <3>1, <3>2, <3>3
    <2>4. CASE Perception!ReadsId
      <3>1. s5.next \in Chunks
        <4>1. s5.next =< Perception!Last
          BY <2>4 DEF Perception!ReadsId
        <4> QED
          BY <1>0, <4>1
      <3>2. PICK left \in Perception!Left :
                s5' = [s5 EXCEPT !.id = IF s1[s5.next] = Perception!Blank THEN Perception!Blank
                                        ELSE Perception!StandsIn(s5.next, left)]
        BY <2>4 DEF Perception!ReadsId
      <3> DEFINE id == IF s1[s5.next] = Perception!Blank THEN Perception!Blank ELSE Perception!StandsIn(s5.next, left)
      <3>3. left \in Int /\ s1[s5.next] \in Int
        BY <1>0, <3>1 DEF Perception!Left, Perception!Blank
      <3>4. id \in Int
        BY <3>3 DEF Perception!StandsIn, Perception!Blank
      <3> HIDE DEF id
      <3> QED
        BY <1>a, <3>2, <3>4 DEF id
    <2>5. ASSUME NEW pass, Perception!ReadsName(pass)
          PROVE  \/ s5' = Perception!NoScan
                 \/ s5.next =< Perception!Last /\ s5' = [s5 EXCEPT !.next = @ + 1]
      <3>1. s5.next \in Chunks
        BY <2>5 DEF Perception!ReadsName, Perception!At, Perception!PerceptionInvariant, Perception!FoundSoFar
      <3> QED
        <4>1. s5' = Perception!NoScan \/ s5' = [s5 EXCEPT !.next = @ + 1]
          BY <2>5 DEF Perception!ReadsName, Perception!Answers
        <4>2. s5.next =< Perception!Last
          BY <1>0, <3>1
        <4> QED
          BY <4>1, <4>2
    <2>6. CASE Perception!Scans \/ Perception!ReadsId \/ Perception!ReadsName("exact") \/ Perception!ReadsName("prefix")
      BY <2>1, <2>2, <2>3, <2>4, <2>5, <2>6
    <2>7. CASE Perception!ScanDone \/ Perception!NextPlace \/ Perception!PassEnds
      BY <2>1, <2>2, <2>7 DEF Perception!ScanDone, Perception!NextPlace, Perception!PassEnds, Perception!Answers
    <2>8. CASE \E q \in Queries : Perception!Ask(q)
      BY <2>1, <2>8 DEF Perception!Ask
    <2>9. CASE \/ \E p \in Chunks : Perception!Changes(p) \/ Perception!Dies(p)
               \/ Perception!Travels \/ Perception!Refresh \/ Perception!RescanDue \/ Perception!Used \/ Perception!Frame
               \/ Perception!Rescan \/ Perception!ReadsFields \/ Perception!ReadsNames
               \/ \E kind \in {"walk", "scroll", "attack"}, t \in MapTiles : Perception!Acts(kind, t)
               \/ UNCHANGED Perception!vars
      <3>1. s5' = s5 \/ s5' = Perception!NoScan
        BY <2>9
        DEF Perception!Changes, Perception!Dies, Perception!Travels, Perception!Refresh, Perception!RescanDue,
            Perception!Used, Perception!Frame, Perception!Rescan, Perception!ReadsFields, Perception!ReadsNames,
            Perception!Acts, Perception!vars
      <3> QED
        BY <2>1, <3>1
    <2> QED
      BY <2>6, <2>7, <2>8, <2>9 DEF Perception!Next
  \* What is drawn.
  <1>4. s6' \in [cache : {s6'.cache}, due : BOOLEAN]
        /\ \A e \in s6'.cache :
               /\ e = [place |-> e.place, id |-> e.id, name |-> e.name, clean |-> e.clean]
               /\ e.place \in Chunks /\ e.clean \in BOOLEAN
    <2>1. CASE s6' = s6
      BY <1>0, <1>a, <2>1
    <2>2. CASE Perception!RescanDue
      <3>1. s6' = [cache |-> s6.cache, due |-> TRUE]
        BY <1>0, <2>2 DEF Perception!RescanDue
      <3> QED
        BY <1>0, <3>1
    <2>3. CASE Perception!ReadsFields
      <3> DEFINE cache == {[place |-> p, id |-> s1[p], name |-> "none", clean |-> TRUE]
                               : p \in {q \in s5.hits : Perception!Attackable(q)}}
      <3>1. s6' = [cache |-> cache, due |-> FALSE]
        BY <1>0, <2>3 DEF Perception!ReadsFields
      <3>2. ASSUME NEW e \in cache
            PROVE  /\ e = [place |-> e.place, id |-> e.id, name |-> e.name, clean |-> e.clean]
                   /\ e.place \in Chunks /\ e.clean \in BOOLEAN
        <4>1. PICK p \in s5.hits : e = [place |-> p, id |-> s1[p], name |-> "none", clean |-> TRUE]
          BY DEF cache
        <4>2. p \in Chunks
          BY <1>0
        <4> QED
          BY <4>1, <4>2
      <3> HIDE DEF cache
      <3> QED
        BY <3>1, <3>2
    <2>4. CASE Perception!ReadsNames
      <3>0. PICK left \in Perception!Left :
                s6' = [s6 EXCEPT !.cache = {[e EXCEPT !.name = ShownName[Perception!StandsIn(e.place, left)],
                                                      !.clean = e.place \notin s10] :
                            e \in {f \in s6.cache : Perception!StandsIn(f.place, left) # Perception!Blank}}]
        BY <2>4 DEF Perception!ReadsNames
      <3> DEFINE stands(e) == Perception!StandsIn(e.place, left)
                 now(e) == [e EXCEPT !.name = ShownName[stands(e)], !.clean = e.place \notin s10]
                 cache == {now(e) : e \in {f \in s6.cache : stands(f) # Perception!Blank}}
      <3>1. s6' = [cache |-> cache, due |-> s6.due]
        BY <1>0, <3>0
      <3>2. ASSUME NEW e \in s6.cache
            PROVE  now(e) = [place |-> e.place, id |-> e.id, name |-> ShownName[stands(e)], clean |-> e.place \notin s10]
        <4> DEFINE fresh == e.place \notin s10
        <4>1. e = [place |-> e.place, id |-> e.id, name |-> e.name, clean |-> e.clean]
          BY <1>0
        <4>2. [e EXCEPT !.name = ShownName[stands(e)], !.clean = fresh]
                 = [place |-> e.place, id |-> e.id, name |-> ShownName[stands(e)], clean |-> fresh]
          <5> HIDE DEF fresh
          <5> QED
            BY <4>1, RenamedEntry
        <4> QED
          BY <4>2
      <3>3. ASSUME NEW e \in cache
            PROVE  /\ e = [place |-> e.place, id |-> e.id, name |-> e.name, clean |-> e.clean]
                   /\ e.place \in Chunks /\ e.clean \in BOOLEAN
        <4>1. PICK f \in s6.cache : e = now(f)
          OBVIOUS
        <4> DEFINE fresh == f.place \notin s10
        <4>2. e = [place |-> f.place, id |-> f.id, name |-> ShownName[stands(f)], clean |-> fresh]
          BY <3>2, <4>1
        <4>3. fresh \in BOOLEAN
          OBVIOUS
        <4> HIDE DEF fresh
        <4> QED
          BY <1>0, <4>2, <4>3
      <3> HIDE DEF cache
      <3> QED
        BY <1>a, <3>1, <3>3
    <2>5. CASE Perception!Refresh
      <3> DEFINE now(e) == [e EXCEPT !.id = s1[e.place]]
                 cache == {now(e) : e \in {f \in s6.cache : Perception!StillThere(f)}}
      <3>1. s6' = [cache |-> cache, due |-> s6.due]
        BY <1>0, <2>5 DEF Perception!Refresh
      <3>2. ASSUME NEW e \in s6.cache
            PROVE  now(e) = [place |-> e.place, id |-> s1[e.place], name |-> e.name, clean |-> e.clean]
        <4>1. e = [place |-> e.place, id |-> e.id, name |-> e.name, clean |-> e.clean]
          BY <1>0
        <4> QED
          BY <4>1
      <3>3. \A e \in cache : /\ e = [place |-> e.place, id |-> e.id, name |-> e.name, clean |-> e.clean]
                             /\ e.place \in Chunks /\ e.clean \in BOOLEAN
        <4>1. \A e \in s6.cache :
                 /\ now(e) = [place |-> now(e).place, id |-> now(e).id, name |-> now(e).name, clean |-> now(e).clean]
                 /\ now(e).place \in Chunks /\ now(e).clean \in BOOLEAN
          BY <1>0, <3>2
        <4> HIDE DEF now
        <4> QED
          BY <4>1
      <3> HIDE DEF cache
      <3> QED
        BY <1>a, <3>1, <3>3
    <2> QED
      BY <2>1, <2>2, <2>3, <2>4, <2>5
      DEF Perception!Next, Perception!vars, Perception!Changes, Perception!Dies, Perception!Travels, Perception!Scans,
          Perception!Rescan, Perception!Ask, Perception!ScanDone, Perception!ReadsId, Perception!NextPlace,
          Perception!PassEnds, Perception!Used, Perception!ReadsName, Perception!Frame, Perception!Acts
  \* The question and its answer.
  <1>5. s7' \in [query : Queries \cup {"none"}, how : {"none", "self", "exact", "prefix", "nobody"},
                 id : Int, place : 1..Perception!Last + 1]
    <2>1. CASE s7' = s7 \/ s7' = Perception!NoSearch
      <3>1. 1 \in 1..Perception!Last + 1
        BY <1>0
      <3> QED
        BY <1>a, <2>1, <3>1 DEF Perception!NoSearch, Perception!Blank
    <2>2. ASSUME NEW how \in {"exact", "prefix", "nobody"}, NEW id \in Int, Perception!Answers(how, id)
          PROVE  s7' \in [query : Queries \cup {"none"}, how : {"none", "self", "exact", "prefix", "nobody"},
                          id : Int, place : 1..Perception!Last + 1]
      <3>1. s7' = [query |-> s7.query, how |-> how, id |-> id, place |-> s5.next]
        BY <1>0, <2>2 DEF Perception!Answers
      <3> QED
        BY <1>0, <3>1
    <2>3. ASSUME NEW q \in Queries, Perception!Ask(q)
          PROVE  s7' \in [query : Queries \cup {"none"}, how : {"none", "self", "exact", "prefix", "nobody"},
                          id : Int, place : 1..Perception!Last + 1]
      <3>1. 1 \in 1..Perception!Last + 1
        BY <1>0
      <3>2. s7' \in {[query |-> q, how |-> "self", id |-> 1, place |-> 1], [query |-> q, how |-> "none", id |-> 0, place |-> 1]}
        BY <2>3 DEF Perception!Ask, Perception!NoSearch, Perception!Own, Perception!Blank
      <3>3. CASE s7' = [query |-> q, how |-> "self", id |-> 1, place |-> 1]
        BY <3>1, <3>3
      <3>4. CASE s7' = [query |-> q, how |-> "none", id |-> 0, place |-> 1]
        BY <3>1, <3>4
      <3> QED
        BY <3>2, <3>3, <3>4
    <2>4. CASE Perception!PassEnds
      BY <2>1, <2>2, <2>4 DEF Perception!PassEnds, Perception!Blank
    <2>5. CASE Perception!ReadsName("exact") \/ Perception!ReadsName("prefix")
      <3>1. s7' = s7 \/ \E how \in {"exact", "prefix", "nobody"} : Perception!Answers(how, s5.id)
        BY <2>5 DEF Perception!ReadsName
      <3> QED
        BY <1>0, <2>1, <2>2, <3>1
    <2> QED
      BY <2>1, <2>3, <2>4, <2>5
      DEF Perception!Next, Perception!vars, Perception!Changes, Perception!Dies, Perception!Travels, Perception!Scans,
          Perception!Rescan, Perception!ReadsFields, Perception!ReadsNames, Perception!Refresh, Perception!RescanDue,
          Perception!ScanDone, Perception!ReadsId, Perception!NextPlace, Perception!Used, Perception!Frame,
          Perception!Acts
  <1> QED
    BY <1>1, <1>2, <1>3, <1>4, <1>5 DEF Perception!PerceptionTypes

-----------------------------------------------------------------------------
\* A place of the heap changes hands, and every other one stays.
LEMMA OnePlaceChanges ==
    ASSUME Perception!PerceptionAssumption, Perception!PerceptionInvariant, NEW p \in Chunks, Perception!Changes(p)
    PROVE  p # 1 /\ \A q \in Chunks \ {p} : s1'[q] = s1[q]
  <1>1. s1 \in [Chunks -> {-1, 0, 1} \cup Creatures]
    BY PerceptionFacts
  <1>2. PICK c : s1' = [s1 EXCEPT ![p] = c]
    BY DEF Perception!Changes
  <1> QED
    BY <1>1, <1>2 DEF Perception!Changes

\* The minimap gives nobody the name of another one.
LEMMA NamesKeep ==
    ASSUME Perception!PerceptionAssumption, Perception!PerceptionInvariant, [Perception!Next]_(Perception!vars)
    PROVE  Perception!NameOfTheId' /\ Perception!DrawnAsRead'
  <1>0. /\ s4 = [who |-> s4.who, at |-> s4.at] /\ s6 = [cache |-> s6.cache, due |-> s6.due]
        /\ s4.at \in Perception!PhasesOf(s4.who)
        /\ \A e \in s6.cache :
               /\ e = [place |-> e.place, id |-> e.id, name |-> e.name, clean |-> e.clean]
               /\ e.place \in Chunks /\ e.clean \in BOOLEAN
    BY PerceptionFacts
  <1>1. /\ s4.at = "idle" => \A e \in s6.cache : e.clean => e.name = ShownName[e.id]
        /\ s4.who # "minimap" => s6.cache = {}
        /\ s4.who = "minimap" /\ s4.at \in {"idle", "scan"} => s10 = {}
        /\ s4.who = "minimap" /\ s4.at = "names" =>
               \A e \in s6.cache : e.place \notin s10 => s1[e.place] \notin {-1, 0} /\ s1[e.place] = e.id
    BY DEF Perception!PerceptionInvariant, Perception!NameOfTheId, Perception!DrawnAsRead, Perception!At,
           Perception!Vacant, Perception!Freed, Perception!Blank
  <1> SUFFICES /\ s4'.at = "idle" => \A e \in s6'.cache : e.clean => e.name = ShownName[e.id]
               /\ s4'.who # "minimap" => s6'.cache = {}
               /\ s4'.who = "minimap" /\ s4'.at \in {"idle", "scan"} => s10' = {}
               /\ s4'.who = "minimap" /\ s4'.at = "names" =>
                      \A e \in s6'.cache : e.place \notin s10' => s1'[e.place] \notin {-1, 0} /\ s1'[e.place] = e.id
    BY DEF Perception!NameOfTheId, Perception!DrawnAsRead, Perception!At, Perception!Vacant, Perception!Freed,
           Perception!Blank
  <1>2. ASSUME NEW p \in Chunks, Perception!Changes(p)
        PROVE  /\ s4' = s4 /\ s6' = s6
               /\ s4.at \in {"idle", "scan"} => s10' = s10
               /\ s4.at = "names" => \A e \in s6.cache : e.place \notin s10' => e.place \notin s10 /\ s1'[e.place] = s1[e.place]
    <2>1. s4' = s4 /\ s6' = s6 /\ s10' = IF s4.at \in {"idle", "scan", "answered"} THEN s10 ELSE s10 \cup {p}
      BY <1>2 DEF Perception!Changes
    <2>2. \A q \in Chunks \ {p} : s1'[q] = s1[q]
      BY <1>2, OnePlaceChanges
    <2>3. s4.at = "names" => \A e \in s6.cache : e.place \notin s10' => e.place \notin s10 /\ s1'[e.place] = s1[e.place]
      BY <1>0, <2>1, <2>2
    <2> QED
      BY <2>1, <2>3
  <1>3. CASE \E p \in Chunks : Perception!Changes(p)
    BY <1>1, <1>2, <1>3
  \* Nobody else touches what is drawn.
  <1>4. CASE s4.who # "minimap" /\ \A p \in Chunks : ~Perception!Changes(p)
    <2>1. s6' = s6 /\ (s4' = s4 \/ \E at : s4' = [s4 EXCEPT !.at = at])
      BY <1>4
      DEF Perception!Next, Perception!vars, Perception!Dies, Perception!Travels, Perception!Scans, Perception!Rescan,
          Perception!ReadsFields, Perception!ReadsNames, Perception!Refresh, Perception!RescanDue, Perception!Ask,
          Perception!ScanDone, Perception!ReadsId, Perception!NextPlace, Perception!PassEnds, Perception!Used,
          Perception!ReadsName, Perception!Frame, Perception!Acts, Perception!At, Perception!Answers, Perception!GoesTo
    <2>2. s4'.who = s4.who
      BY <1>0, <2>1
    <2> QED
      BY <1>1, <1>4, <2>1, <2>2
  <1>5. CASE UNCHANGED <<s1, s4, s6, s10>>
    BY <1>1, <1>5
  <1>6. CASE Perception!Rescan
    <2>1. s4'.at = "scan" /\ s6' = s6 /\ s10' = s10 /\ s4.who = "minimap" /\ s4.at = "idle" /\ s4'.who = "minimap"
      BY <1>0, <1>6 DEF Perception!Rescan, Perception!GoesTo, Perception!At
    <2> QED
      BY <1>1, <2>1
  <1>7. CASE Perception!RescanDue
    <2>1. s4' = s4 /\ s6'.cache = s6.cache /\ s10' = s10 /\ s1' = s1
      BY <1>0, <1>7 DEF Perception!RescanDue
    <2> QED
      BY <1>1, <2>1
  <1>8. CASE Perception!ReadsFields
    <2> DEFINE cache == {[place |-> p, id |-> s1[p], name |-> "none", clean |-> TRUE]
                             : p \in {q \in s5.hits : Perception!Attackable(q)}}
    <2>1. s4' = [who |-> "minimap", at |-> "names"] /\ s1' = s1
      BY <1>0, <1>8 DEF Perception!ReadsFields, Perception!GoesTo, Perception!At
    <2>2. s6' = [cache |-> cache, due |-> FALSE]
      BY <1>0, <1>8 DEF Perception!ReadsFields
    <2>3. \A e \in cache : s1[e.place] \notin {-1, 0} /\ s1[e.place] = e.id
      BY DEF Perception!Attackable, Perception!PerceptionAssumption, Perception!Blank
    <2> HIDE DEF cache
    <2> QED
      BY <2>1, <2>2, <2>3
  <1>9. CASE Perception!ReadsNames
    <2>0. PICK left \in Perception!Left :
              s6' = [s6 EXCEPT !.cache = {[e EXCEPT !.name = ShownName[Perception!StandsIn(e.place, left)],
                                                    !.clean = e.place \notin s10] :
                          e \in {f \in s6.cache : Perception!StandsIn(f.place, left) # Perception!Blank}}]
      BY <1>9 DEF Perception!ReadsNames
    <2> DEFINE stands(e) == Perception!StandsIn(e.place, left)
               now(e) == [e EXCEPT !.name = ShownName[stands(e)], !.clean = e.place \notin s10]
               cache == {now(e) : e \in {f \in s6.cache : stands(f) # Perception!Blank}}
    <2>1. s4' = [who |-> "minimap", at |-> "idle"] /\ s4 = [who |-> "minimap", at |-> "names"] /\ s10' = {}
      BY <1>0, <1>9 DEF Perception!ReadsNames, Perception!GoesTo, Perception!At
    <2>2. s6' = [cache |-> cache, due |-> s6.due]
      BY <1>0, <2>0
    <2>3. ASSUME NEW e \in s6.cache, now(e).clean
          PROVE  now(e).name = ShownName[now(e).id]
      <3> DEFINE fresh == e.place \notin s10
      <3>1. e = [place |-> e.place, id |-> e.id, name |-> e.name, clean |-> e.clean]
        BY <1>0
      <3>2. [e EXCEPT !.name = ShownName[stands(e)], !.clean = fresh]
               = [place |-> e.place, id |-> e.id, name |-> ShownName[stands(e)], clean |-> fresh]
        <4> HIDE DEF fresh
        <4> QED
          BY <3>1, RenamedEntry
      <3>3. now(e) = [place |-> e.place, id |-> e.id, name |-> ShownName[stands(e)], clean |-> fresh]
        BY <3>2
      <3>4. now(e).clean = fresh /\ now(e).name = ShownName[stands(e)] /\ now(e).id = e.id
        <4> HIDE DEF fresh, now, stands
        <4> QED
          BY <3>3
      <3>5. fresh
        BY <2>3, <3>4
      <3>6. s1[e.place] \notin {-1, 0} /\ s1[e.place] = e.id
        BY <1>1, <2>1, <3>5
      <3>7. stands(e) = e.id
        BY <3>6 DEF Perception!StandsIn, Perception!Vacant, Perception!Freed, Perception!Blank
      <3> HIDE DEF now, stands
      <3> QED
        BY <3>4, <3>7
    <2>4. \A e \in cache : e.clean => e.name = ShownName[e.id]
      <3> HIDE DEF now
      <3> QED
        BY <2>3
    <2> HIDE DEF cache
    <2> QED
      BY <2>1, <2>2, <2>4
  <1>10. CASE Perception!Refresh
    <2> DEFINE now(e) == [e EXCEPT !.id = s1[e.place]]
               cache == {now(e) : e \in {f \in s6.cache : Perception!StillThere(f)}}
    <2>1. s4.who = "minimap" /\ s4.at = "idle" /\ s4' = s4 /\ s10' = s10
      BY <1>10 DEF Perception!Refresh, Perception!At
    <2>2. s6' = [cache |-> cache, due |-> s6.due]
      BY <1>0, <1>10 DEF Perception!Refresh
    <2>3. ASSUME NEW e \in s6.cache, Perception!StillThere(e)
          PROVE  now(e) = e
      <3>1. e = [place |-> e.place, id |-> e.id, name |-> e.name, clean |-> e.clean]
        BY <1>0
      <3>2. s1[e.place] = e.id
        BY <2>3 DEF Perception!StillThere
      <3> QED
        BY <3>1, <3>2
    <2>4. cache \subseteq s6.cache
      <3> HIDE DEF now
      <3> QED
        BY <2>3
    <2> HIDE DEF cache
    <2> QED
      BY <1>1, <2>1, <2>2, <2>4
  <1>11. s4.who = "minimap" => s4.at \notin Perception!Passes
    BY <1>0 DEF Perception!Passes, Perception!PhasesOf
  <1>12. s4.who = "minimap" =>
             \/ \E p \in Chunks : Perception!Changes(p)
             \/ UNCHANGED <<s1, s4, s6, s10>>
             \/ Perception!Rescan \/ Perception!ReadsFields \/ Perception!ReadsNames
             \/ Perception!Refresh \/ Perception!RescanDue
    BY <1>11
    DEF Perception!Next, Perception!vars, Perception!Dies, Perception!Travels, Perception!Scans, Perception!Ask,
        Perception!ScanDone, Perception!ReadsId, Perception!NextPlace, Perception!PassEnds, Perception!Used,
        Perception!ReadsName, Perception!Frame, Perception!Acts, Perception!At
  <1> QED
    BY <1>3, <1>4, <1>5, <1>6, <1>7, <1>8, <1>9, <1>10, <1>12

\* The hunt takes for a portal what it walked to last.
LEMMA WalksKeep ==
    ASSUME Perception!PerceptionAssumption, Perception!PerceptionInvariant, [Perception!Next]_(Perception!vars)
    PROVE  Perception!LastWalked' /\ Perception!PortalsWereWalked
  <1> DEFINE Known(h) == h = [lastMap |-> h.lastMap, lastWalk |-> h.lastWalk, portals |-> h.portals]
  <1>1. Known(s8) /\ (s8.lastWalk # "none" => s11 = [kind |-> "walk", tile |-> s8.lastWalk])
    BY DEF Perception!PerceptionInvariant, Perception!LastWalked, Perception!NoTile
  <1> SUFFICES /\ Known(s8') /\ (s8'.lastWalk # "none" => s11' = [kind |-> "walk", tile |-> s8'.lastWalk])
               /\ s8'.portals # s8.portals => s11.kind = "walk" /\ s8'.portals = s8.portals \cup {s11.tile}
    BY DEF Perception!LastWalked, Perception!NoTile, Perception!PortalsWereWalked
  <1>2. CASE UNCHANGED <<s8, s11>>
    BY <1>1, <1>2
  <1>3. CASE Perception!Frame
    <2>1. PICK seen : s8' = [s8 EXCEPT !.lastMap = seen, !.portals = @ \cup Perception!Learnt(seen)]
      BY <1>3 DEF Perception!Frame
    <2> DEFINE portals == s8.portals \cup Perception!Learnt(seen)
               h == [s8 EXCEPT !.lastMap = seen]
    <2>2. s8' = [h EXCEPT !.portals = portals]
      BY <2>1
    <2>3. h = [lastMap |-> seen, lastWalk |-> s8.lastWalk, portals |-> s8.portals]
      BY <1>1
    <2>4. s8' = [lastMap |-> seen, lastWalk |-> s8.lastWalk, portals |-> portals]
      <3> HIDE DEF h, portals
      <3> QED
        BY <2>2, <2>3
    <2>5. Perception!Learnt(seen) # {} => s8.lastWalk # "none" /\ Perception!Learnt(seen) = {s8.lastWalk}
      BY DEF Perception!Learnt, Perception!NoTile
    <2>6. s11' = s11
      BY <1>3 DEF Perception!Frame
    <2> QED
      BY <1>1, <2>4, <2>5, <2>6
  <1>4. ASSUME NEW kind \in {"walk", "scroll", "attack"}, NEW tile \in MapTiles, Perception!Acts(kind, tile)
        PROVE  /\ Known(s8') /\ (s8'.lastWalk # "none" => s11' = [kind |-> "walk", tile |-> s8'.lastWalk])
               /\ s8'.portals = s8.portals
    <2>1. PICK ok \in BOOLEAN :
              /\ s8' = [s8 EXCEPT !.lastWalk = Perception!WalkNoted(kind, ok, tile)]
              /\ s11' = IF kind = "walk" \/ (kind = "scroll" /\ ok)
                        THEN [kind |-> IF ok THEN kind ELSE "failed", tile |-> tile] ELSE s11
      BY <1>4 DEF Perception!Acts
    <2>2. s8' = [lastMap |-> s8.lastMap, lastWalk |-> Perception!WalkNoted(kind, ok, tile), portals |-> s8.portals]
      BY <1>1, <2>1
    <2>3. CASE kind = "walk" /\ ok
      BY <1>1, <2>1, <2>2, <2>3 DEF Perception!WalkNoted
    <2>4. CASE (kind = "walk" /\ ~ok) \/ (kind = "scroll" /\ ok)
      BY <1>1, <2>1, <2>2, <2>4 DEF Perception!WalkNoted, Perception!NoTile
    <2>5. CASE (kind = "scroll" /\ ~ok) \/ kind = "attack"
      BY <1>1, <2>1, <2>2, <2>5 DEF Perception!WalkNoted
    <2>6. kind = "walk" \/ kind = "scroll" \/ kind = "attack"
      BY <1>4
    <2> HIDE DEF Known
    <2>7. CASE ok
      BY <2>3, <2>4, <2>5, <2>6, <2>7
    <2>8. CASE ~ok
      BY <2>3, <2>4, <2>5, <2>6, <2>8
    <2> QED
      BY <2>7, <2>8
  <1> QED
    BY <1>2, <1>3, <1>4
    DEF Perception!Next, Perception!vars, Perception!Changes, Perception!Dies, Perception!Travels, Perception!Scans,
        Perception!Rescan, Perception!ReadsFields, Perception!ReadsNames, Perception!Refresh, Perception!RescanDue,
        Perception!Ask, Perception!ScanDone, Perception!ReadsId, Perception!NextPlace, Perception!PassEnds,
        Perception!Used, Perception!ReadsName

-----------------------------------------------------------------------------
\* What the search knows.
LEMMA SearchFacts ==
    ASSUME Perception!PerceptionAssumption, Perception!PerceptionInvariant
    PROVE  /\ s4.who # "search" => s7.how = "none" /\ s4.at \notin Perception!Passes \cup {"exact name", "prefix name", "answered"}
           /\ s4.at # "answered" => s7.how = "none"
           /\ s7.how = "self" => Perception!Named(s1[1], s7.query)
           /\ s7.how # "none" => s4.who = "search" /\ s4.at = "answered"
           /\ s7.how # "none" /\ Perception!Named(s1[1], s7.query) => s7.how = "self"
           /\ s7.how = "exact" => s7.place \in s10 \/ Perception!Named(s7.id, s7.query)
           /\ s7.how = "prefix" => s7.place \in s10 \/ Perception!Begins(s7.id, s7.query)
           /\ s7.how \in {"prefix", "nobody"} => \A p \in Chunks \ s9 : ~Perception!Named(s1[p], s7.query)
           /\ s7.how = "nobody" => \A p \in (Chunks \ s9) \ {1} : ~Perception!Begins(s1[p], s7.query)
           /\ s4.who = "search" /\ s4.at \in Perception!Asking =>
                  ~Perception!Named(1, s7.query) /\ ~Perception!Named(s1[1], s7.query)
           /\ s4.who = "search" /\ s4.at = "scan" => \A p \in Chunks \ s9 : p < s5.next /\ s1[p] # -1 => p \in s5.hits
           /\ s4.who = "search" /\ s4.at \in Perception!Asking \ {"scan"} =>
                  \A p \in Chunks \ s9 : s1[p] # -1 => p \in s5.hits
           /\ s4.at \in {"exact", "exact name"} =>
                  \A p \in Chunks \ s9 : p < s5.next => ~Perception!Named(s1[p], s7.query)
           /\ s4.at \in {"prefix", "prefix name"} =>
                  \A p \in Chunks \ s9 : /\ ~Perception!Named(s1[p], s7.query)
                                         /\ p < s5.next /\ p # 1 => ~Perception!Begins(s1[p], s7.query)
           /\ s4.at \in {"exact name", "prefix name"} =>
                  s5.next \in Chunks /\ (s5.next \notin s10 => s1[s5.next] \notin {-1, 0} /\ s5.id = s1[s5.next])
  <1>1. s1[1] = 1 /\ s4.who \in {"minimap", "search", "hunt"} /\ s4.at \in Perception!PhasesOf(s4.who)
    BY PerceptionFacts
  <1>2. s4.who # "search" => s4.at \notin Perception!Passes \cup {"exact name", "prefix name", "answered"}
    BY <1>1 DEF Perception!PhasesOf, Perception!Passes
  <1>3. s7.how # "none" =>
            /\ s7.how = "self" <=> Perception!Named(s1[1], s7.query)
            /\ s7.how = "exact" => s7.place \in s10 \/ Perception!Named(s7.id, s7.query)
            /\ s7.how = "prefix" => s7.place \in s10 \/ Perception!Begins(s7.id, s7.query)
            /\ s7.how \in {"prefix", "nobody"} => \A p \in Chunks \ s9 : ~Perception!Named(s1[p], s7.query)
            /\ s7.how = "nobody" => \A p \in (Chunks \ s9) \ {1} : ~Perception!Begins(s1[p], s7.query)
    BY DEF Perception!PerceptionInvariant, Perception!AnswerIsNamed
  <1>4. Perception!FoundSoFar
    BY DEF Perception!PerceptionInvariant
  <1>5. Perception!Own = 1 /\ Perception!Freed = -1 /\ Perception!Blank = 0
    BY DEF Perception!Own, Perception!Freed, Perception!Blank
  <1> QED
    BY <1>1, <1>2, <1>3, <1>4, <1>5
    DEF Perception!FoundSoFar, Perception!Calm, Perception!Asking, Perception!Vacant, Perception!Present

\* Nobody is overlooked, and nobody is taken for another one.
LEMMA SearchKeeps ==
    ASSUME Perception!PerceptionAssumption, Perception!PerceptionInvariant, [Perception!Next]_(Perception!vars)
    PROVE  Perception!AnswerIsNamed' /\ Perception!FoundSoFar'
  <1>0. /\ 1 \in Chunks /\ Perception!Last \in Nat \ {0} /\ Chunks = 1..Perception!Last
        /\ s1[1] = 1 /\ s4.who \in {"minimap", "search", "hunt"}
        /\ s4 = [who |-> s4.who, at |-> s4.at] /\ s4.at \in Perception!PhasesOf(s4.who)
        /\ s5.next \in 1..Perception!Last + 1 /\ s5.hits \subseteq Chunks
        /\ s5 = [next |-> s5.next, hits |-> s5.hits, id |-> s5.id]
        /\ s7 = [query |-> s7.query, how |-> s7.how, id |-> s7.id, place |-> s7.place]
    BY PerceptionFacts
  <1>a. s1'[1] = 1 /\ s4'.who \in Perception!Readers /\ s4'.at \in Perception!PhasesOf(s4'.who)
    <2>1. Perception!PerceptionTypes'
      BY PerceptionTypesKeep
    <2> QED
      BY <2>1 DEF Perception!PerceptionTypes, Perception!Own
  <1>b. Perception!Own = 1 /\ Perception!Freed = -1 /\ Perception!Blank = 0
    BY DEF Perception!Own, Perception!Freed, Perception!Blank
  \* Between the steps: no answer yet, or one.
  <1>1. ASSUME s7'.how = "none", s4'.who # "search" \/ s4'.at \notin Perception!Asking
        PROVE  Perception!AnswerIsNamed' /\ Perception!FoundSoFar'
    BY <1>1, <1>a
    DEF Perception!AnswerIsNamed, Perception!FoundSoFar, Perception!Asking, Perception!PhasesOf, Perception!Readers
  <1>2. ASSUME s7'.how # "none", s4'.who = "search", s4'.at = "answered",
               s7'.how = "self" <=> Perception!Named(s1'[1], s7'.query),
               s7'.how = "exact" => s7'.place \in s10' \/ Perception!Named(s7'.id, s7'.query),
               s7'.how = "prefix" => s7'.place \in s10' \/ Perception!Begins(s7'.id, s7'.query),
               s7'.how \in {"prefix", "nobody"} => \A p \in Chunks \ s9' : ~Perception!Named(s1'[p], s7'.query),
               s7'.how = "nobody" => \A p \in (Chunks \ s9') \ {1} : ~Perception!Begins(s1'[p], s7'.query)
        PROVE  Perception!AnswerIsNamed' /\ Perception!FoundSoFar'
    BY <1>2 DEF Perception!AnswerIsNamed, Perception!FoundSoFar, Perception!Asking
  <1>3. ASSUME s7'.how = "none", s4'.who = "search", s4'.at \in Perception!Asking,
               ~Perception!Named(1, s7'.query),
               \A p \in Chunks \ s9' : (s4'.at = "scan" => p < s5'.next) /\ s1'[p] # -1 => p \in s5'.hits,
               s4'.at \in {"exact", "exact name"} =>
                   \A p \in Chunks \ s9' : p < s5'.next => ~Perception!Named(s1'[p], s7'.query),
               s4'.at \in {"prefix", "prefix name"} =>
                   \A p \in Chunks \ s9' :
                       ~Perception!Named(s1'[p], s7'.query) /\ (p < s5'.next /\ p # 1 => ~Perception!Begins(s1'[p], s7'.query)),
               s4'.at \in {"exact name", "prefix name"} =>
                   s5'.next \in Chunks /\ (s5'.next \notin s10' => s1'[s5'.next] \notin {-1, 0} /\ s5'.id = s1'[s5'.next])
        PROVE  Perception!AnswerIsNamed' /\ Perception!FoundSoFar'
    BY <1>3, <1>b
    DEF Perception!AnswerIsNamed, Perception!FoundSoFar, Perception!Asking, Perception!Calm, Perception!Vacant,
        Perception!Present
  <1>4. CASE UNCHANGED <<s1, s4, s5, s7, s9, s10>>
    BY <1>4
    DEF Perception!PerceptionInvariant, Perception!AnswerIsNamed, Perception!FoundSoFar, Perception!Calm,
        Perception!Vacant, Perception!Present
  \* Whoever else reads has no answer.
  <1>5. CASE s4.who # "search"
    <2>1. s7' = s7 /\ s4'.who # "search"
      <3>1. s4.at \notin Perception!Passes
        BY <1>5, SearchFacts
      <3>2. s7' = s7 /\ (s4' = s4 \/ \E at : s4' = [s4 EXCEPT !.at = at])
        BY <1>5, <3>1
        DEF Perception!Next, Perception!vars, Perception!Changes, Perception!Dies, Perception!Travels, Perception!Scans,
            Perception!Rescan, Perception!ReadsFields, Perception!ReadsNames, Perception!Refresh, Perception!RescanDue,
            Perception!Ask, Perception!ScanDone, Perception!ReadsId, Perception!NextPlace, Perception!PassEnds,
            Perception!Used, Perception!ReadsName, Perception!Frame, Perception!Acts, Perception!At, Perception!GoesTo
      <3> QED
        BY <1>0, <1>5, <3>2
    <2> QED
      BY <1>1, <1>5, <2>1, SearchFacts
  \* The heap goes on changing.
  <1>6. CASE s4.who = "search" /\ \E p \in Chunks : Perception!Changes(p)
    <2>1. PICK p \in Chunks : Perception!Changes(p)
      BY <1>6
    <2>2. s4' = s4 /\ s5' = s5 /\ s7' = s7 /\ s9' = s9 \cup {p}
          /\ s10' = IF s4.at \in {"idle", "scan", "answered"} THEN s10 ELSE s10 \cup {p}
      BY <1>6, <2>1 DEF Perception!Changes
    <2>3. p # 1 /\ \A q \in Chunks \ {p} : s1'[q] = s1[q]
      BY <2>1, OnePlaceChanges
    <2>4. s10 \subseteq s10' /\ (s4.at \notin {"idle", "scan", "answered"} => p \in s10')
      BY <2>2
    <2>5. \A q \in Chunks \ s9' : q \in Chunks \ s9 /\ s1'[q] = s1[q]
      BY <2>2, <2>3
    <2>6. s1'[1] = s1[1]
      BY <1>0, <2>3
    <2>7. CASE s7.how # "none"
      BY <1>2, <1>6, <2>2, <2>4, <2>5, <2>6, <2>7, SearchFacts
    <2>8. CASE s7.how = "none" /\ s4.at \notin Perception!Asking
      BY <1>1, <2>2, <2>8
    <2>9. CASE s4.at \in Perception!Asking
      <3>1. s4'.at \in {"exact name", "prefix name"} =>
                s5'.next \in Chunks /\ (s5'.next \notin s10' => s1'[s5'.next] \notin {-1, 0} /\ s5'.id = s1'[s5'.next])
        BY <2>2, <2>3, <2>4, SearchFacts
      <3>2. s7'.how = "none"
        BY <2>2, <2>9, SearchFacts DEF Perception!Asking
      <3>3. \A q \in Chunks \ s9' : (s4'.at = "scan" => q < s5'.next) /\ s1'[q] # -1 => q \in s5'.hits
        BY <1>6, <2>2, <2>5, <2>9, SearchFacts
      <3>4. s4'.at \in {"exact", "exact name"} =>
                \A q \in Chunks \ s9' : q < s5'.next => ~Perception!Named(s1'[q], s7'.query)
        BY <2>2, <2>5, SearchFacts
      <3>5. s4'.at \in {"prefix", "prefix name"} =>
                \A q \in Chunks \ s9' :
                    ~Perception!Named(s1'[q], s7'.query) /\ (q < s5'.next /\ q # 1 => ~Perception!Begins(s1'[q], s7'.query))
        BY <2>2, <2>5, SearchFacts
      <3> QED
        BY <1>3, <1>6, <2>2, <2>9, <3>1, <3>2, <3>3, <3>4, <3>5, SearchFacts
    <2> QED
      BY <2>7, <2>8, <2>9
  \* A question, and the scan.
  <1>7. CASE \E q \in Queries : Perception!Ask(q)
    <2>1. PICK q \in Queries : Perception!Ask(q)
      BY <1>7
    <2>2. s4.who = "search" /\ s9' = {} /\ s10' = {} /\ s1' = s1
      BY <2>1 DEF Perception!Ask, Perception!At
    <2>3. CASE Perception!Exactly(s1[1], q)
      <3>1. s7' = [query |-> q, how |-> "self", id |-> 1, place |-> 1] /\ s4' = [who |-> "search", at |-> "answered"]
        BY <1>0, <1>b, <2>1, <2>2, <2>3 DEF Perception!Ask, Perception!GoesTo
      <3> QED
        BY <1>2, <2>2, <2>3, <3>1 DEF Perception!Exactly, Perception!Named
    <2>4. CASE ~Perception!Exactly(s1[1], q)
      <3>1. s7' = [query |-> q, how |-> "none", id |-> 0, place |-> 1] /\ s4' = [who |-> "search", at |-> "scan"]
            /\ s5' = [next |-> 1, hits |-> {}, id |-> 0]
        BY <1>0, <1>b, <2>1, <2>2, <2>4 DEF Perception!Ask, Perception!GoesTo, Perception!NoSearch, Perception!NoScan
      <3>2. ~Perception!Named(1, q)
        BY <1>0, <2>4 DEF Perception!Exactly, Perception!Named
      <3>3. \A p \in Chunks : ~(p < 1)
        BY <1>0
      <3> QED
        BY <1>3, <3>1, <3>2, <3>3 DEF Perception!Asking
    <2> QED
      BY <2>3, <2>4
  <1>8. CASE s4.who = "search" /\ Perception!Scans
    <2>0. PICK read \in BOOLEAN :
              /\ s5' = [s5 EXCEPT !.next = @ + 1,
                                  !.hits = IF read /\ Perception!Present(s5.next) THEN @ \cup {s5.next} ELSE @]
              /\ s9' = IF read \/ s4.who # "search" THEN s9 ELSE s9 \cup {s5.next}
      BY <1>8 DEF Perception!Scans
    <2> DEFINE hits == IF read /\ Perception!Present(s5.next) THEN s5.hits \cup {s5.next} ELSE s5.hits
    <2>1. s5' = [next |-> s5.next + 1, hits |-> hits, id |-> s5.id]
      BY <1>0, <2>0
    <2>2. s4' = s4 /\ s7' = s7 /\ s10' = s10 /\ s1' = s1 /\ s4.at = "scan" /\ s9 \subseteq s9'
      BY <1>8, <2>0 DEF Perception!Scans
    <2>3. s5.hits \subseteq hits /\ (s5.next \notin s9' /\ s1[s5.next] # -1 => s5.next \in hits)
      BY <1>8, <1>b, <2>0 DEF Perception!Present
    <2> HIDE DEF hits
    <2>4. \A p \in Chunks \ s9' : p < s5'.next /\ s1'[p] # -1 => p \in s5'.hits
      <3>1. \A p \in Chunks : p < s5.next + 1 => p < s5.next \/ p = s5.next
        BY <1>0
      <3> QED
        BY <1>8, <2>1, <2>2, <2>3, <3>1, SearchFacts
    <2> QED
      BY <1>3, <1>8, <2>2, <2>4, SearchFacts DEF Perception!Asking
  <1>9. CASE Perception!ScanDone
    <2>1. /\ s4' = [who |-> "search", at |-> "exact"] /\ s4.who = "search" /\ s4.at = "scan"
          /\ s5' = [next |-> 1, hits |-> s5.hits, id |-> s5.id] /\ s5.next > Perception!Last
          /\ s7' = s7 /\ s9' = s9 /\ s10' = s10 /\ s1' = s1
      BY <1>0, <1>9 DEF Perception!ScanDone, Perception!At, Perception!GoesTo
    <2>2. \A p \in Chunks : p < s5.next /\ ~(p < 1)
      BY <1>0, <2>1
    <2> QED
      BY <1>3, <2>1, <2>2, SearchFacts DEF Perception!Asking
  \* A creature's id and then its names.
  <1>10. CASE s4.who = "search" /\ Perception!ReadsId
    <2>a. PICK left \in Perception!Left :
              s5' = [s5 EXCEPT !.id = IF s1[s5.next] = Perception!Blank THEN Perception!Blank
                                      ELSE Perception!StandsIn(s5.next, left)]
      BY <1>10 DEF Perception!ReadsId
    <2> DEFINE read == IF s1[s5.next] = Perception!Blank THEN Perception!Blank ELSE Perception!StandsIn(s5.next, left)
    <2>0. /\ s5' = [s5 EXCEPT !.id = read] /\ s7' = s7 /\ s9' = s9 /\ s1' = s1 /\ s5.next =< Perception!Last
          /\ s1[s5.next] \in {-1, 0} => s5.next \in s10'
      BY <1>10, <1>b, <2>a DEF Perception!ReadsId, Perception!Vacant
    <2>1. s5' = [next |-> s5.next, hits |-> s5.hits, id |-> read] /\ s5.next \in Chunks
      <3> HIDE DEF read
      <3> QED
        BY <1>0, <2>0
    <2>2. s1[s5.next] \notin {-1, 0} => read = s1[s5.next]
      BY <1>b DEF Perception!StandsIn, Perception!Vacant
    <2>3. (s4.at = "exact" /\ s4' = [who |-> "search", at |-> "exact name"])
          \/ (s4.at = "prefix" /\ s4' = [who |-> "search", at |-> "prefix name"])
      BY <1>0, <1>10 DEF Perception!ReadsId, Perception!Passes
    <2> HIDE DEF read
    <2>4. CASE s4.at = "exact"
      <3>1. s5'.next = s5.next /\ s5'.hits = s5.hits /\ s5'.id = read
        BY <2>1
      <3>2. s4' = [who |-> "search", at |-> "exact name"]
        BY <2>3, <2>4
      <3>3. s4'.who = "search" /\ s4'.at = "exact name" /\ s4'.at \in Perception!Asking
            /\ s4.at \in Perception!Asking \ {"scan"}
        BY <2>4, <3>2 DEF Perception!Asking
      <3> QED
        BY <1>3, <1>10, <2>0, <2>1, <2>2, <2>4, <3>1, <3>3, SearchFacts
    <2>5. CASE s4.at = "prefix"
      <3>1. s5'.next = s5.next /\ s5'.hits = s5.hits /\ s5'.id = read
        BY <2>1
      <3>2. s4' = [who |-> "search", at |-> "prefix name"]
        BY <2>3, <2>5
      <3>3. s4'.who = "search" /\ s4'.at = "prefix name" /\ s4'.at \in Perception!Asking
            /\ s4.at \in Perception!Asking \ {"scan"}
        BY <2>5, <3>2 DEF Perception!Asking
      <3> QED
        BY <1>3, <1>10, <2>0, <2>1, <2>2, <2>5, <3>1, <3>3, SearchFacts
    <2> QED
      BY <2>3, <2>4, <2>5
  <1>11. CASE Perception!ReadsName("exact")
    <2>1. /\ s4.who = "search" /\ s4.at = "exact name" /\ s9' = s9 /\ s10' = s10 /\ s1' = s1
      BY <1>11 DEF Perception!ReadsName, Perception!At
    <2>a. PICK left \in Perception!Left :
              IF Perception!Exactly(Perception!StandsIn(s5.next, left), s7.query) THEN Perception!Answers("exact", s5.id)
              ELSE Perception!GoesTo("exact") /\ s5' = [s5 EXCEPT !.next = @ + 1] /\ UNCHANGED s7
      BY <1>11 DEF Perception!ReadsName, Perception!Fits
    <2> DEFINE there == Perception!StandsIn(s5.next, left)
    <2>b. s1[s5.next] \notin {-1, 0} => there = s1[s5.next]
      BY <1>b DEF Perception!StandsIn, Perception!Vacant
    <2>c. \A c, q : c \in {-1, 0} => ~Perception!Named(c, q) /\ ~Perception!Begins(c, q)
      BY <1>b DEF Perception!Named, Perception!Begins
    <2>2. CASE Perception!Exactly(there, s7.query)
      <3>1. /\ s7' = [query |-> s7.query, how |-> "exact", id |-> s5.id, place |-> s5.next]
            /\ s4' = [who |-> "search", at |-> "answered"]
        BY <1>0, <2>a, <2>1, <2>2 DEF Perception!Answers, Perception!GoesTo
      <3>2. s5.next \in s10 \/ Perception!Named(s5.id, s7.query)
        BY <2>1, <2>b, <2>2, SearchFacts DEF Perception!Exactly, Perception!Named
      <3>3. ~Perception!Named(s1'[1], s7.query)
        BY <2>1, SearchFacts DEF Perception!Asking
      <3> QED
        BY <1>2, <2>1, <3>1, <3>2, <3>3
    <2>3. CASE ~Perception!Exactly(there, s7.query)
      <3>1. /\ s5' = [next |-> s5.next + 1, hits |-> s5.hits, id |-> s5.id] /\ s7' = s7
            /\ s4' = [who |-> "search", at |-> "exact"]
        BY <1>0, <2>a, <2>1, <2>3 DEF Perception!GoesTo
      <3>2. \A p \in Chunks : p < s5.next + 1 => p < s5.next \/ p = s5.next
        BY <1>0
      <3>3. ~Perception!Named(s1[s5.next], s7.query)
        BY <2>3, <2>b, <2>c DEF Perception!Exactly, Perception!Named
      <3> QED
        BY <1>3, <2>1, <3>1, <3>2, <3>3, SearchFacts DEF Perception!Asking
    <2> QED
      BY <2>2, <2>3
  <1>12. CASE Perception!ReadsName("prefix")
    <2>1. /\ s4.who = "search" /\ s4.at = "prefix name" /\ s9' = s9 /\ s10' = s10 /\ s1' = s1
      BY <1>12 DEF Perception!ReadsName, Perception!At
    <2>a. PICK left \in Perception!Left :
              IF Perception!Begins(Perception!StandsIn(s5.next, left), s7.query) THEN Perception!Answers("prefix", s5.id)
              ELSE Perception!GoesTo("prefix") /\ s5' = [s5 EXCEPT !.next = @ + 1] /\ UNCHANGED s7
      BY <1>12 DEF Perception!ReadsName, Perception!Fits
    <2> DEFINE there == Perception!StandsIn(s5.next, left)
    <2>b. s1[s5.next] \notin {-1, 0} => there = s1[s5.next]
      BY <1>b DEF Perception!StandsIn, Perception!Vacant
    <2>c. \A c, q : c \in {-1, 0} => ~Perception!Named(c, q) /\ ~Perception!Begins(c, q)
      BY <1>b DEF Perception!Named, Perception!Begins
    <2>2. CASE Perception!Begins(there, s7.query)
      <3>1. /\ s7' = [query |-> s7.query, how |-> "prefix", id |-> s5.id, place |-> s5.next]
            /\ s4' = [who |-> "search", at |-> "answered"]
        BY <1>0, <2>a, <2>1, <2>2 DEF Perception!Answers, Perception!GoesTo
      <3>2. s5.next \in s10 \/ Perception!Begins(s5.id, s7.query)
        BY <2>1, <2>b, <2>2, SearchFacts
      <3>3. ~Perception!Named(s1'[1], s7.query)
        BY <2>1, SearchFacts DEF Perception!Asking
      <3> QED
        BY <1>2, <2>1, <3>1, <3>2, <3>3, SearchFacts
    <2>3. CASE ~Perception!Begins(there, s7.query)
      <3>1. /\ s5' = [next |-> s5.next + 1, hits |-> s5.hits, id |-> s5.id] /\ s7' = s7
            /\ s4' = [who |-> "search", at |-> "prefix"]
        BY <1>0, <2>a, <2>1, <2>3 DEF Perception!GoesTo
      <3>2. \A p \in Chunks : p < s5.next + 1 => p < s5.next \/ p = s5.next
        BY <1>0
      <3>3. ~Perception!Begins(s1[s5.next], s7.query)
        BY <2>3, <2>b, <2>c
      <3> QED
        BY <1>3, <2>1, <3>1, <3>2, <3>3, SearchFacts DEF Perception!Asking
    <2> QED
      BY <2>2, <2>3
  \* A place that is passed over: nobody is there, or the player.
  <1>13. CASE s4.who = "search" /\ Perception!NextPlace
    <2>1. /\ s5' = [next |-> s5.next + 1, hits |-> s5.hits, id |-> s5.id] /\ s7' = s7 /\ s4' = s4
          /\ s9' = s9 /\ s10' = s10 /\ s1' = s1 /\ s4.at \in {"exact", "prefix"}
      BY <1>0, <1>13 DEF Perception!NextPlace, Perception!Passes
    <2>2. \A p \in Chunks : p < s5.next + 1 => p < s5.next \/ p = s5.next
      BY <1>0
    <2>3. s5.next \notin s5.hits \/ s5.next = 1
      BY <1>13 DEF Perception!NextPlace, Perception!Skipped
    <2>4. \A c, q : c = -1 => ~Perception!Named(c, q) /\ ~Perception!Begins(c, q)
      BY <1>b DEF Perception!Named, Perception!Begins
    <2>5. s4.at \in Perception!Asking \ {"scan"}
      BY <2>1 DEF Perception!Asking
    <2>6. \A p \in Chunks \ s9 : p = s5.next =>
              /\ ~Perception!Named(s1[p], s7.query)
              /\ p # 1 => ~Perception!Begins(s1[p], s7.query)
      BY <1>13, <2>3, <2>4, <2>5, SearchFacts
    <2> QED
      BY <1>3, <1>13, <2>1, <2>2, <2>5, <2>6, SearchFacts
  <1>14. CASE s4.who = "search" /\ Perception!PassEnds
    <2>1. /\ s9' = s9 /\ s10' = s10 /\ s1' = s1 /\ s4.at \in {"exact", "prefix"} /\ s5.next > Perception!Last
      BY <1>14 DEF Perception!PassEnds, Perception!Passes
    <2>2. \A p \in Chunks : p < s5.next /\ ~(p < 1)
      BY <1>0, <2>1
    <2>3. s4.at \in Perception!Asking \ {"scan"}
      BY <2>1 DEF Perception!Asking
    <2>4. CASE s4.at = "exact"
      <3>1. s4' = [who |-> "search", at |-> "prefix"] /\ s5' = [next |-> 1, hits |-> s5.hits, id |-> s5.id] /\ s7' = s7
        BY <1>0, <1>14, <2>4 DEF Perception!PassEnds, Perception!GoesTo
      <3>2. s4'.at \in Perception!Asking
        BY <3>1 DEF Perception!Asking
      <3> QED
        BY <1>3, <1>14, <2>1, <2>2, <2>3, <2>4, <3>1, <3>2, SearchFacts
    <2>5. CASE s4.at = "prefix"
      <3>1. /\ s7' = [query |-> s7.query, how |-> "nobody", id |-> 0, place |-> s5.next]
            /\ s4' = [who |-> "search", at |-> "answered"]
        BY <1>0, <1>b, <1>14, <2>1, <2>5 DEF Perception!PassEnds, Perception!Answers, Perception!GoesTo
      <3> QED
        BY <1>2, <1>14, <2>1, <2>2, <2>3, <2>5, <3>1, SearchFacts
    <2> QED
      BY <2>1, <2>4, <2>5
  <1>15. CASE Perception!Used
    <2>1. s7' = [query |-> "none", how |-> "none", id |-> 0, place |-> 1] /\ s4' = [who |-> "search", at |-> "idle"]
      BY <1>0, <1>b, <1>15 DEF Perception!Used, Perception!At, Perception!GoesTo, Perception!NoSearch
    <2> QED
      BY <1>1, <2>1 DEF Perception!Asking
  <1>16. s4.who = "search" =>
             \/ \E p \in Chunks : Perception!Changes(p)
             \/ UNCHANGED <<s1, s4, s5, s7, s9, s10>>
             \/ \E q \in Queries : Perception!Ask(q)
             \/ Perception!Scans \/ Perception!ScanDone \/ Perception!ReadsId \/ Perception!NextPlace
             \/ Perception!PassEnds \/ Perception!Used
             \/ Perception!ReadsName("exact") \/ Perception!ReadsName("prefix")
    BY DEF Perception!Next, Perception!vars, Perception!Dies, Perception!Travels, Perception!Rescan,
           Perception!ReadsFields, Perception!ReadsNames, Perception!Refresh, Perception!RescanDue, Perception!Frame,
           Perception!Acts, Perception!At
  <1> QED
    BY <1>4, <1>5, <1>6, <1>7, <1>8, <1>9, <1>10, <1>11, <1>12, <1>13, <1>14, <1>15, <1>16

LEMMA PerceptionKeeps ==
    ASSUME Perception!PerceptionAssumption, Perception!PerceptionInvariant, [Perception!Next]_(Perception!vars)
    PROVE  Perception!PerceptionInvariant' /\ Perception!PortalsWereWalked
  BY PerceptionTypesKeep, NamesKeep, WalksKeep, SearchKeeps DEF Perception!PerceptionInvariant

-----------------------------------------------------------------------------
(***************************************************************************)
(* HuntPlan, its targets: s1 to s4 are seen, failed, attackers, hpDropped.      *)
(***************************************************************************)

\* Of finitely many that stand in an order one is the first.
LEMMA FirstOf ==
    ASSUME NEW S, IsFiniteSet(S), S # {}, NEW R,
           \A a \in S : <<a, a>> \notin R,
           \A a, b, c \in S : <<a, b>> \in R /\ <<b, c>> \in R => <<a, c>> \in R,
           \A a, b \in S : a # b => <<a, b>> \in R \/ <<b, a>> \in R
    PROVE  \E first \in S : \A o \in S \ {first} : <<first, o>> \in R
  <1> DEFINE Ahead(c) == {o \in S : <<o, c>> \in R}
             crowds == {Ahead(c) : c \in S}
             order == StrictSubsetOrdering(S)
  <1>1. IsWellFoundedOn(order, SUBSET S)
    BY FS_StrictSubsetOrderingWellFounded, FS_FiniteSubsetsOfFinite
  <1>2. crowds \subseteq SUBSET S /\ crowds # {}
    <2>1. PICK c : c \in S
      OBVIOUS
    <2>2. Ahead(c) \in crowds
      BY <2>1
    <2> QED
      BY <2>2
  <1>3. PICK x \in crowds : \A y \in crowds : <<y, x>> \notin order
    <2> HIDE DEF crowds, order
    <2> QED
      BY <1>1, <1>2, WFMin
  <1>4. PICK first \in S : x = Ahead(first)
    OBVIOUS
  <1>5. ASSUME NEW o \in S \ {first} PROVE <<first, o>> \in R
    <2> SUFFICES ASSUME <<o, first>> \in R PROVE FALSE
      OBVIOUS
    <2>1. Ahead(o) \subseteq Ahead(first) /\ o \in Ahead(first) /\ o \notin Ahead(o)
      OBVIOUS
    <2>2. Ahead(o) # Ahead(first) /\ Ahead(o) \in SUBSET S /\ Ahead(first) \in SUBSET S /\ Ahead(o) \in crowds
      BY <2>1
    <2>3. <<Ahead(o), Ahead(first)>> \in order
      <3> HIDE DEF Ahead, crowds
      <3> QED
        BY <2>1, <2>2, Zenon DEF StrictSubsetOrdering
    <2> QED
      <3> HIDE DEF order, crowds
      <3> QED
        BY <1>3, <1>4, <2>2, <2>3
  <1> QED
    BY <1>5

LEMMA PlanBegins ==
    ASSUME Plan!PlanAssumption, Plan!Init PROVE Plan!PlanInvariant
  BY DEF Plan!Init, Plan!PlanInvariant

LEMMA PlanKeeps ==
    ASSUME Plan!PlanAssumption, Plan!PlanInvariant, [Plan!Next]_(Plan!vars)
    PROVE  Plan!PlanInvariant'
  <1> USE DEF Plan!PlanInvariant
  <1>1. CASE UNCHANGED <<s1, s2, s3, s4>>
    BY <1>1
  <1>2. CASE \E cause \in {"Unreachable", "AttackRejected"} : Plan!Fails(cause)
    BY <1>2 DEF Plan!Fails, Plan!exploreVars
  <1>3. CASE \E m \in Monsters : Plan!Expires(m) \/ Plan!Moves(m)
    BY <1>3 DEF Plan!Expires, Plan!Moves, Plan!exploreVars
  <1>4. CASE Plan!Attacks
    BY <1>4 DEF Plan!Attacks, Plan!exploreVars
  <1>5. CASE Plan!Hurts
    BY <1>5 DEF Plan!Hurts, Plan!exploreVars
  <1> QED
    BY <1>1, <1>2, <1>3, <1>4, <1>5
    DEF Plan!Next, Plan!vars, Plan!planVars, Plan!Tick, Plan!Walks, Plan!Stuck, Plan!Clears, Plan!Forgives

\* What the assumption and the invariant say of a monster.
LEMMA MonsterFacts ==
    ASSUME Plan!PlanAssumption, Plan!PlanInvariant, NEW m \in Monsters
    PROVE  /\ m \in Nat \ {0} /\ IsFiniteSet(Monsters)
           /\ s1[m] = [class |-> s1[m].class, dying |-> s1[m].dying, named |-> s1[m].named, found |-> s1[m].found,
                       distance |-> s1[m].distance, clear |-> s1[m].clear, way |-> s1[m].way]
           /\ s1[m].distance \in Nat /\ s1[m].way \in Nat \cup {-1}
           /\ s1[m].clear \in BOOLEAN /\ s1[m].found \in BOOLEAN
           /\ s2[m] \in {"none", "Unreachable", "AttackRejected"}
           /\ Local \in Nat /\ 1 =< Local /\ AttackReach \in Nat \ {0} /\ Plan!Melee = 1 /\ Plan!NoWay = -1 /\ Plan!Nobody = 0
  <1>1. s1[m] \in Plan!Fact
    BY DEF Plan!PlanInvariant, Plan!PlanAssumption
  <1>2. Plan!Melee = 1 /\ Plan!NoWay = -1 /\ Plan!Nobody = 0
    BY DEF Plan!Melee, Plan!NoWay, Plan!Nobody
  <1>3. /\ s1[m] = [class |-> s1[m].class, dying |-> s1[m].dying, named |-> s1[m].named, found |-> s1[m].found,
                    distance |-> s1[m].distance, clear |-> s1[m].clear, way |-> s1[m].way]
        /\ s1[m].distance \in Nat /\ s1[m].way \in Nat \cup {-1}
        /\ s1[m].clear \in BOOLEAN /\ s1[m].found \in BOOLEAN
    BY <1>1, <1>2 DEF Plan!Fact
  <1>4. m \in Nat \ {0} /\ IsFiniteSet(Monsters) /\ Local \in Nat /\ 1 =< Local /\ AttackReach \in Nat \ {0}
    <2>1. Monsters \subseteq Nat \ {Plan!Nobody} /\ IsFiniteSet(Monsters)
      BY DEF Plan!PlanAssumption, Plan!IsFiniteSet, IsFiniteSet
    <2>2. {HuntRange, Local, MaxFailed} \subseteq Nat /\ AttackReach \in Nat \ {0} /\ Plan!Melee =< Local
      BY DEF Plan!PlanAssumption
    <2> QED
      BY <1>2, <2>1, <2>2
  <1>5. s2[m] \in {"none", "Unreachable", "AttackRejected"}
    BY DEF Plan!PlanInvariant
  <1> QED
    BY <1>2, <1>3, <1>4, <1>5

-----------------------------------------------------------------------------
\* A candidate, in numbers.
LEMMA CandidateFacts ==
    ASSUME Plan!PlanAssumption, Plan!PlanInvariant, NEW m \in Monsters
    PROVE  LET c == Plan!CandidateOf(m) IN
           /\ c.id = m /\ c.distance = s1[m].distance /\ c.inRange = Plan!InRange(m) /\ c.way = Plan!Way(m)
           /\ c.attacker = (m \in Plan!Attackers) /\ c.found = s1[m].found
           /\ c.way \in Nat \cup {-1} /\ c.distance \in Nat
           /\ c.inRange => c.way = 0
           /\ c.distance =< 1 /\ ~c.inRange => c.way = -1
  <1> DEFINE in == Plan!InRange(m)
             way == Plan!Way(m)
             attacks == m \in Plan!Attackers
             c == Plan!CandidateOf(m)
  <1>1. c = [id |-> m, distance |-> s1[m].distance, inRange |-> in, way |-> way, attacker |-> attacks, found |-> s1[m].found]
    BY DEF Plan!CandidateOf
  <1>0. /\ s1[m].way \in Nat \cup {-1} /\ Plan!NoWay = -1 /\ Plan!Melee = 1 /\ AttackReach \in Nat \ {0}
        /\ s1[m].distance \in Nat
    BY MonsterFacts
  <1>2. way \in Nat \cup {-1}
    BY <1>0 DEF Plan!Way
  <1>3. in => way = 0
    BY DEF Plan!Way
  <1>4. s1[m].distance =< 1 /\ ~in => way = -1
    BY <1>0 DEF Plan!Way
  <1>5. s1[m].distance \in Nat
    BY MonsterFacts
  <1> HIDE DEF in, way, attacks, c
  <1>6. /\ c.id = m /\ c.distance = s1[m].distance /\ c.inRange = in /\ c.way = way
        /\ c.attacker = attacks /\ c.found = s1[m].found
    BY <1>1
  <1>7. /\ c.way \in Nat \cup {-1} /\ c.distance \in Nat
        /\ c.inRange => c.way = 0
        /\ c.distance =< 1 /\ ~c.inRange => c.way = -1
    BY <1>2, <1>3, <1>4, <1>5, <1>6
  <1> QED
    BY <1>6, <1>7 DEF c, in, way, attacks
-----------------------------------------------------------------------------
(* How candidates are compared: by six numbers.                             *)

LEMMA Joined ==
    ASSUME NEW s \in Seq(Int), NEW t \in Seq(Int)
    PROVE  \A i \in 1..Len(s) + Len(t) : (s \o t)[i] = IF i =< Len(s) THEN s[i] ELSE t[i - Len(s)]
  OBVIOUS

LEMMA SixInARow ==
    ASSUME NEW a \in Int, NEW b \in Int, NEW c \in Int, NEW d \in Int, NEW e \in Int, NEW f \in Int
    PROVE  LET k == <<a>> \o <<b, c>> \o <<d, e, f>> IN
           k[1] = a /\ k[2] = b /\ k[3] = c /\ k[4] = d /\ k[5] = e /\ k[6] = f
  <1> DEFINE s == <<a>> \o <<b, c>>
             t == <<d, e, f>>
             n == Len(s)
             all == Len(s) + Len(t)
             k == s \o t
  <1>1. s \in Seq(Int) /\ t \in Seq(Int) /\ Len(s) = 3 /\ Len(t) = 3
    OBVIOUS
  <1>2. s[1] = a /\ s[2] = b /\ s[3] = c /\ t[1] = d /\ t[2] = e /\ t[3] = f
    OBVIOUS
  <1> HIDE DEF s, t
  <1>3. n = 3 /\ all = 6
    BY <1>1
  <1>4. \A i \in 1..all : k[i] = IF i =< n THEN s[i] ELSE t[i - n]
    BY <1>1, Joined, Zenon
  <1> HIDE DEF n, all, k
  <1>5. \A i \in 1..6 : k[i] = IF i =< 3 THEN s[i] ELSE t[i - 3]
    BY <1>3, <1>4
  <1>6. k[1] = s[1] /\ k[2] = s[2] /\ k[3] = s[3] /\ k[4] = t[1] /\ k[5] = t[2] /\ k[6] = t[3]
    BY <1>5
  <1> QED
    BY <1>2, <1>6 DEF k, s, t

LessThan(x, y) == \E i \in 1..6 : x[i] < y[i] /\ \A j \in 1..i - 1 : x[j] = y[j]
SixNumbers == [1..6 -> Int]

LEMMA LessThanIs ==
    ASSUME NEW x, NEW y, \A i \in 1..6 : x[i] \in Int /\ y[i] \in Int
    PROVE  LessThan(x, y) <=>
             \/ x[1] < y[1]
             \/ x[1] = y[1] /\ (\/ x[2] < y[2]
                                \/ x[2] = y[2] /\ (\/ x[3] < y[3]
                                                   \/ x[3] = y[3] /\ (\/ x[4] < y[4]
                                                                      \/ x[4] = y[4] /\ (\/ x[5] < y[5]
                                                                                         \/ x[5] = y[5] /\ x[6] < y[6]))))
  <1>1. 1..6 = {1, 2, 3, 4, 5, 6} /\ 1..0 = {} /\ 1..1 = {1} /\ 1..2 = {1, 2} /\ 1..3 = {1, 2, 3} /\ 1..4 = {1, 2, 3, 4}
        /\ 1..5 = {1, 2, 3, 4, 5}
    OBVIOUS
  <1>2. /\ 1 - 1 = 0 /\ 2 - 1 = 1 /\ 3 - 1 = 2 /\ 4 - 1 = 3 /\ 5 - 1 = 4 /\ 6 - 1 = 5
    OBVIOUS
  <1> QED
    BY <1>1, <1>2 DEF LessThan

LEMMA LessThanOrders ==
    ASSUME NEW x \in SixNumbers, NEW y \in SixNumbers, NEW z \in SixNumbers
    PROVE  /\ ~(LessThan(x, y) /\ LessThan(y, x))
           /\ x[6] # y[6] => LessThan(x, y) \/ LessThan(y, x)
           /\ LessThan(x, y) /\ LessThan(y, z) => LessThan(x, z)
  <1>1. \A i \in 1..6 : x[i] \in Int /\ y[i] \in Int /\ z[i] \in Int
    BY DEF SixNumbers
  <1> QED
    BY <1>1, LessThanIs

\* In the bands of the near ones, and of those in range, the distance counts first
\* and then the way, whoever they are compared with; in the others the way first.
Num(m) ==
    LET c == Plan!CandidateOf(m)
        band == Plan!PriorityBand(c)
        cost == Plan!ApproachCost(c)
    IN  [i \in 1..6 |->
            CASE i = 1 -> band
              [] i = 2 -> IF band \in {4, 5} THEN cost ELSE c.distance
              [] i = 3 -> IF band \in {4, 5} THEN c.distance ELSE cost
              [] i = 4 -> Plan!Bit(c.attacker)
              [] i = 5 -> Plan!Bit(c.inRange)
              [] OTHER -> m]

LEMMA BandFacts ==
    ASSUME Plan!PlanAssumption, Plan!PlanInvariant, NEW m \in Monsters, Plan!Actionable(Plan!CandidateOf(m))
    PROVE  LET c == Plan!CandidateOf(m)
               band == Plan!PriorityBand(c)
               cost == Plan!ApproachCost(c)
           IN  /\ band \in 0..5 /\ cost \in Nat /\ c.distance \in Nat /\ m \in Nat
               /\ band = 0 <=> Plan!CounterattackableAdjacent(c)
               /\ band = 1 => c.inRange
               /\ c.inRange => cost = 0
               /\ Plan!InRange(m) => band =< 1
               /\ band \in {0, 2, 3} => Plan!IsLocal(c)
               /\ band \in {4, 5} => ~Plan!IsLocal(c)
               /\ Plan!Bit(c.attacker) \in Int /\ Plan!Bit(c.inRange) \in Int
  <1> DEFINE c == Plan!CandidateOf(m)
             near == Plan!CounterattackableAdjacent(c)
             reachable == Plan!Reachable(c)
             local == Plan!IsLocal(c)
             band == Plan!PriorityBand(c)
             cost == Plan!ApproachCost(c)
  <1>1. /\ c.way \in Nat \cup {-1} /\ c.distance \in Nat /\ m \in Nat
        /\ c.inRange => c.way = 0
        /\ Plan!InRange(m) => c.inRange
    BY CandidateFacts, MonsterFacts
  <1>2. Plan!NoWay = -1 /\ Plan!Melee = 1 /\ Local \in Nat /\ 1 =< Local
    BY MonsterFacts
  <1>3. near \/ reachable
    BY DEF Plan!Actionable
  <1>4. near => local
    BY <1>1, <1>2 DEF Plan!CounterattackableAdjacent, Plan!IsLocal
  <1>5. c.inRange => reachable
    BY <1>1, <1>2 DEF Plan!Reachable
  <1>6. /\ band = IF near THEN 0 ELSE IF c.inRange THEN 1
                  ELSE (IF local THEN 2 ELSE 4) + Plan!Bit(c.attacker)
    BY <1>3, <1>5 DEF Plan!PriorityBand
  <1>7. cost \in Nat /\ (c.inRange => cost = 0)
    BY <1>1, <1>2 DEF Plan!ApproachCost, Plan!Reachable, Plan!Endless
  <1>8. Plan!Bit(c.attacker) \in {0, 1} /\ Plan!Bit(c.inRange) \in {0, 1}
    BY DEF Plan!Bit
  <1> HIDE DEF c, near, reachable, local, band, cost
  <1>9. /\ band \in 0..5 /\ (band = 0 <=> near) /\ (band = 1 => c.inRange) /\ (Plan!InRange(m) => band =< 1)
        /\ (band \in {0, 2, 3} => local) /\ (band \in {4, 5} => ~local)
    BY <1>1, <1>3, <1>4, <1>5, <1>6, <1>8
  <1> QED
    BY <1>1, <1>7, <1>8, <1>9 DEF c, near, reachable, local, band, cost

LEMMA NumFacts ==
    ASSUME Plan!PlanAssumption, Plan!PlanInvariant, NEW m \in Monsters, Plan!Actionable(Plan!CandidateOf(m))
    PROVE  LET c == Plan!CandidateOf(m)
               band == Plan!PriorityBand(c)
               cost == Plan!ApproachCost(c)
           IN  /\ Num(m) \in SixNumbers
               /\ Num(m)[1] = band
               /\ Num(m)[2] = IF band \in {4, 5} THEN cost ELSE c.distance
               /\ Num(m)[3] = IF band \in {4, 5} THEN c.distance ELSE cost
               /\ Num(m)[4] = Plan!Bit(c.attacker)
               /\ Num(m)[5] = Plan!Bit(c.inRange)
               /\ Num(m)[6] = m
  <1> DEFINE c == Plan!CandidateOf(m)
             band == Plan!PriorityBand(c)
             cost == Plan!ApproachCost(c)
             hits == Plan!Bit(c.attacker)
             in == Plan!Bit(c.inRange)
             distance == c.distance
  <1>1. Num(m) = [i \in 1..6 |->
                    CASE i = 1 -> band
                      [] i = 2 -> IF band \in {4, 5} THEN cost ELSE distance
                      [] i = 3 -> IF band \in {4, 5} THEN distance ELSE cost
                      [] i = 4 -> hits
                      [] i = 5 -> in
                      [] OTHER -> m]
    BY DEF Num
  <1>2. band \in Int /\ cost \in Int /\ distance \in Int /\ hits \in Int /\ in \in Int /\ m \in Int
    BY BandFacts
  <1> HIDE DEF c, band, cost, hits, in, distance
  <1>3. /\ Num(m)[1] = band
        /\ Num(m)[2] = IF band \in {4, 5} THEN cost ELSE distance
        /\ Num(m)[3] = IF band \in {4, 5} THEN distance ELSE cost
        /\ Num(m)[4] = hits /\ Num(m)[5] = in /\ Num(m)[6] = m
    BY <1>1
  <1>4. Num(m) \in SixNumbers
    BY <1>1, <1>2 DEF SixNumbers
  <1> QED
    BY <1>3, <1>4 DEF c, band, cost, hits, in, distance

\* Before, then, is one order of numbers.
LEMMA BeforeIsLess ==
    ASSUME Plan!PlanAssumption, Plan!PlanInvariant, NEW m \in Monsters, NEW o \in Monsters,
           Plan!Actionable(Plan!CandidateOf(m)), Plan!Actionable(Plan!CandidateOf(o))
    PROVE  Plan!Before(Plan!CandidateOf(m), Plan!CandidateOf(o)) <=> LessThan(Num(m), Num(o))
  <1> DEFINE a == Plan!CandidateOf(m)
             b == Plan!CandidateOf(o)
             near == Plan!IsLocal(a) /\ Plan!IsLocal(b)
             Lengths(c) == IF near THEN <<c.distance, Plan!ApproachCost(c)>> ELSE <<Plan!ApproachCost(c), c.distance>>
             K(c) == <<Plan!PriorityBand(c)>> \o Lengths(c) \o <<Plan!Bit(c.attacker), Plan!Bit(c.inRange), c.id>>
             x == K(a)
             y == K(b)
  <1>1. Plan!Before(a, b) <=> LessThan(x, y)
    BY DEF Plan!Before, Plan!Keys, LessThan
  <1> DEFINE ba == Plan!PriorityBand(a)
             bb == Plan!PriorityBand(b)
             ca == Plan!ApproachCost(a)
             cb == Plan!ApproachCost(b)
             da == a.distance
             db == b.distance
             ta == Plan!Bit(a.attacker)
             tb == Plan!Bit(b.attacker)
             ia == Plan!Bit(a.inRange)
             ib == Plan!Bit(b.inRange)
  <1>2. /\ ba \in 0..5 /\ ca \in Nat /\ da \in Nat /\ ta \in Int /\ ia \in Int /\ m \in Nat /\ a.id = m
        /\ bb \in 0..5 /\ cb \in Nat /\ db \in Nat /\ tb \in Int /\ ib \in Int /\ o \in Nat /\ b.id = o
    BY BandFacts, CandidateFacts
  <1>3. /\ ba = 1 => ca = 0
        /\ bb = 1 => cb = 0
        /\ ba \in {0, 2, 3} /\ bb \in {0, 2, 3} => near
        /\ ba \in {4, 5} => ~near
    BY BandFacts
  <1>4. /\ x[1] = ba /\ x[4] = ta /\ x[5] = ia /\ x[6] = m
        /\ x[2] = (IF near THEN da ELSE ca) /\ x[3] = (IF near THEN ca ELSE da)
    <2>1. CASE near
      <3>1. x = <<ba>> \o <<da, ca>> \o <<ta, ia, m>>
        BY <1>2, <2>1
      <3> HIDE DEF a, x, ba, ca, da, ta, ia, near
      <3> QED
        BY <1>2, <2>1, <3>1, SixInARow
    <2>2. CASE ~near
      <3>1. x = <<ba>> \o <<ca, da>> \o <<ta, ia, m>>
        BY <1>2, <2>2
      <3> HIDE DEF a, x, ba, ca, da, ta, ia, near
      <3> QED
        BY <1>2, <2>2, <3>1, SixInARow
    <2> QED
      BY <2>1, <2>2
  <1>5. /\ y[1] = bb /\ y[4] = tb /\ y[5] = ib /\ y[6] = o
        /\ y[2] = (IF near THEN db ELSE cb) /\ y[3] = (IF near THEN cb ELSE db)
    <2>1. CASE near
      <3>1. y = <<bb>> \o <<db, cb>> \o <<tb, ib, o>>
        BY <1>2, <2>1
      <3> HIDE DEF b, y, bb, cb, db, tb, ib, near
      <3> QED
        BY <1>2, <2>1, <3>1, SixInARow
    <2>2. CASE ~near
      <3>1. y = <<bb>> \o <<cb, db>> \o <<tb, ib, o>>
        BY <1>2, <2>2
      <3> HIDE DEF b, y, bb, cb, db, tb, ib, near
      <3> QED
        BY <1>2, <2>2, <3>1, SixInARow
    <2> QED
      BY <2>1, <2>2
  <1> DEFINE u == Num(m)
             v == Num(o)
  <1>6. /\ u[1] = ba /\ u[4] = ta /\ u[5] = ia /\ u[6] = m
        /\ u[2] = (IF ba \in {4, 5} THEN ca ELSE da) /\ u[3] = (IF ba \in {4, 5} THEN da ELSE ca)
        /\ v[1] = bb /\ v[4] = tb /\ v[5] = ib /\ v[6] = o
        /\ v[2] = (IF bb \in {4, 5} THEN cb ELSE db) /\ v[3] = (IF bb \in {4, 5} THEN db ELSE cb)
    BY NumFacts
  <1> HIDE DEF a, b, near, x, y, u, v, ba, bb, ca, cb, da, db, ta, tb, ia, ib
  <1>7. \A i \in 1..6 : x[i] \in Int /\ y[i] \in Int /\ u[i] \in Int /\ v[i] \in Int
    BY <1>2, <1>4, <1>5, <1>6
  <1>8. LessThan(x, y) <=> LessThan(u, v)
    <2>1. CASE ba # bb
      BY <1>2, <1>4, <1>5, <1>6, <1>7, <2>1, LessThanIs
    <2>2. CASE ba = bb /\ ba = 1
      BY <1>2, <1>3, <1>4, <1>5, <1>6, <1>7, <2>2, LessThanIs
    <2>3. CASE ba = bb /\ ba \in {0, 2, 3}
      BY <1>2, <1>3, <1>4, <1>5, <1>6, <1>7, <2>3, LessThanIs
    <2>4. CASE ba = bb /\ ba \in {4, 5}
      BY <1>2, <1>3, <1>4, <1>5, <1>6, <1>7, <2>4, LessThanIs
    <2> QED
      BY <1>2, <2>1, <2>2, <2>3, <2>4
  <1> QED
    BY <1>1, <1>8 DEF a, b, u, v

-----------------------------------------------------------------------------
(* What the plan promises.                                                 *)

\* The monsters behind the candidates.
Hunted == {m \in Plan!Targets : Plan!ShouldConsider(m) /\ Plan!Actionable(Plan!CandidateOf(m))}

LEMMA HuntedFacts ==
    ASSUME Plan!PlanAssumption, Plan!PlanInvariant
    PROVE  /\ Hunted \subseteq Monsters /\ IsFiniteSet(Hunted)
           /\ Plan!CandidateSet = {Plan!CandidateOf(m) : m \in Hunted}
           /\ \A m \in Hunted : Plan!Actionable(Plan!CandidateOf(m)) /\ Plan!CandidateOf(m).id = m
  <1>1. Hunted \subseteq Monsters
    BY DEF Hunted, Plan!Targets
  <1>2. IsFiniteSet(Monsters)
    BY DEF Plan!PlanAssumption, Plan!IsFiniteSet, IsFiniteSet
  <1>3. IsFiniteSet(Hunted)
    BY <1>1, <1>2, FS_Subset
  <1>4. Plan!CandidateSet = {Plan!CandidateOf(m) : m \in Hunted}
    BY DEF Plan!CandidateSet, Hunted
  <1>5. \A m \in Hunted : Plan!Actionable(Plan!CandidateOf(m)) /\ Plan!CandidateOf(m).id = m
    BY <1>1, CandidateFacts DEF Hunted
  <1> QED
    BY <1>1, <1>3, <1>4, <1>5

LEMMA HuntedInOrder ==
    ASSUME Plan!PlanAssumption, Plan!PlanInvariant, NEW m \in Hunted, NEW o \in Hunted, NEW n \in Hunted
    PROVE  LET before(a, b) == Plan!Before(Plan!CandidateOf(a), Plan!CandidateOf(b)) IN
           /\ ~(before(m, o) /\ before(o, m))
           /\ m # o => before(m, o) \/ before(o, m)
           /\ before(m, o) /\ before(o, n) => before(m, n)
  <1>1. /\ m \in Monsters /\ Plan!Actionable(Plan!CandidateOf(m))
        /\ o \in Monsters /\ Plan!Actionable(Plan!CandidateOf(o))
        /\ n \in Monsters /\ Plan!Actionable(Plan!CandidateOf(n))
    BY HuntedFacts
  <1>2. /\ Num(m) \in SixNumbers /\ Num(m)[6] = m
        /\ Num(o) \in SixNumbers /\ Num(o)[6] = o
        /\ Num(n) \in SixNumbers /\ Num(n)[6] = n
    BY <1>1, NumFacts
  <1> DEFINE B(a, b) == Plan!Before(Plan!CandidateOf(a), Plan!CandidateOf(b))
  <1>3. /\ B(m, o) <=> LessThan(Num(m), Num(o))
        /\ B(o, m) <=> LessThan(Num(o), Num(m))
        /\ B(o, n) <=> LessThan(Num(o), Num(n))
        /\ B(m, n) <=> LessThan(Num(m), Num(n))
    BY <1>1, BeforeIsLess
  <1> HIDE DEF B
  <1>4. /\ ~(LessThan(Num(m), Num(o)) /\ LessThan(Num(o), Num(m)))
        /\ m # o => LessThan(Num(m), Num(o)) \/ LessThan(Num(o), Num(m))
        /\ LessThan(Num(m), Num(o)) /\ LessThan(Num(o), Num(n)) => LessThan(Num(m), Num(n))
    BY <1>2, LessThanOrders
  <1>5. /\ ~(B(m, o) /\ B(o, m))
        /\ m # o => B(m, o) \/ B(o, m)
        /\ B(m, o) /\ B(o, n) => B(m, n)
    BY <1>3, <1>4
  <1> QED
    BY <1>5 DEF B

LEMMA CandidatesInOrder ==
    ASSUME Plan!PlanAssumption, Plan!PlanInvariant
    PROVE  Plan!OrderIsTotal
  <1>1. ASSUME NEW a \in Plan!CandidateSet, NEW b \in Plan!CandidateSet, a # b
        PROVE  Plan!Before(a, b) <=> ~Plan!Before(b, a)
    <2>1. PICK m \in Hunted, o \in Hunted : a = Plan!CandidateOf(m) /\ b = Plan!CandidateOf(o)
      BY HuntedFacts
    <2>2. m # o
      BY <1>1, <2>1
    <2> QED
      BY <2>1, <2>2, HuntedInOrder
  <1>2. ASSUME NEW a \in Plan!CandidateSet, NEW b \in Plan!CandidateSet, NEW c \in Plan!CandidateSet,
               Plan!Before(a, b), Plan!Before(b, c)
        PROVE  Plan!Before(a, c)
    <2>1. PICK m \in Hunted, o \in Hunted, n \in Hunted :
              a = Plan!CandidateOf(m) /\ b = Plan!CandidateOf(o) /\ c = Plan!CandidateOf(n)
      BY HuntedFacts
    <2> QED
      BY <1>2, <2>1, HuntedInOrder
  <1> QED
    BY <1>1, <1>2 DEF Plan!OrderIsTotal

\* The first of them is selected.
LEMMA SelectedIsFirst ==
    ASSUME Plan!PlanAssumption, Plan!PlanInvariant
    PROVE  /\ Hunted = {} => Plan!Selected = 0
           /\ Hunted # {} => /\ Plan!Selected \in Hunted
                             /\ \A o \in Hunted \ {Plan!Selected} :
                                    Plan!Before(Plan!CandidateOf(Plan!Selected), Plan!CandidateOf(o))
  <1> DEFINE candidates == Plan!CandidateSet
             first == {c \in candidates : \A o \in candidates \ {c} : Plan!Before(c, o)}
  <1>0. Plan!Nobody = 0
    BY DEF Plan!Nobody
  <1>1. candidates = {Plan!CandidateOf(m) : m \in Hunted}
    BY HuntedFacts
  <1>2. Plan!Selected = IF first = {} THEN 0 ELSE (CHOOSE c \in first : TRUE).id
    BY <1>0 DEF Plan!Selected
  <1>3. CASE Hunted = {}
    BY <1>1, <1>2, <1>3
  <1>4. CASE Hunted # {}
    <2> DEFINE R == {p \in Hunted \X Hunted : Plan!Before(Plan!CandidateOf(p[1]), Plan!CandidateOf(p[2]))}
    <2>1. \E m \in Hunted : \A o \in Hunted \ {m} : <<m, o>> \in R
      <3>1. \A a \in Hunted : <<a, a>> \notin R
        BY HuntedInOrder
      <3>2. \A a, b, c \in Hunted : <<a, b>> \in R /\ <<b, c>> \in R => <<a, c>> \in R
        BY HuntedInOrder
      <3>3. \A a, b \in Hunted : a # b => <<a, b>> \in R \/ <<b, a>> \in R
        BY HuntedInOrder
      <3>4. IsFiniteSet(Hunted)
        BY HuntedFacts
      <3> HIDE DEF R
      <3> QED
        BY <1>4, <3>1, <3>2, <3>3, <3>4, FirstOf
    <2>2. PICK m \in Hunted : \A o \in Hunted \ {m} : Plan!Before(Plan!CandidateOf(m), Plan!CandidateOf(o))
      BY <2>1
    <2>3. Plan!CandidateOf(m) \in first
      BY <1>1, <2>2
    <2> DEFINE selected == CHOOSE c \in first : TRUE
    <2>4. selected \in first
      BY <2>3
    <2>5. PICK s \in Hunted : selected = Plan!CandidateOf(s)
      BY <1>1, <2>4
    <2>6. Plan!Selected = s
      <3>1. first # {}
        BY <2>3
      <3> QED
        BY <1>2, <2>5, <3>1, HuntedFacts
    <2>7. ASSUME NEW o \in Hunted \ {s} PROVE Plan!Before(Plan!CandidateOf(s), Plan!CandidateOf(o))
      <3>1. Plan!CandidateOf(o).id # Plan!CandidateOf(s).id
        BY HuntedFacts
      <3>2. Plan!CandidateOf(o) \in candidates \ {selected}
        BY <1>1, <2>5, <3>1
      <3> QED
        BY <2>4, <2>5, <3>2
    <2> QED
      BY <2>6, <2>7
  <1> QED
    BY <1>3, <1>4

\* Who is selected is not behind anybody's band.
LEMMA SelectedBand ==
    ASSUME Plan!PlanAssumption, Plan!PlanInvariant, NEW m \in Hunted
    PROVE  /\ Plan!Selected \in Hunted /\ Plan!Selected # 0
           /\ Plan!PriorityBand(Plan!CandidateOf(Plan!Selected)) =< Plan!PriorityBand(Plan!CandidateOf(m))
  <1> DEFINE s == Plan!Selected
  <1>1. s \in Hunted /\ (m # s => Plan!Before(Plan!CandidateOf(s), Plan!CandidateOf(m)))
    BY SelectedIsFirst
  <1>2. /\ s \in Monsters /\ Plan!Actionable(Plan!CandidateOf(s))
        /\ m \in Monsters /\ Plan!Actionable(Plan!CandidateOf(m))
    BY <1>1, HuntedFacts
  <1>3. s # 0
    BY <1>2, MonsterFacts
  <1> DEFINE bs == Plan!PriorityBand(Plan!CandidateOf(s))
             bm == Plan!PriorityBand(Plan!CandidateOf(m))
  <1>4. bs \in Int /\ bm \in Int
    BY <1>2, BandFacts
  <1>5. m # s => bs =< bm
    <2>1. m # s => LessThan(Num(s), Num(m))
      BY <1>1, <1>2, BeforeIsLess
    <2>2. Num(s) \in SixNumbers /\ Num(m) \in SixNumbers /\ Num(s)[1] = bs /\ Num(m)[1] = bm
      BY <1>2, NumFacts
    <2>3. \A i \in 1..6 : Num(s)[i] \in Int /\ Num(m)[i] \in Int
      BY <2>2 DEF SixNumbers
    <2> HIDE DEF s, bs, bm
    <2> QED
      BY <1>4, <2>1, <2>2, <2>3, LessThanIs
  <1> HIDE DEF bs, bm
  <1>6. bs =< bm
    <2>1. CASE m = s
      BY <1>4, <2>1 DEF bs, bm
    <2> QED
      BY <1>5, <2>1
  <1> QED
    BY <1>1, <1>3, <1>6 DEF bs, bm

LEMMA ThreatsFirst ==
    ASSUME Plan!PlanAssumption, Plan!PlanInvariant
    PROVE  Plan!ThreatsComeFirst
  <1> DEFINE s == Plan!Selected
  <1>1. s = 0 <=> Plan!CandidateSet = {}
    <2>1. Plan!CandidateSet = {} <=> Hunted = {}
      BY HuntedFacts
    <2>2. Hunted = {} => s = 0
      BY SelectedIsFirst
    <2>3. Hunted # {} => s # 0
      BY SelectedBand
    <2> QED
      BY <2>1, <2>2, <2>3
  <1>2. ASSUME NEW m \in Plan!Targets, m \in s3, s1[m].found, s1[m].distance =< 1, s2[m] # "AttackRejected"
        PROVE  s1[s].distance =< 1 /\ s \in Plan!Attackers
    <2> DEFINE c == Plan!CandidateOf(m)
    <2>0. m \in Monsters
      BY DEF Plan!Targets
    <2>1. m \in Plan!Attackers
      BY <1>2 DEF Plan!Attackers
    <2>2. Plan!ShouldConsider(m)
      BY <1>2, <2>0, <2>1, MonsterFacts DEF Plan!ShouldConsider
    <2>3. Plan!CounterattackableAdjacent(c)
      <3>1. c.attacker = (m \in Plan!Attackers) /\ c.found = s1[m].found /\ c.distance = s1[m].distance
        BY <2>0, CandidateFacts
      <3>2. Plan!Melee = 1
        BY DEF Plan!Melee
      <3> QED
        BY <1>2, <2>1, <3>1, <3>2 DEF Plan!CounterattackableAdjacent
    <2>4. m \in Hunted
      BY <2>2, <2>3 DEF Hunted, Plan!Actionable
    <2>5. s \in Hunted /\ Plan!PriorityBand(Plan!CandidateOf(s)) =< Plan!PriorityBand(c)
      BY <2>4, SelectedBand
    <2>6. Plan!Actionable(c) /\ Plan!Actionable(Plan!CandidateOf(s)) /\ s \in Monsters
      BY <2>4, <2>5, HuntedFacts
    <2>7. Plan!PriorityBand(c) = 0
      BY <2>0, <2>3, <2>6, BandFacts
    <2>8. Plan!PriorityBand(Plan!CandidateOf(s)) = 0
      <3>1. Plan!PriorityBand(Plan!CandidateOf(s)) \in 0..5
        BY <2>6, BandFacts
      <3> QED
        BY <2>5, <2>7, <3>1
    <2>9. Plan!CounterattackableAdjacent(Plan!CandidateOf(s))
      BY <2>6, <2>8, BandFacts
    <2>10. /\ Plan!CandidateOf(s).attacker = (s \in Plan!Attackers)
           /\ Plan!CandidateOf(s).distance = s1[s].distance
      BY <2>6, CandidateFacts
    <2> QED
      BY <2>9, <2>10 DEF Plan!CounterattackableAdjacent, Plan!Melee
  <1> QED
    BY <1>1, <1>2 DEF Plan!ThreatsComeFirst, Plan!Nobody, Plan!Melee

LEMMA NobodyIsPassedBy ==
    ASSUME Plan!PlanAssumption, Plan!PlanInvariant
    PROVE  Plan!NoDetour
  <1> DEFINE s == Plan!Selected
             c == Plan!CandidateOf(s)
  <1>0. Plan!Nobody = 0 /\ Plan!Melee = 1 /\ Plan!NoWay = -1
    BY DEF Plan!Nobody, Plan!Melee, Plan!NoWay
  <1>1. s # 0 => s \in Hunted
    BY SelectedIsFirst
  <1>2. s # 0 => /\ s \in Monsters /\ Plan!Actionable(c) /\ s \in Plan!Targets
                 /\ c.inRange = Plan!InRange(s) /\ c.way = Plan!Way(s) /\ c.distance = s1[s].distance
                 /\ c.attacker = (s \in Plan!Attackers)
                 /\ (c.distance =< 1 /\ ~c.inRange => c.way = -1)
    BY <1>1, HuntedFacts, CandidateFacts DEF Hunted
  <1>3. ASSUME Plan!RouteTo(s) = "Reachable"
        PROVE  /\ \A m \in Plan!Targets : Plan!ShouldConsider(m) => ~Plan!InRange(m)
               /\ s \notin Plan!Rejected
    <2>1. s # 0 /\ ~Plan!InRange(s) /\ Plan!Way(s) # -1
      BY <1>0, <1>3 DEF Plan!RouteTo
    <2>2. ASSUME NEW m \in Plan!Targets, Plan!ShouldConsider(m), Plan!InRange(m) PROVE FALSE
      <3>0. m \in Monsters
        BY DEF Plan!Targets
      <3>1. Plan!Actionable(Plan!CandidateOf(m))
        <4>1. Plan!CandidateOf(m).way = 0
          BY <2>2, <3>0, CandidateFacts
        <4> QED
          BY <1>0, <4>1 DEF Plan!Actionable, Plan!Reachable
      <3>2. m \in Hunted
        BY <2>2, <3>1 DEF Hunted
      <3>3. Plan!PriorityBand(Plan!CandidateOf(m)) =< 1 /\ Plan!PriorityBand(Plan!CandidateOf(m)) \in 0..5
        BY <2>2, <3>0, <3>1, BandFacts
      <3>4. Plan!PriorityBand(c) =< Plan!PriorityBand(Plan!CandidateOf(m))
        BY <3>2, SelectedBand
      <3>5. /\ Plan!PriorityBand(c) \in 0..5
            /\ Plan!PriorityBand(c) = 0 => Plan!CounterattackableAdjacent(c)
            /\ Plan!PriorityBand(c) = 1 => c.inRange
        BY <1>2, <2>1, BandFacts
      <3>6. Plan!CounterattackableAdjacent(c) \/ c.inRange
        BY <3>3, <3>4, <3>5
      <3>7. c.distance =< 1 /\ ~c.inRange
        BY <1>0, <1>2, <2>1, <3>6 DEF Plan!CounterattackableAdjacent
      <3> QED
        BY <1>2, <2>1, <3>7
    <2>3. s \notin Plan!Rejected
      BY <1>2, <2>1 DEF Plan!Rejected, Plan!Viability, Plan!Targets, Plan!Attackable
    <2> QED
      BY <2>2, <2>3
  <1>4. ASSUME Plan!RouteTo(s) = "Unreachable"
        PROVE  s \in Plan!Attackers /\ s1[s].distance =< 1
    <2>1. s # 0 /\ Plan!Way(s) = -1
      BY <1>0, <1>4 DEF Plan!RouteTo
    <2>2. Plan!CounterattackableAdjacent(c)
      BY <1>0, <1>2, <2>1 DEF Plan!Actionable, Plan!Reachable
    <2> QED
      BY <1>0, <1>2, <2>1, <2>2 DEF Plan!CounterattackableAdjacent
  <1> QED
    BY <1>0, <1>3, <1>4 DEF Plan!NoDetour

LEMMA PainProvesNothing ==
    ASSUME Plan!PlanAssumption, Plan!PlanInvariant
    PROVE  Plan!PainIsNoProof
  <1>1. ASSUME NEW c \in Plan!CandidateSet PROVE s2[c.id] # "AttackRejected"
    <2>1. PICK m \in Hunted : c = Plan!CandidateOf(m)
      BY HuntedFacts
    <2>2. c.id = m /\ m \in Monsters /\ Plan!ShouldConsider(m)
      BY <2>1, HuntedFacts DEF Hunted
    <2> QED
      BY <2>2 DEF Plan!ShouldConsider
  <1>2. Plan!Suspects \subseteq Plan!Targets
    BY DEF Plan!Suspects, Plan!Nearest
  <1>3. ASSUME Plan!Targets # {} PROVE Plan!Nearest(Plan!Targets) # {}
    <2> DEFINE T == Plan!Targets
               R == {p \in T \X T : \/ s1[p[1]].distance < s1[p[2]].distance
                                    \/ s1[p[1]].distance = s1[p[2]].distance /\ p[1] < p[2]}
    <2>1. T \subseteq Monsters /\ IsFiniteSet(T)
      <3>1. T \subseteq Monsters
        BY DEF Plan!Targets
      <3>2. IsFiniteSet(Monsters)
        BY DEF Plan!PlanAssumption, Plan!IsFiniteSet, IsFiniteSet
      <3> QED
        BY <3>1, <3>2, FS_Subset
    <2>2. \A m \in T : m \in Nat /\ s1[m].distance \in Nat
      BY <2>1, MonsterFacts
    <2> HIDE DEF T
    <2>3. /\ \A a \in T : <<a, a>> \notin R
          /\ \A a, b, c \in T : <<a, b>> \in R /\ <<b, c>> \in R => <<a, c>> \in R
          /\ \A a, b \in T : a # b => <<a, b>> \in R \/ <<b, a>> \in R
      BY <2>2
    <2>4. PICK first \in T : \A o \in T \ {first} : <<first, o>> \in R
      <3> HIDE DEF R
      <3> QED
        BY <1>3, <2>1, <2>3, FirstOf DEF T
    <2>5. ASSUME NEW o \in T
          PROVE  \/ s1[first].distance < s1[o].distance
                 \/ s1[first].distance = s1[o].distance /\ first =< o
      <3>1. CASE o = first
        BY <2>2, <3>1
      <3>2. CASE o # first
        <4>1. <<first, o>> \in R /\ first \in Nat /\ o \in Nat
          BY <2>2, <2>4, <3>2
        <4>2. \/ s1[first].distance < s1[o].distance
              \/ s1[first].distance = s1[o].distance /\ first < o
          BY <4>1
        <4> QED
          BY <4>1, <4>2
      <3> QED
        BY <3>1, <3>2
    <2> QED
      BY <2>5 DEF Plan!Nearest, T
  <1> QED
    BY <1>1, <1>2, <1>3 DEF Plan!PainIsNoProof, Plan!Suspects

-----------------------------------------------------------------------------
(***************************************************************************)
(* ClientPatch, its page: s7 is page.                                        *)
(***************************************************************************)

PageTypes == s7 \in [Patch!Boxes \cup {"shown"} -> BOOLEAN]

LEMMA PageBegins ==
    ASSUME Patch!Init PROVE PageTypes
  BY DEF Patch!Init, Patch!NotShown, PageTypes

LEMMA PageKeeps ==
    ASSUME PageTypes, [Patch!Next]_(Patch!vars)
    PROVE  PageTypes'
  <1> USE DEF PageTypes
  <1>1. CASE s7' = s7
    BY <1>1
  <1>2. ASSUME NEW p, NEW q \in [Patch!Boxes \cup {"shown"} -> BOOLEAN], p = Patch!Exclusive(q), s7' = p
        PROVE  PageTypes'
    BY <1>2 DEF Patch!Exclusive, Patch!Boxes
  <1>3. ASSUME NEW b \in Patch!Boxes, Patch!Click(b) PROVE PageTypes'
    <2>1. [s7 EXCEPT ![b] = ~s7[b]] \in [Patch!Boxes \cup {"shown"} -> BOOLEAN]
      BY DEF Patch!Boxes
    <2> QED
      BY <1>2, <1>3, <2>1 DEF Patch!Click, Patch!Sync
  <1>4. CASE Patch!SessionEnds
    BY <1>4 DEF Patch!SessionEnds, Patch!Sync, Patch!NotShown
  <1>5. ASSUME NEW p \in [Patch!Boxes \cup {"shown"} -> BOOLEAN], Patch!Load(p) PROVE PageTypes'
    BY <1>5 DEF Patch!Load, Patch!Sync
  <1>6. Patch!Runner => s7' = s7
    BY DEF Patch!Runner, Patch!Writes, Patch!Passes, Patch!LeadsAway, Patch!Misses, Patch!Hangs, Patch!Page,
           Patch!Threads, Patch!State, Patch!Counts, Patch!Same, Patch!Fails
  <1>7. Patch!WritableChanges \/ (\E s \in Patch!Places : Patch!Intrudes(s)) => s7' = s7
    BY DEF Patch!WritableChanges, Patch!Intrudes
  <1> QED
    BY <1>1, <1>3, <1>4, <1>5, <1>6, <1>7 DEF Patch!Next, Patch!vars

\* The box that was clicked on last is on, and its rival is not.
LEMMA LastClickCounts ==
    ASSUME PageTypes PROVE Patch!ClickCounts
  <1> SUFFICES ASSUME NEW b \in Patch!Boxes, Patch!Click(b)
               PROVE  (~s7[b] => s7'[b]) /\ ~(s7'.head /\ s7'.feet)
    BY DEF Patch!ClickCounts
  <1> DEFINE q == [s7 EXCEPT ![b] = ~s7[b]]
  <1>1. s7' = Patch!Exclusive(q)
    BY DEF Patch!Click, Patch!Sync
  <1>2. q \in [Patch!Boxes \cup {"shown"} -> BOOLEAN] /\ (~s7[b] => q[b])
        /\ \A c \in Patch!Boxes : c # b => q[c] = s7[c]
    BY DEF PageTypes, Patch!Boxes
  <1> HIDE DEF q
  <1>3. b \in {"head", "feet", "other"} /\ Patch!Boxes \cup {"shown"} = {"head", "feet", "other", "shown"}
    BY DEF Patch!Boxes
  <1>4. CASE q.head /\ q.feet
    <2> DEFINE h == ~s7.head
               f == s7.head
    <2>1. s7' = [[q EXCEPT !.head = h] EXCEPT !.feet = f]
      BY <1>1, <1>2, <1>3, <1>4 DEF Patch!Exclusive
    <2>2. s7'.head = h /\ s7'.feet = f /\ s7'.other = q.other
      <3> HIDE DEF h, f
      <3> QED
        BY <1>2, <1>3, <2>1
    <2>3. s7.head \in BOOLEAN /\ s7.feet \in BOOLEAN
      BY <1>3 DEF PageTypes
    <2>4. CASE b = "head"
      BY <2>2, <2>3, <2>4
    <2>5. CASE b = "feet"
      <3>1. q["head"] = s7["head"]
        BY <1>2, <1>3, <2>5 DEF Patch!Boxes
      <3> QED
        BY <1>4, <2>2, <2>3, <2>5, <3>1
    <2>6. CASE b = "other"
      BY <1>2, <2>2, <2>3, <2>6
    <2> QED
      BY <1>3, <2>4, <2>5, <2>6
  <1>5. CASE ~(q.head /\ q.feet)
    BY <1>1, <1>2, <1>5 DEF Patch!Exclusive
  <1> QED
    BY <1>4, <1>5

-----------------------------------------------------------------------------
(***************************************************************************)
(* All of them: a behaviour is of one of the parts, and of each part of which   *)
(* something is proved its invariant holds.                                *)
(***************************************************************************)

MCInvariant ==
    /\ part = "patch" => PageTypes
    /\ part = "text" => Text!TextInvariant
    /\ part = "notation" => Notation!NotationInvariant
    /\ part = "form" => Form!FormInvariant
    /\ part = "lists" => Lists!ListsInvariant
    /\ part = "profiles" => Profile!ProfileInvariant
    /\ part = "feet" => Feet!FeetInvariant
    /\ part = "plan" => Plan!PlanInvariant
    /\ part = "dispatch" => Dispatch!DispatchInvariant
    /\ part = "perception" => Perception!PerceptionInvariant

LEMMA PartsBegin == ASSUME MCInit PROVE MCInvariant
  <1>1. part = "patch" => Patch!Init
    BY DEF MCInit
  <1>2. part = "text" => Text!Init
    BY DEF MCInit
  <1>3. part = "notation" => Notation!Init
    BY DEF MCInit
  <1>4. part = "form" => Form!Init
    BY DEF MCInit
  <1>5. part = "lists" => Lists!Init
    BY DEF MCInit
  <1>6. part = "profiles" => Profile!Init
    BY DEF MCInit
  <1>7. part = "feet" => Feet!Init
    BY DEF MCInit
  <1>8. part = "plan" => Plan!Init
    BY DEF MCInit
  <1>9. part = "dispatch" => Dispatch!Init
    BY DEF MCInit
  <1>10. part = "perception" => Perception!Init
    BY DEF MCInit
  <1> QED
    BY <1>1, <1>2, <1>3, <1>4, <1>5, <1>6, <1>7, <1>8, <1>9, <1>10, PartsAssumption,
       PageBegins, TextBegins, NotationBegins, FormBegins, ListsBegin, ProfileBegins,
       FeetBegin, PlanBegins, DispatchBegins, PerceptionBegins, Zenon
    DEF MCInvariant

\* A step is one of the part that the behaviour is of.
LEMMA StepsOfParts ==
    ASSUME [MCNext]_mcVars
    PROVE  /\ part' = part
           /\ part = "patch" => [Patch!Next]_(Patch!vars)
           /\ part = "text" => [Text!Next]_(Text!vars)
           /\ part = "notation" => [Notation!Next]_(Notation!vars)
           /\ part = "form" => [Form!Next]_(Form!vars)
           /\ part = "lists" => [Lists!Next]_(Lists!vars)
           /\ part = "profiles" => [Profile!Next]_(Profile!vars)
           /\ part = "feet" => [Feet!Next]_(Feet!vars)
           /\ part = "plan" => [Plan!Next]_(Plan!vars)
           /\ part = "dispatch" => [Dispatch!Next]_(Dispatch!vars)
           /\ part = "perception" => [Perception!Next]_(Perception!vars)
  <1>1. CASE MCNext
    BY <1>1
    DEF MCNext, PatchRest, TextRest, NotationRest, FormRest, ListsRest, ProfileRest, CodecRest, SettingRest,
        MorphsRest, FeetRest, PathRest, PlanRest, ExploreRest, DispatchRest, PerceptionRest
  <1>2. CASE UNCHANGED mcVars
    <2>1. /\ part' = part /\ s1' = s1 /\ s2' = s2 /\ s3' = s3 /\ s4' = s4 /\ s5' = s5 /\ s6' = s6
          /\ s7' = s7 /\ s8' = s8 /\ s9' = s9 /\ s10' = s10 /\ s11' = s11 /\ s12' = s12
      BY <1>2 DEF mcVars
    <2> QED
      BY <2>1
      DEF Patch!vars, Text!vars, Notation!vars, Form!vars, Lists!vars, Profile!vars, Feet!vars, Plan!vars,
          Plan!planVars, Plan!exploreVars, Dispatch!vars, Perception!vars
  <1> QED
    BY <1>1, <1>2

LEMMA PartsKeep == ASSUME MCInvariant, [MCNext]_mcVars PROVE MCInvariant'
  <1>1. part = "patch" => PageTypes'
    BY StepsOfParts, PartsAssumption, PageKeeps, Zenon DEF MCInvariant
  <1>2. part = "text" => Text!TextInvariant'
    BY StepsOfParts, PartsAssumption, TextKeeps, Zenon DEF MCInvariant
  <1>3. part = "notation" => Notation!NotationInvariant'
    BY StepsOfParts, PartsAssumption, NotationKeeps, Zenon DEF MCInvariant
  <1>4. part = "form" => Form!FormInvariant'
    BY StepsOfParts, PartsAssumption, FormKeeps, Zenon DEF MCInvariant
  <1>5. part = "lists" => Lists!ListsInvariant'
    BY StepsOfParts, PartsAssumption, ListsKeep, Zenon DEF MCInvariant
  <1>6. part = "profiles" => Profile!ProfileInvariant'
    BY StepsOfParts, PartsAssumption, ProfileKeeps, Zenon DEF MCInvariant
  <1>7. part = "feet" => Feet!FeetInvariant'
    BY StepsOfParts, PartsAssumption, FeetKeep, Zenon DEF MCInvariant
  <1>8. part = "plan" => Plan!PlanInvariant'
    BY StepsOfParts, PartsAssumption, PlanKeeps, Zenon DEF MCInvariant
  <1>9. part = "dispatch" => Dispatch!DispatchInvariant'
    BY StepsOfParts, PartsAssumption, DispatchKeeps, Zenon DEF MCInvariant
  <1>10. part = "perception" => Perception!PerceptionInvariant'
    BY StepsOfParts, PartsAssumption, PerceptionKeeps, Zenon DEF MCInvariant
  <1> QED
    BY StepsOfParts, <1>1, <1>2, <1>3, <1>4, <1>5, <1>6, <1>7, <1>8, <1>9, <1>10, Zenon DEF MCInvariant

LEMMA PartsHold == MCSpec => []MCInvariant
  BY PartsBegin, PartsKeep, PTL DEF MCSpec

\* What the hooks draw comes from the packets and fits the sprites, whatever the server
\* sends and however often the clock comes round: a total goes on from the one before it
\* or starts anew, the reader of a packet stays in step with it through all of
\* its hits, and a foot that is shown is one for which the sprite has a step.
THEOREM DrawnFromPackets == MCSpec => []DrawnRight
  <1>1. ASSUME MCInvariant PROVE DrawnRight
    <2>1. part = "text" => Text!TotalGoesOn /\ Text!Aligned
      BY <1>1 DEF MCInvariant, Text!TextInvariant, Text!Aligned, Text!NoPacket
    <2>2. part = "feet" => Feet!SlotIsThere
      BY <1>1 DEF MCInvariant, Feet!FeetInvariant
    <2> QED
      BY <2>1, <2>2, Zenon DEF DrawnRight, TotalGoesOn, Aligned, SlotIsThere
  <1> QED
    BY <1>1, PartsHold, PTL

\* What the player has set is what he finds again: a character's settings after any
\* sequence of sessions, the names and keys of the servers in their slots and in the
\* list, an entry after it was shown and taken over, the item of a row of the page after
\* the bag was read again, the lists of a window after any order of moving and filling.
THEOREM SettingsComeThrough == MCSpec => []SettingsAreKept
  <1>1. ASSUME MCInvariant PROVE SettingsAreKept
    <2>1. part = "profiles" => Profile!SettingsComeBack
      BY <1>1 DEF MCInvariant, Profile!ProfileInvariant
    <2>2. part = "lists" => Lists!TypedIsKept /\ Lists!KeptWithoutGaps /\ Lists!ServerKeyReachesList
      BY <1>1, PartsAssumption, ListsHold DEF MCInvariant, Lists!ListsInvariant
    <2>3. part = "notation" => Notation!KeepsItsMeaning
      BY <1>1 DEF MCInvariant, Notation!NotationInvariant
    <2>4. part = "form" => Form!NeverAnotherItem /\ Form!ListsAgree
      BY <1>1 DEF MCInvariant, Form!FormInvariant
    <2> QED
      BY <2>1, <2>2, <2>3, <2>4, Zenon
      DEF SettingsAreKept, SettingsComeBack, TypedIsKept, KeptWithoutGaps, ServerKeyReachesList,
          KeepsItsMeaning, NeverAnotherItem, ListsAgree
  <1> QED
    BY <1>1, PartsHold, PTL

\* For every set of monsters, of whatever distances and ways: the targets stand in one
\* order, the first of them is one of those who hit the player where there is such a one
\* near, nobody who can be hit from here is passed by but for one of those, and who rejected
\* attacks is left alone; what the hunt sends is what it decided; and a name on the minimap,
\* or of the one who was searched for, is that of the creature whose number is used.
THEOREM TargetsAreSound == MCSpec => []TargetsAreRight
  <1>1. ASSUME MCInvariant PROVE TargetsAreRight
    <2>1. part = "plan" =>
            Plan!OrderIsTotal /\ Plan!ThreatsComeFirst /\ Plan!NoDetour /\ Plan!PainIsNoProof
      BY <1>1, PartsAssumption, CandidatesInOrder, ThreatsFirst, NobodyIsPassedBy, PainProvesNothing, Zenon
      DEF MCInvariant
    <2>2. part = "dispatch" => Dispatch!SentIsDecided
      BY <1>1 DEF MCInvariant, Dispatch!DispatchInvariant
    <2>3. part = "perception" => Perception!NameOfTheId /\ Perception!AnswerIsNamed
      BY <1>1 DEF MCInvariant, Perception!PerceptionInvariant
    <2> QED
      BY <2>1, <2>2, <2>3, Zenon
      DEF TargetsAreRight, OrderIsTotal, ThreatsComeFirst, NoDetour, PainIsNoProof, SentIsDecided,
          NameOfTheId, AnswerIsNamed
  <1> QED
    BY <1>1, PartsHold, PTL

\* A step does what it is for and leaves the rest alone: a click switches the other box
\* off, nobody else's hit is shown, a command written once more keeps its meaning and a
\* changed entry leaves the uses of the others, filling the page changes no setting, a
\* foot stays during an animation, two turns keep their distance in time and rounds do
\* not outrun the clock, and a portal is learnt only where the last walk went.
THEOREM StepsAreSmall == MCSpec => StepsKeepToTheirs
  <1>1. ASSUME MCInvariant, [MCNext]_mcVars
        PROVE  /\ part = "patch" => Patch!ClickCounts
               /\ part = "text" => Text!OwnHitsOnly
               /\ part = "notation" => Notation!CommandsSettle
               /\ part = "notation" => Notation!OthersKeepTheirUse
               /\ part = "form" => Form!FillingKeepsSettings
               /\ part = "feet" => Feet!FootIsSteady
               /\ part = "dispatch" => Dispatch!StepsSpaced
               /\ part = "dispatch" => Dispatch!RoundsKeepPace
               /\ part = "perception" => Perception!PortalsWereWalked
    <2> USE <1>1, StepsOfParts, PartsAssumption
    <2>1. part = "patch" => Patch!ClickCounts
      BY LastClickCounts, Zenon DEF MCInvariant
    <2>2. part = "text" => Text!OwnHitsOnly
      BY OthersAreNotShown, Zenon
    <2>3. part = "notation" => Notation!CommandsSettle /\ Notation!OthersKeepTheirUse
      BY CommandSettles, NotationKeeps, Zenon DEF MCInvariant
    <2>4. part = "form" => Form!FillingKeepsSettings
      BY FormKeeps, Zenon DEF MCInvariant
    <2>5. part = "feet" => Feet!FootIsSteady
      BY FeetKeep, Zenon DEF MCInvariant
    <2>6. part = "dispatch" => Dispatch!StepsSpaced /\ Dispatch!RoundsKeepPace
      BY DispatchKeeps, Zenon DEF MCInvariant
    <2>7. part = "perception" => Perception!PortalsWereWalked
      BY PerceptionKeeps, Zenon DEF MCInvariant
    <2> QED
      BY <2>1, <2>2, <2>3, <2>4, <2>5, <2>6, <2>7, Zenon
  <1> QED
    BY <1>1, PartsHold, PTL
    DEF MCSpec, StepsKeepToTheirs, ClickCounts, OwnHitsOnly, CommandsSettle, OthersKeepTheirUse,
        FillingKeepsSettings, FootIsSteady, StepsSpaced, RoundsKeepPace, PortalsWereWalked

=============================================================================
