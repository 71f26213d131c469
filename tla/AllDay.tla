-------------------------------- MODULE AllDay --------------------------------
(***************************************************************************)
(* "Daylight": some places in the game's code, written one after the other    *)
(* and put back in the opposite order (aux/toggle/all_day.rs).  The page does  *)
(* it when a box on it is clicked, a thread every 500 ms as the settings say,  *)
(* and the end of a session, which waits for the other two, takes it back.     *)
(***************************************************************************)
EXTENDS Naturals, Sequences

CONSTANTS
    Group,  \* of each place, in order; the code's are <<1, 2, 3, 4, 4, 5, 5, 5, 6, 7, 8>>
    Sought  \* the places looked at before anything is written: the first three

DayAssumption ==
    /\ Group \in Seq(Nat) /\ Len(Group) > 0
    /\ Sought \subseteq 1 .. Len(Group)

VARIABLES
    want,     \* the setting
    session,  \* "on"; "closing": the others are waited for; "off"
    actor,    \* what the page, the thread and the end of the session are at
    site,     \* what is at each place
    palette,  \* the colours in use: "bright", or what the game gives them
    bad,      \* the places that cannot be read or written, or are somebody else's
    spoiled   \* history: there were any, since the session began

vars == <<want, session, actor, site, palette, bad, spoiled>>

Places == 1 .. Len(Group)
Top == Len(Group)
Actors == {"page", "tick", "closer"}

Idle == [does |-> "none", at |-> 0, from |-> 0]
Steps == {"none", "find", "apply", "undo", "clear", "cave", "colours", "restore", "refresh"}

TypeOK ==
    /\ want \in BOOLEAN /\ session \in {"on", "closing", "off"}
    /\ actor \in [Actors -> [does : Steps, at : 0 .. Top, from : 0 .. Top + 1]]
    /\ site \in [Places -> {"game", "ours"}]
    /\ palette \in {"bright", "natural"} /\ bad \subseteq Places /\ spoiled \in BOOLEAN

Init ==
    /\ want \in BOOLEAN /\ session = "on"
    /\ actor = [a \in Actors |-> Idle]
    /\ site = [s \in Places |-> "game"] /\ palette = "natural"
    /\ bad = {} /\ spoiled = FALSE

-------------------------------------------------------------------------------
(* One step of an actor.                                                      *)

Is(a, what) == actor[a].does = what
At(a) == actor[a].at
Goes(a, what, s, f) == actor' = [actor EXCEPT ![a] = [does |-> what, at |-> s, from |-> f]]
Ends(a) == actor' = [actor EXCEPT ![a] = Idle]
Legible == bad # Places
Rest == UNCHANGED <<want, session, bad, spoiled>>

\* A wrong version, to show that the properties below can fail.
FindsOriginal(a) ==
    /\ Is(a, "find")
    /\ IF \E s \in Sought : s \in bad \/ site[s] = "ours" THEN Ends(a)
       ELSE IF actor[a].from = 0 THEN Goes(a, "apply", 1, 0) ELSE Goes(a, "restore", Top, 0)
    /\ Rest /\ UNCHANGED <<site, palette>>

\* The places are found first, as they were or as ours; "from" tells which way it goes then.
Finds(a) ==
    /\ Is(a, "find")
    /\ IF Sought \cap bad # {} THEN Ends(a)
       ELSE IF actor[a].from = 0 THEN Goes(a, "apply", 1, 0) ELSE Goes(a, "restore", Top, 0)
    /\ Rest /\ UNCHANGED <<site, palette>>

\* apply_patch: what is ours already is fine.
Applies(a) ==
    /\ Is(a, "apply") /\ At(a) \notin bad
    /\ site' = [site EXCEPT ![At(a)] = "ours"]
    /\ IF At(a) = Top THEN Goes(a, "clear", 0, 0) ELSE Goes(a, "apply", At(a) + 1, 0)
    /\ Rest /\ UNCHANGED palette

\* A wrong version, to show that the properties below can fail.
NothingUndone(a) ==
    /\ Is(a, "apply") /\ At(a) \in bad
    /\ Ends(a) /\ Rest /\ UNCHANGED <<site, palette>>

\* All that was done before is undone, in the opposite order.
CannotApply(a) ==
    /\ Is(a, "apply") /\ At(a) \in bad
    /\ IF At(a) = 1 THEN Ends(a) ELSE Goes(a, "undo", At(a) - 1, At(a))
    /\ Rest /\ UNCHANGED <<site, palette>>

\* Where undoing goes on after a place could not be put back: within a group
\* that was being applied with the next one, else with the next group.
NextUndone(f, s) ==
    LET rest == {t \in 1 .. s - 1 : Group[t] # Group[s] \/ (f <= Top /\ Group[f] = Group[s])}
    IN  IF rest = {} THEN 0 ELSE CHOOSE t \in rest : \A u \in rest : u <= t

Undoes(a) ==
    LET s == At(a)
        n == IF s \notin bad THEN s - 1 ELSE NextUndone(actor[a].from, s)
    IN  /\ Is(a, "undo")
        /\ site' = IF s \notin bad THEN [site EXCEPT ![s] = "game"] ELSE site
        /\ IF n = 0 THEN Ends(a) ELSE Goes(a, "undo", n, actor[a].from)
        /\ Rest /\ UNCHANGED palette

\* The weather, and what undoes everything if it cannot be cleared; the mark of
\* a dark cave, which undoes nothing; the colours, which may fail.
Clears(a) ==
    /\ Is(a, "clear")
    /\ IF Legible THEN Goes(a, "cave", 0, 0) ELSE Goes(a, "undo", Top, Top + 1)
    /\ Rest /\ UNCHANGED <<site, palette>>
ClearsCave(a) ==
    /\ Is(a, "cave")
    /\ IF Legible THEN Goes(a, "colours", 0, 0) ELSE Ends(a)
    /\ Rest /\ UNCHANGED <<site, palette>>
Brightens(a) ==
    /\ Is(a, "colours")
    /\ palette' = IF Legible THEN "bright" ELSE palette
    /\ Ends(a) /\ Rest /\ UNCHANGED site

\* restore_patch: what is the game's already is fine.
Restores(a) ==
    /\ Is(a, "restore") /\ At(a) \notin bad
    /\ site' = [site EXCEPT ![At(a)] = "game"]
    /\ IF At(a) = 1 THEN Goes(a, "refresh", 0, 0) ELSE Goes(a, "restore", At(a) - 1, 0)
    /\ Rest /\ UNCHANGED palette
CannotRestore(a) ==
    /\ Is(a, "restore") /\ At(a) \in bad
    /\ Ends(a) /\ Rest /\ UNCHANGED <<site, palette>>

\* A wrong version, to show that the properties below can fail.
KeepsColours(a) == Is(a, "refresh") /\ Ends(a) /\ Rest /\ UNCHANGED <<site, palette>>

\* The game computes its colours by code the first place of which may be ours.
Refreshes(a) ==
    /\ Is(a, "refresh")
    /\ palette' = IF ~Legible THEN palette ELSE IF site[1] = "ours" THEN "bright" ELSE "natural"
    /\ Ends(a) /\ Rest /\ UNCHANGED site

Step(a) ==
    \/ Finds(a) \/ Applies(a) \/ CannotApply(a) \/ Undoes(a)
    \/ Clears(a) \/ ClearsCave(a) \/ Brightens(a)
    \/ Restores(a) \/ CannotRestore(a) \/ Refreshes(a)

-------------------------------------------------------------------------------
(* Who begins it, and when.                                                   *)

Begins(a, w) == Goes(a, "find", 0, IF w THEN 0 ELSE 1)

\* Any box of the page: the settings are written, and read once.
Click(w) ==
    /\ session = "on" /\ Is("page", "none")
    /\ want' = w /\ Begins("page", w)
    /\ UNCHANGED <<session, site, palette, bad, spoiled>>

TickBegins ==
    /\ session = "on" /\ Is("tick", "none")
    /\ Begins("tick", want)
    /\ UNCHANGED <<want, session, site, palette, bad, spoiled>>

Leave ==
    /\ session = "on" /\ session' = "closing"
    /\ UNCHANGED <<want, actor, site, palette, bad, spoiled>>

\* A wrong version, to show that the properties below can fail.
NobodyWaitedFor ==
    /\ session = "closing" /\ session' = "off"
    /\ Begins("closer", FALSE)
    /\ UNCHANGED <<want, site, palette, bad, spoiled>>

\* restore_all_misc_patches, after the threads have ended.
Joined ==
    /\ session = "closing" /\ session' = "off"
    /\ Is("page", "none") /\ Is("tick", "none")
    /\ Begins("closer", FALSE)
    /\ UNCHANGED <<want, site, palette, bad, spoiled>>

\* The settings of the next session are its profile's.
ComesBack(w) ==
    /\ session = "off" /\ session' = "on" /\ Is("closer", "none")
    /\ want' = w
    /\ spoiled' = (bad # {})
    /\ UNCHANGED <<actor, site, palette, bad>>

\* The game is not there any more, or somebody takes a place; or all is well.
BadChanges ==
    /\ bad' \in {{}, Places} \cup {{s} : s \in Places} /\ bad' # bad
    /\ spoiled' = TRUE
    /\ UNCHANGED <<want, session, actor, site, palette>>

Tick == Step("tick") \/ TickBegins
Others == Step("page") \/ Step("closer") \/ Joined
Player == Leave \/ BadChanges \/ \E w \in BOOLEAN : Click(w) \/ ComesBack(w)
Next == Tick \/ Others \/ Player

\* The thread runs as long as the session; nothing is clicked for ever.
Spec == Init /\ [][Next]_vars /\ WF_vars(Tick) /\ WF_vars(Others)

-------------------------------------------------------------------------------
\* After a session nothing of it is left in the game's code, if the game could
\* be written all the time: the end waits for the threads that could still write.
Closed == session = "off" /\ Is("closer", "none")
NothingLeft == Closed /\ ~spoiled => \A s \in Places : site[s] = "game"

\* Nor are the colours: they are computed after all places were put back.
ColoursLeft == Closed /\ ~spoiled => palette = "natural"

\* The page and the thread may leave it half done when they meet, but the
\* thread mends it: what is set is what is, sooner or later.
AsSet == \A s \in Places : site[s] = IF want THEN "ours" ELSE "game"
Quiet == session = "on" /\ Is("page", "none")
SteadyOn == Quiet /\ want /\ bad = {}
SteadyOff == Quiet /\ ~want /\ bad = {}
Night == AsSet /\ palette = "natural"

\* An attempt that fails at a place that somebody else has taken leaves none of
\* those before it written, again and again, unless it is one of the first.
Later == Places \ Sought
TakenAt(k) == Quiet /\ want /\ bad = {k}
CleanBefore(k) == \A s \in 1 .. k - 1 : site[s] = "game"
===============================================================================
