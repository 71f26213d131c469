------------------------------- MODULE SeaWater -------------------------------
(***************************************************************************)
(* "Under water": the game's flag for drawing sea water, which is cleared as   *)
(* long as the setting is on (aux/toggle/underwater_pump.rs), by the page when *)
(* a box on it is clicked, by a thread every 500 ms, and for the last time at  *)
(* the end of a session.  FORCED_HIDDEN tells whether it is us who hid it, so  *)
(* that water is never shown that the game itself has hidden.                  *)
(***************************************************************************)
EXTENDS Naturals

VARIABLES
    want,     \* the setting
    session,  \* "on"; "closing": the others are waited for; "off"
    actor,    \* what the page, the thread and the end of the session are at
    water,    \* the flag of the game: "hidden", "visible"; "other" is not for us
    forced,   \* FORCED_HIDDEN
    hidden,   \* history: who hid the water, "us" or "game"
    crossed   \* history: one enabled it while another disabled it

vars == <<want, session, actor, water, forced, hidden, crossed>>

Actors == {"page", "tick", "closer"}
Steps == {"none", "hide", "mark", "look", "show", "unmark"}

TypeOK ==
    /\ want \in BOOLEAN /\ session \in {"on", "closing", "off"}
    /\ actor \in [Actors -> Steps]
    /\ water \in {"hidden", "visible", "other"} /\ forced \in BOOLEAN
    /\ hidden \in {"us", "game", "nobody"} /\ crossed \in BOOLEAN

Init ==
    /\ want \in BOOLEAN /\ session = "on"
    /\ actor = [a \in Actors |-> "none"]
    /\ \/ water = "visible" /\ hidden = "nobody"
       \/ water = "hidden" /\ hidden = "game"
    /\ forced = FALSE /\ crossed = FALSE

-------------------------------------------------------------------------------
Is(a, what) == actor[a] = what
Goes(a, what) == actor' = [actor EXCEPT ![a] = what]
Rest == UNCHANGED <<want, session>>

Enabling(a) == actor[a] \in {"hide", "mark"}
Disabling(a) == actor[a] \in {"look", "show", "unmark"}

\* A wrong version, to show that the properties below can fail.
HidesOnce(a) ==
    /\ Is(a, "hide")
    /\ IF water = "other" \/ forced
       THEN Goes(a, "none") /\ UNCHANGED <<water, hidden>>
       ELSE /\ Goes(a, "mark") /\ water' = "hidden"
            /\ hidden' = IF water = "visible" THEN "us" ELSE hidden
    /\ Rest /\ UNCHANGED <<forced, crossed>>

\* enable: the flag is written unless it is what it should be, then marked.
Hides(a) ==
    /\ Is(a, "hide")
    /\ IF water = "other"
       THEN Goes(a, "none") /\ UNCHANGED <<water, hidden>>
       ELSE /\ Goes(a, "mark") /\ water' = "hidden"
            /\ hidden' = IF water = "visible" THEN "us" ELSE hidden
    /\ Rest /\ UNCHANGED <<forced, crossed>>

\* A wrong version, to show that the properties below can fail.
ForgetsToMark(a) ==
    /\ Is(a, "mark") /\ Goes(a, "none")
    /\ Rest /\ UNCHANGED <<water, forced, hidden, crossed>>

Marks(a) ==
    /\ Is(a, "mark") /\ Goes(a, "none") /\ forced' = TRUE
    /\ Rest /\ UNCHANGED <<water, hidden, crossed>>

\* disable: nothing is done unless it was us.
Looks(a) ==
    /\ Is(a, "look") /\ Goes(a, IF forced THEN "show" ELSE "none")
    /\ Rest /\ UNCHANGED <<water, forced, hidden, crossed>>
Shows(a) ==
    /\ Is(a, "show")
    /\ IF water = "other"
       THEN Goes(a, "none") /\ UNCHANGED <<water, hidden>>
       ELSE Goes(a, "unmark") /\ water' = "visible" /\ hidden' = "nobody"
    /\ Rest /\ UNCHANGED <<forced, crossed>>

Unmarks(a) ==
    /\ Is(a, "unmark") /\ Goes(a, "none") /\ forced' = FALSE
    /\ Rest /\ UNCHANGED <<water, hidden, crossed>>

Step(a) == Hides(a) \/ Marks(a) \/ Looks(a) \/ Shows(a) \/ Unmarks(a)

-------------------------------------------------------------------------------
Begins(a, w) ==
    /\ Goes(a, IF w THEN "hide" ELSE "look")
    /\ crossed' = (crossed \/ \E b \in Actors \ {a} : IF w THEN Disabling(b) ELSE Enabling(b))

Click(w) ==
    /\ session = "on" /\ Is("page", "none")
    /\ want' = w /\ Begins("page", w)
    /\ UNCHANGED <<session, water, forced, hidden>>

TickBegins ==
    /\ session = "on" /\ Is("tick", "none") /\ Begins("tick", want)
    /\ UNCHANGED <<want, session, water, forced, hidden>>

Leave ==
    /\ session = "on" /\ session' = "closing"
    /\ UNCHANGED <<want, actor, water, forced, hidden, crossed>>

Joined ==
    /\ session = "closing" /\ session' = "off"
    /\ Is("page", "none") /\ Is("tick", "none")
    /\ Begins("closer", FALSE)
    /\ UNCHANGED <<want, water, forced, hidden>>

ComesBack(w) ==
    /\ session = "off" /\ session' = "on" /\ Is("closer", "none")
    /\ want' = w
    /\ UNCHANGED <<actor, water, forced, hidden, crossed>>

\* The game shows or hides its water as it likes, on a new map; or the address
\* is not that of the flag.
GameChanges(w) ==
    /\ w # water /\ water' = w
    /\ hidden' = IF w = "hidden" THEN "game" ELSE "nobody"
    /\ UNCHANGED <<want, session, actor, forced, crossed>>

Tick == Step("tick") \/ TickBegins
Others == Step("page") \/ Step("closer") \/ Joined
Player ==
    \/ Leave
    \/ \E w \in BOOLEAN : Click(w) \/ ComesBack(w)
    \/ \E w \in {"hidden", "visible", "other"} : GameChanges(w)
Next == Tick \/ Others \/ Player

Spec == Init /\ [][Next]_vars /\ WF_vars(Tick) /\ WF_vars(Others)

-------------------------------------------------------------------------------
Closed == session = "off" /\ Is("closer", "none")

\* Water that we hid is back after the session, if the page and the thread never
\* met in the middle of opposite things.
WaterIsBack == Closed /\ ~crossed => hidden # "us"

\* Whenever they do not work at it, what we hid is marked, so that it can be
\* shown again: FORCED_HIDDEN is about the flag although they are two things.
HiddenIsMarked == (\A a \in Actors : Is(a, "none")) /\ ~crossed => (hidden = "us" => forced)

\* Sooner or later it is what is set.
Steady == session = "on" /\ Is("page", "none") /\ want /\ water # "other"
Hidden == water = "hidden"
===============================================================================
