------------------------------ MODULE MCLauncher ------------------------------
(***************************************************************************)
(* The threads and processes of the launcher outside the bot and the         *)
(* auxiliary's scheduler: the toggles that a thread keeps in step with the    *)
(* settings, the colours of names, the proxy, the window with its updates,     *)
(* and the start of a game.  A behaviour is of one of the modules; s1 to s12   *)
(* are its variables, in the order in which it lists them, and the slots that   *)
(* it has no use for hold 0.  The constants are those of the modules, which      *)
(* explain them.                                                               *)
(***************************************************************************)
EXTENDS Naturals, Sequences

CONSTANTS
    Group, Sought,                                   \* AllDay
    Addresses, Beings, Levels, Capacity, MaxBirths,  \* NameColors
    AuthLength, GameBytes, ServerBytes, Room,        \* PacketProxy
    Offers, Proxy, Clicks, MaxClicks, MaxStarts, MaxCloses, \* LauncherWindow
    Extras, Wishes, Pages,                           \* Stage2
    MaxFaults                                        \* of all but the proxy

VARIABLES part, s1, s2, s3, s4, s5, s6, s7, s8, s9, s10, s11, s12

mcVars == <<part, s1, s2, s3, s4, s5, s6, s7, s8, s9, s10, s11, s12>>

Day == INSTANCE AllDay WITH
    want <- s1, session <- s2, actor <- s3, site <- s4, palette <- s5, bad <- s6, spoiled <- s7
Water == INSTANCE SeaWater WITH
    want <- s1, session <- s2, actor <- s3, water <- s4, forced <- s5, hidden <- s6,
    crossed <- s7
Colours == INSTANCE NameColors WITH
    Room <- Capacity,
    object <- s1, colour <- s2, level <- s3, app <- s4, scan <- s5, touched <- s6,
    types <- s7, marked <- s8, past <- s9
Relay == INSTANCE PacketProxy WITH
    listening <- s1, game <- s2, server <- s3, up <- s4, down <- s5, got <- s6, told <- s7,
    failed <- s8
Window == INSTANCE LauncherWindow WITH
    page <- s1, shown <- s2, queue <- s3, running <- s4, launch <- s5, game <- s6,
    update <- s7, disk <- s8, past <- s9
Stage == INSTANCE Stage2 WITH
    Features <- Extras,
    game <- s1, wants <- s2, main <- s3, file <- s4, hover <- s5, late <- s6, home <- s7,
    bot <- s8, frozen <- s9, done <- s10, texts <- s11, past <- s12

ASSUME PartsAssumption ==
    /\ Day!DayAssumption /\ Colours!ColorsAssumption /\ Relay!ProxyAssumption
    /\ Window!WindowAssumption /\ Stage!Stage2Assumption

MCInit ==
    \/ part = "day" /\ Day!Init /\ s8 = 0 /\ s9 = 0 /\ s10 = 0 /\ s11 = 0 /\ s12 = 0
    \/ part = "water" /\ Water!Init /\ s8 = 0 /\ s9 = 0 /\ s10 = 0 /\ s11 = 0 /\ s12 = 0
    \/ part = "colours" /\ Colours!Init /\ s10 = 0 /\ s11 = 0 /\ s12 = 0
    \/ part = "proxy" /\ Relay!Init /\ s9 = 0 /\ s10 = 0 /\ s11 = 0 /\ s12 = 0
    \/ part = "window" /\ Window!Init /\ s10 = 0 /\ s11 = 0 /\ s12 = 0
    \/ part = "stage2" /\ Stage!Init

\* What a step of each part leaves alone.
DayRest == part = "day" /\ UNCHANGED <<part, s8, s9, s10, s11, s12>>
WaterRest == part = "water" /\ UNCHANGED <<part, s8, s9, s10, s11, s12>>
ColoursRest == part = "colours" /\ UNCHANGED <<part, s10, s11, s12>>
RelayRest == part = "proxy" /\ UNCHANGED <<part, s9, s10, s11, s12>>
WindowRest == part = "window" /\ UNCHANGED <<part, s10, s11, s12>>
StageRest == part = "stage2" /\ UNCHANGED part

MCNext ==
    \/ DayRest /\ Day!Next
    \/ WaterRest /\ Water!Next
    \/ ColoursRest /\ Colours!Next
    \/ RelayRest /\ Relay!Next
    \/ WindowRest /\ Window!Next
    \/ StageRest /\ Stage!Next

\* What runs by itself, in groups of which each part has at most one action: a
\* behaviour is of one part only, so that one condition of fairness serves
\* several parts.
Runs ==
    \/ DayRest /\ Day!Tick
    \/ WaterRest /\ Water!Tick
    \/ ColoursRest /\ Colours!Thread
    \/ RelayRest /\ Relay!Up
    \/ WindowRest /\ Window!Loop
    \/ StageRest /\ Stage!Main
Runs2 ==
    \/ DayRest /\ Day!Others
    \/ WaterRest /\ Water!Others
    \/ ColoursRest /\ Colours!Page
    \/ RelayRest /\ Relay!Down
    \/ WindowRest /\ Window!Starter
    \/ StageRest /\ Stage!File
Runs3 ==
    \/ RelayRest /\ Relay!Answer
    \/ WindowRest /\ Window!Ready
    \/ StageRest /\ Stage!Late
Runs4 ==
    \/ WindowRest /\ Window!Worker
    \/ StageRest /\ Stage!HoverPolls

MCSpec ==
    /\ MCInit /\ [][MCNext]_mcVars
    /\ WF_mcVars(Runs) /\ WF_mcVars(Runs2) /\ WF_mcVars(Runs3) /\ WF_mcVars(Runs4)
    /\ WF_mcVars(StageRest /\ Stage!HomeEnds)

-------------------------------------------------------------------------------
TypeOK ==
    CASE part = "day" -> Day!TypeOK
      [] part = "water" -> Water!TypeOK
      [] part = "colours" -> Colours!TypeOK
      [] part = "proxy" -> Relay!TypeOK
      [] part = "window" -> Window!TypeOK
      [] OTHER -> Stage!TypeOK

\* The properties of the parts; each is explained in its module.
\* After the session none of the game's code remains changed.
NothingLeft == part = "day" => Day!NothingLeft
\* A day that was switched off leaves the palette refreshed.
ColoursLeft == part = "day" => Day!ColoursLeft
\* After the session the water is the game's again.
WaterIsBack == part = "water" => Water!WaterIsBack
\* Hidden water is known to be hidden by the launcher.
HiddenIsMarked == part = "water" => Water!HiddenIsMarked
\* The colour kept for a name is the game's.
OriginalKept == part = "colours" => Colours!OriginalKept
\* After the end of the feature no name is coloured.
AllRestored == part = "colours" => Colours!AllRestored
\* One's own name keeps its colour.
SelfKeepsColour == part = "colours" => Colours!SelfKeepsColour
\* One's own name is drawn as ever.
SelfLooksAsEver == part = "colours" => Colours!SelfLooksAsEver
\* The bytes arrive in order, each once.
PassesOn == part = "proxy" => Relay!PassesOn
\* A peer is told of the end after all that came before.
EndAfterAll == part = "proxy" => Relay!EndAfterAll
\* A recorded version was extracted.
RecordedIsEaten == part = "window" => Window!RecordedIsEaten
\* No file is older than the recorded version.
NoOldFiles == part = "window" => Window!NoOldFiles
\* An update and a game do not run together.
OneThing == part = "window" => Window!OneThing
\* The proxy stays as long as its game.
ProxyStays == part = "window" => Window!ProxyStays
\* The page is not locked for ever.
NotStuck == part = "window" => Window!NotStuck
\* The game's threads are not left suspended by a thread that ended.
GameGoesOn == part = "stage2" => Stage!GameGoesOn
\* Nothing is patched before the client has unpacked itself.
NotWhilePacked == part = "stage2" => Stage!NotWhilePacked
\* The progress of an update does not go back.
ProgressGrows == [][part = "window" => Window!ProgressGrows]_mcVars
\* The day and the night that are set are there, sooner or later.
SettlesOn ==
    <>[](part = "day" /\ Day!SteadyOn) => []<>(part = "day" /\ Day!AsSet)
\* When it is switched off the game's own code and colours come back.
SettlesOff ==
    <>[](part = "day" /\ Day!SteadyOff) => []<>(part = "day" /\ Day!Night)
\* An attempt that cannot succeed leaves nothing half done.
GivesUp ==
    \A k \in Day!Later : <>[](part = "day" /\ Day!TakenAt(k)) => []<>(part = "day" /\ Day!CleanBefore(k))
\* Water that is to be hidden is hidden sooner or later.
SettlesHidden ==
    <>[](part = "water" /\ Water!Steady) => []<>(part = "water" /\ Water!Hidden)
\* A monster that stays gets its colour.
GetsColour ==
    \A a \in Addresses, b \in Colours!Coloured, l \in Levels :
        <>[](part = "colours" /\ Colours!Stays(a, b, l)) => []<>(part = "colours" /\ Colours!Shows(a, b, l))
\* A connection that the game leaves ends.
ConnectionEnds ==
    (part = "proxy" /\ Relay!Leaving) ~> (part = "proxy" /\ Relay!Ended)
\* The window closes after its game.
GameEndCloses ==
    \A c \in Clicks : (part = "window" /\ Window!Played(c)) ~> (part = "window" /\ Window!PlayedOut)
\* Stage 2 ends with its game.
GoneEnds ==
    (part = "stage2" /\ Stage!Orphaned) ~> ~(part = "stage2" /\ Stage!Lives)
\* What is patched in the world is patched.
LatePatched ==
    <>[](part = "stage2" /\ Stage!InWorld) => <>(part = "stage2" /\ Stage!LateSettled)

-------------------------------------------------------------------------------
\* What the run checks, by what it is about.
\* What a toggle has changed in the client comes back: its code, the colours it
\* has brightened or given to names, and the water, whoever turned it off and
\* whatever ran at that moment.  Every variable has its type.
ClientComesBack ==
    /\ TypeOK /\ NothingLeft /\ ColoursLeft /\ WaterIsBack
    /\ HiddenIsMarked /\ OriginalKept /\ AllRestored /\ SelfKeepsColour
    /\ SelfLooksAsEver
\* An update is recorded when it is there, does not run beside a game and does not
\* lock the page; a game has its proxy, which loses no byte, and is not patched
\* before it has unpacked itself nor left suspended.
LaunchIsSound ==
    /\ RecordedIsEaten /\ NoOldFiles /\ OneThing /\ ProxyStays
    /\ NotStuck /\ GameGoesOn /\ NotWhilePacked /\ PassesOn
    /\ EndAfterAll
\* A toggle that is left alone is in the end what the settings say, or leaves
\* nothing half done.
TogglesSettle ==
    /\ SettlesOn /\ SettlesOff /\ GivesUp /\ SettlesHidden
    /\ GetsColour
\* An update only goes on.  With the game end the connections of the proxy, the window and stage 2; before
\* that stage 2 gets done what waits for the world.
ProcessesEnd ==
    /\ ConnectionEnds /\ GameEndCloses /\ GoneEnds /\ LatePatched
    /\ ProgressGrows

-------------------------------------------------------------------------------
(* Values of the constants that are not numbers or sets of names.             *)

\* A monster that has another colour on each level of the player, and the player
\* in the shape of a monster whose sprite the table does not list.
ColourBeings ==
    {[level |-> 30, own |-> "plain", listed |-> TRUE, sprite |-> TRUE, kind |-> TRUE, high |-> TRUE, self |-> FALSE],
     [level |-> 40, own |-> "green", listed |-> FALSE, sprite |-> FALSE, kind |-> TRUE, high |-> TRUE, self |-> TRUE]}

\* What may be asked for; the game sets code pages in some of them only.
StageWishes ==
    LET sets == SUBSET {"connect", "inject", "late", "bot", "aux"} IN
    {IF "connect" \in w THEN w \cup {"hover"} ELSE w : w \in sets}
TextWishes == {{"page", "bot"}, {"page", "inject"}, {"bot"}}
AllWishes == StageWishes \cup TextWishes
PagesSet == [w \in AllWishes |-> IF w \in TextWishes THEN {"simplified", "other"} ELSE {}]

\* Of the features of stage 2 one of each kind.
StageFeatures ==
    <<[name |-> "login", fatal |-> TRUE, file |-> FALSE], [name |-> "hover", fatal |-> FALSE, file |-> FALSE],
      [name |-> "smooth run", fatal |-> FALSE, file |-> TRUE]>>

\* Three places in two groups.
DayGroups == <<1, 2, 2>>
SentByGame == <<1, 2>>
SentByServer == <<7, 8, 9>>

\* Without an update two games, with one two starts of the launcher.
ClicksByOffer == [o \in Offers |-> IF o = 0 THEN 2 ELSE 1]
StartsByOffer == [o \in Offers |-> IF o = 0 THEN 1 ELSE 2]
===============================================================================
