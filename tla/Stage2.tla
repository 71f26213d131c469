-------------------------------- MODULE Stage2 --------------------------------
(***************************************************************************)
(* The second stage of a start (main.rs, run_stage2_cli): a process that opens *)
(* the running game, waits until its packed code is there, patches it, and     *)
(* stays as long as the auxiliary or the bot need it.  Five of its threads     *)
(* run on by themselves: one that installs the file hook, one that polls the   *)
(* pointer, one that patches the movement packets when the player is in the    *)
(* world, and for eight seconds one that holds the code page of the game's     *)
(* texts and one that patches how its tooltips are read for that code page     *)
(* (patch.rs).  They end with the process, wherever they are.                  *)
(***************************************************************************)
EXTENDS Naturals, Sequences

CONSTANTS
    Features,  \* what run_stage2_feature_patches installs: name, whether a failure
               \* is fatal, whether it needs the file hook
    Wishes,    \* the sets of options that may be asked for
    Pages,     \* the code pages that the game may set, "simplified" or "other", by the options
    MaxFaults  \* bound: operations on the game that fail

Options == {"connect", "inject", "hover", "late", "bot", "aux", "page"}

Stage2Assumption ==
    /\ MaxFaults \in Nat /\ Wishes \subseteq SUBSET Options
    /\ Pages \in [Wishes -> SUBSET {"simplified", "other"}]
    /\ Len(Features) \in Nat
    /\ \A i \in 1 .. Len(Features) : Features[i].fatal \in BOOLEAN /\ Features[i].file \in BOOLEAN

VARIABLES
    game,   \* "packed", "plain", in the "world", "gone"
    wants,  \* the settings and the arguments
    main,   \* the main thread, and the next feature
    file,   \* the threads
    hover,
    late,
    home,
    bot,    \* whether it has been started, and not stopped
    frozen, \* who holds the threads of the game suspended
    done,   \* what has been installed
    texts,  \* the code page, the thread that holds it, the thread of the tooltips
    past    \* history: faults; the read between suspending and resuming failed; the
            \* process ended while the other thread suspends; the late patch gave up

vars == <<game, wants, main, file, hover, late, home, bot, frozen, done, texts, past>>

Names == {Features[i].name : i \in 1 .. Len(Features)} \cup {"connect", "time", "file", "late", "tooltip"}
Exits == {"ended", "failed"}

TypeOK ==
    /\ game \in {"packed", "plain", "world", "gone"} /\ wants \in Wishes
    /\ main \in [at : {"connects", "spawns", "waits", "freezes", "writes", "checks", "features",
                      "bot", "home", "stays", "stops"} \cup Exits,
                next : 1 .. Len(Features) + 1]
    /\ file \in {"none", "polls", "freezes", "writes", "ended"}
    /\ hover \in {"none", "polls", "ended"} /\ late \in {"none", "waits", "ended"}
    /\ home \in {"none", "listens", "ended"} /\ bot \in BOOLEAN
    /\ texts \in [page : {"simplified", "other"}, holds : BOOLEAN, tooltip : {"polls", "samples", "ended"}]
    /\ frozen \subseteq {"main", "file"} /\ done \subseteq Names
    /\ past \in [faults : 0 .. MaxFaults, torn : BOOLEAN, raced : BOOLEAN, gaveUp : BOOLEAN]

Init ==
    /\ game \in {"packed", "plain"} /\ wants \in Wishes
    /\ texts = [page |-> "other", holds |-> "page" \in wants, tooltip |-> "polls"]
    /\ main = [at |-> "connects", next |-> 1]
    /\ file = "none" /\ hover = "none" /\ late = "none" /\ home = "none" /\ bot = FALSE
    /\ frozen = {} /\ done = {}
    /\ past = [faults |-> 0, torn |-> FALSE, raced |-> FALSE, gaveUp |-> FALSE]

-------------------------------------------------------------------------------
Lives == main.at \notin Exits
Threads == <<file, hover, late, home>>
Goes(at) == main' = [main EXCEPT !.at = at]
MayFail == game = "gone" \/ past.faults < MaxFaults
Fault == IF game = "gone" THEN past ELSE [past EXCEPT !.faults = @ + 1]
Rest == UNCHANGED <<game, wants, texts>>

\* The process ends: its threads end where they are, and what they hold stays.
Leaves(how, then) ==
    /\ Goes(how)
    /\ file' = "ended" /\ hover' = "ended" /\ late' = "ended" /\ home' = "ended"
    /\ past' = [then EXCEPT !.raced = @ \/ "file" \in frozen]

-------------------------------------------------------------------------------
(* The main thread.                                                            *)

\* hook_connect is in another library of the game, which is not packed.
Connects(fails) ==
    /\ main.at = "connects"
    /\ IF fails /\ "connect" \in wants
       THEN MayFail /\ Leaves("failed", Fault) /\ UNCHANGED done
       ELSE /\ Goes("spawns") /\ UNCHANGED <<Threads, past>>
            /\ done' = done \cup (IF "connect" \in wants THEN {"connect"} ELSE {})
    /\ Rest /\ UNCHANGED <<bot, frozen>>

\* spawn_early_file_hook_worker.
Spawns ==
    /\ main.at = "spawns" /\ Goes("waits")
    /\ file' = IF "inject" \in wants THEN "polls" ELSE "none"
    /\ Rest /\ UNCHANGED <<hover, late, home, bot, frozen, done, past>>

\* A wrong version, to show that the properties below can fail.
AnyBytes == game # "gone"

\* The code is the one that is expected.
Decrypted == game \in {"plain", "world"}

\* wait_and_patch: the time runs out, or the marker is there and written over.
Waits ==
    /\ main.at = "waits"
    /\ \/ Decrypted /\ Goes("freezes") /\ done' = done \cup {"time"} /\ UNCHANGED <<Threads, past>>
       \/ ~Decrypted /\ Leaves("failed", past) /\ UNCHANGED done
    /\ Rest /\ UNCHANGED <<bot, frozen>>

Freezes ==
    /\ main.at = "freezes" /\ Goes("writes") /\ frozen' = frozen \cup {"main"}
    /\ Rest /\ UNCHANGED <<Threads, bot, done, past>>

\* A wrong version, to show that the properties below can fail.
AsTheyAre == frozen

Thawed == frozen \ {"main"}

\* The second place is written; without it the threads go on and the start fails.
Writes(fails) ==
    /\ main.at = "writes"
    /\ IF fails
       THEN MayFail /\ Leaves("failed", Fault) /\ frozen' = Thawed
       ELSE Goes("checks") /\ UNCHANGED <<Threads, frozen, past>>
    /\ Rest /\ UNCHANGED <<bot, done>>

\* Both places are read again: if one cannot be read, the `?` leaves with the
\* threads suspended (patch.rs:560).
Checks(fails) ==
    /\ main.at = "checks"
    /\ IF fails
       THEN MayFail /\ Leaves("failed", [Fault EXCEPT !.torn = TRUE]) /\ UNCHANGED frozen
       ELSE Goes("features") /\ frozen' = Thawed /\ UNCHANGED <<Threads, past>>
    /\ Rest /\ UNCHANGED <<bot, done>>

Feature == Features[main.next]
Wanted(f) == f.file => "inject" \in wants

\* run_stage2_feature_patches, one after the other; also the threads it starts.
Installs(fails) ==
    /\ main.at = "features" /\ main.next <= Len(Features)
    /\ IF fails /\ Wanted(Feature)
       THEN /\ MayFail /\ UNCHANGED done
            /\ IF Feature.fatal
               THEN Leaves("failed", Fault)
               ELSE main' = [main EXCEPT !.next = @ + 1] /\ past' = Fault /\ UNCHANGED Threads
       ELSE /\ main' = [main EXCEPT !.next = @ + 1]
            /\ done' = done \cup (IF Wanted(Feature) THEN {Feature.name} ELSE {})
            /\ hover' = IF Feature.name = "hover" /\ "hover" \in wants THEN "polls" ELSE hover
            /\ UNCHANGED <<file, late, home, past>>
    /\ Rest /\ UNCHANGED <<bot, frozen>>

Installed ==
    /\ main.at = "features" /\ main.next = Len(Features) + 1 /\ Goes("bot")
    /\ late' = IF "late" \in wants THEN "waits" ELSE late
    /\ Rest /\ UNCHANGED <<file, hover, home, bot, frozen, done, past>>

\* A bot that cannot be installed is done without.
StartsBot(fails) ==
    /\ main.at = "bot" /\ Goes("home")
    /\ IF fails /\ "bot" \in wants
       THEN MayFail /\ past' = Fault /\ UNCHANGED bot
       ELSE bot' = ("bot" \in wants) /\ UNCHANGED past
    /\ Rest /\ UNCHANGED <<Threads, frozen, done>>

\* A wrong version, to show that the properties below can fail.
OnlyForAux == wants \cap {"aux"} # {}

\* What needs the process until the game ends.
Needed == wants \cap {"aux", "bot"} # {}

\* run_lhx_aux_until_game_exit, and the wait for the bot without it.
StaysOrNot ==
    /\ main.at = "home" /\ Goes(IF Needed THEN "stays" ELSE "stops")
    /\ home' = IF "aux" \in wants THEN "listens" ELSE home
    /\ Rest /\ UNCHANGED <<file, hover, late, bot, frozen, done, past>>

Stays ==
    /\ main.at = "stays" /\ game = "gone" /\ home # "listens" /\ Goes("stops")
    /\ Rest /\ UNCHANGED <<Threads, bot, frozen, done, past>>

Stops ==
    /\ main.at = "stops" /\ bot' = FALSE /\ Leaves("ended", past)
    /\ Rest /\ UNCHANGED <<frozen, done>>

Main ==
    \/ Spawns \/ Waits \/ Freezes \/ Installed \/ StaysOrNot \/ Stays \/ Stops
    \/ \E f \in BOOLEAN : Connects(f) \/ Writes(f) \/ Checks(f) \/ Installs(f) \/ StartsBot(f)

-------------------------------------------------------------------------------
(* The other threads.                                                          *)

Alone == Rest /\ UNCHANGED <<main, hover, late, home, bot>>

\* start_file_hook_worker: eight seconds, then install_file_hook.
FilePolls ==
    /\ Lives /\ file = "polls" /\ file' = (IF Decrypted THEN "freezes" ELSE "ended")
    /\ Alone /\ UNCHANGED <<frozen, done, past>>
FileFreezes ==
    /\ Lives /\ file = "freezes" /\ file' = "writes" /\ frozen' = frozen \cup {"file"}
    /\ Alone /\ UNCHANGED <<done, past>>
FileWrites(fails) ==
    /\ Lives /\ file = "writes" /\ file' = "ended" /\ frozen' = frozen \ {"file"}
    /\ IF fails
       THEN MayFail /\ past' = Fault /\ UNCHANGED done
       ELSE done' = done \cup {"file"} /\ UNCHANGED past
    /\ Alone

HoverPolls ==
    /\ Lives /\ hover = "polls" /\ game = "gone" /\ hover' = "ended"
    /\ Rest /\ UNCHANGED <<main, file, late, home, bot, frozen, done, past>>

\* spawn_delayed_move_packet_no_encrypt_patch: five minutes, one attempt.
LatePatches(fails) ==
    /\ Lives /\ late = "waits" /\ late' = "ended"
    /\ \/ game = "world" /\ ~fails /\ done' = done \cup {"late"} /\ UNCHANGED past
       \/ game = "world" /\ fails /\ MayFail /\ past' = Fault /\ UNCHANGED done
       \/ game # "world" /\ fails /\ past' = [past EXCEPT !.gaveUp = TRUE] /\ UNCHANGED done
    /\ Rest /\ UNCHANGED <<main, file, hover, home, bot, frozen>>

\* A wrong version, to show that the properties below can fail.
NeverHome == FALSE

GameSeenGone == game = "gone"

HomeEnds ==
    /\ Lives /\ home = "listens" /\ GameSeenGone /\ home' = "ended"
    /\ Rest /\ UNCHANGED <<main, file, hover, late, bot, frozen, done, past>>

\* spawn_force_simplified_text_locale_worker: eight seconds, whatever fails.
TextsAlone == UNCHANGED <<game, wants, main, Threads, bot, frozen>>

HoldsPage ==
    /\ Lives /\ texts.holds /\ game # "gone" /\ texts.page # "simplified"
    /\ texts' = [texts EXCEPT !.page = "simplified"]
    /\ TextsAlone /\ UNCHANGED <<done, past>>
StopsHolding ==
    /\ Lives /\ texts.holds /\ texts' = [texts EXCEPT !.holds = FALSE]
    /\ TextsAlone /\ UNCHANGED <<done, past>>

\* A wrong version, to show that the properties below can fail.
AnySample == game # "gone"

\* The bytes are the ones that are to be replaced.
SampleIsOriginal == Decrypted

\* spawn_simplified_status_tooltip_encoding_worker: it waits for the code page,
\* then for the code, writes it once, and gives up after eight seconds.
SeesPage ==
    /\ Lives /\ texts.tooltip = "polls" /\ game # "gone" /\ texts.page = "simplified"
    /\ texts' = [texts EXCEPT !.tooltip = "samples"]
    /\ TextsAlone /\ UNCHANGED <<done, past>>
Samples(fails) ==
    /\ Lives /\ texts.tooltip = "samples"
    /\ IF SampleIsOriginal /\ ~fails
       THEN texts' = [texts EXCEPT !.tooltip = "ended"] /\ done' = done \cup {"tooltip"} /\ UNCHANGED past
       ELSE /\ texts' = [texts EXCEPT !.tooltip = "polls"] /\ UNCHANGED done
            /\ IF fails THEN MayFail /\ past' = Fault ELSE UNCHANGED past
    /\ TextsAlone
GivesUp ==
    /\ Lives /\ texts.tooltip = "polls" /\ texts' = [texts EXCEPT !.tooltip = "ended"]
    /\ TextsAlone /\ UNCHANGED <<done, past>>

Texts ==
    \/ HoldsPage \/ StopsHolding \/ SeesPage \/ GivesUp
    \/ \E f \in BOOLEAN : Samples(f)

File == FilePolls \/ FileFreezes \/ \E f \in BOOLEAN : FileWrites(f)
Late == \E f \in BOOLEAN : LatePatches(f)

\* The game runs unless its threads are suspended; it can be killed always.
Game ==
    /\ \/ game = "packed" /\ frozen = {} /\ game' = "plain"
       \/ game = "plain" /\ frozen = {} /\ game' = "world"
       \/ game = "world" /\ frozen = {} /\ game' = "plain"
       \/ game # "gone" /\ game' = "gone"
    /\ UNCHANGED <<wants, main, file, hover, late, home, bot, frozen, done, texts, past>>

SetsPage ==
    /\ game \in {"plain", "world"} /\ frozen = {}
    /\ \E p \in Pages[wants] \ {texts.page} : texts' = [texts EXCEPT !.page = p]
    /\ TextsAlone /\ UNCHANGED <<done, past>>

Next == SetsPage \/ Texts \/ Main \/ File \/ HoverPolls \/ Late \/ HomeEnds \/ Game

Spec ==
    /\ Init /\ [][Next]_vars
    /\ WF_vars(Main) /\ WF_vars(File) /\ WF_vars(HoverPolls) /\ WF_vars(Late) /\ WF_vars(HomeEnds)

-------------------------------------------------------------------------------
\* The game goes on when the process has ended, and while it patches the rest;
\* but for two ways out: the read that fails between suspending and resuming, and
\* the end of the process, by a failure or because nothing needs it, while the
\* thread of the file hook has suspended the game.
GameGoesOn ==
    /\ ~Lives /\ ~past.torn /\ ~past.raced => frozen = {}
    /\ Lives /\ main.at \notin {"writes", "checks"} => "main" \notin frozen

\* No code of the game is written while it is packed: the packer would write its
\* own over it.  Only the threads of the file hook and of the tooltips look for
\* themselves; the features rely on the marker that wait_and_patch has seen.
NotWhilePacked == game = "packed" => done \subseteq {"connect"}

\* When the game is gone, the process ends.
Orphaned == Lives /\ game = "gone"

\* With the bot and without the auxiliary, too, the thread that waits for the
\* world lives until it has patched, in a world where the player stays.
InWorld == game = "world" /\ main.at # "failed" /\ {"late", "bot"} \subseteq wants
LateSettled == "late" \in done \/ past.faults > 0 \/ past.gaveUp
===============================================================================
