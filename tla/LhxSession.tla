----------------------------- MODULE LhxSession -----------------------------
(***************************************************************************)
(* A session of the LHX auxiliary functions: the listener of main.rs that   *)
(* starts it with Home and ends it when the player leaves the world or the  *)
(* game ends, its window (aux/lhx_window.rs), the thread that keeps the     *)
(* all-day patch as the settings want it, the other polling threads of      *)
(* aux/runtime.rs, and the keyboard hook of aux/hotkey.rs.                  *)
(*                                                                         *)
(* Of the settings the model has misc.all_day.  The other toggles of the    *)
(* session are applied and restored in the same places and the same way.    *)
(***************************************************************************)
EXTENDS Naturals, TLAPS

CONSTANTS
    Characters, \* the characters of the player
    Nobody,     \* no character is in the world; no session yet
    Fallback,   \* the profile "default"
    NameTries   \* how often the listener tries to read the character's name

ASSUME SessionAssumption ==
    /\ Nobody \notin Characters /\ Fallback \notin Characters
    /\ Nobody # Fallback
    /\ NameTries \in Nat \ {0}

VARIABLES
    running,    \* the client's process
    player,     \* the character in the world
    listener,   \* where the listener is, last_in_world, and the attempts at
                \* the name
    session,    \* from the start of the session's threads to its last save
    profile,    \* profile_name of the last session
    settings,   \* AuxSettings: misc.all_day
    files,      \* aux_settings/<profile>.json
    failures,   \* what the last shutdown has logged
    cancel,     \* AuxControl.cancel
    visible,    \* WindowControl.visible
    window,     \* the window's thread, and whether the window is on the screen
    sync,       \* the thread all_day_sync
    poller,     \* a polling thread: state_poll, timer_drink, ..., the hotkey worker
    hotkey,     \* the hook thread, the thread that ends it, WM_QUIT in its queue
    patched,    \* which of the all-day patches are in the client
    writing,    \* what the threads that write patches are about to write
    crossed     \* writes that disturb one another have overlapped

world == <<running, player>>
record == <<session, profile, files, failures>>
helpers == <<sync, poller, hotkey>>
patch == <<patched, writing, crossed>>
vars == <<world, listener, record, settings, cancel, visible, window, helpers,
          patch>>

Profiles == Characters \cup {Fallback}
Writers == {"window", "sync"}

TypeOK ==
    /\ running \in BOOLEAN /\ session \in BOOLEAN /\ settings \in BOOLEAN
    /\ cancel \in BOOLEAN /\ crossed \in BOOLEAN
    /\ player \in Characters \cup {Nobody}
    /\ listener \in [at : {"poll", "naming", "announcing", "joining",
                           "restoring", "saving", "ended"},
                     inWorld : BOOLEAN, tries : 0 .. NameTries - 1]
    /\ profile \in Profiles \cup {Nobody}
    /\ files \in [Profiles -> BOOLEAN]
    /\ failures \subseteq {"restore", "save"}
    /\ visible \in {"hidden", "shown", "close"}
    /\ window \in [at : {"none", "building", "open", "ended"}, shown : BOOLEAN]
    /\ sync \in {"none", "running", "ended"}
    /\ poller \in {"none", "running", "ended"}
    /\ hotkey \in [hook : {"none", "starting", "named", "pumping", "ended"},
                   poster : {"none", "waiting", "ended"},
                   quit : BOOLEAN]
    /\ patched \in {"none", "part", "all"}
    /\ writing \in [Writers -> {"no", "on", "off"}]

Init ==
    /\ running = TRUE /\ player = Nobody
    /\ listener = [at |-> "poll", inWorld |-> FALSE, tries |-> 0]
    /\ session = FALSE /\ profile = Nobody /\ settings = FALSE
    /\ files = [p \in Profiles |-> FALSE] /\ failures = {}
    /\ cancel = FALSE /\ visible = "hidden"
    /\ window = [at |-> "none", shown |-> FALSE]
    /\ sync = "none" /\ poller = "none"
    /\ hotkey = [hook |-> "none", poster |-> "none", quit |-> FALSE]
    /\ patched = "none" /\ writing = [w \in Writers |-> "no"] /\ crossed = FALSE

-----------------------------------------------------------------------------
(* The player and the game.                                                *)

EntersOrLeaves ==
    /\ running
    /\ player' \in IF player = Nobody THEN Characters ELSE {Nobody}
    /\ UNCHANGED <<running, listener, record, settings, cancel, visible, window,
                   helpers, patch>>

\* The patches go with the process.
GameExits ==
    /\ running
    /\ running' = FALSE /\ player' = Nobody /\ patched' = "none"
    /\ UNCHANGED <<listener, record, settings, cancel, visible, window, helpers,
                   writing, crossed>>

-----------------------------------------------------------------------------
(* Writing the all-day patch.  Eight places are compared and written one by *)
(* one.  A failed enable takes back what it can and returns the error, but   *)
(* for the last write, which is not taken back; a failed disable stops.  Two  *)
(* disables do not disturb each other, for they only restore.               *)

Wish(on) == IF on THEN "on" ELSE "off"
Done(wish) == IF wish = "on" THEN "all" ELSE "none"

Left(wish) ==
    IF ~running THEN {patched}
    ELSE IF crossed \/ wish = "on" THEN {"none", "part", "all"}
    ELSE {"none", patched} \cup (IF patched = "all" THEN {"part"} ELSE {})

\* A thread begins to write what it has just read in the settings.
Begins(w, wish) ==
    /\ writing' = [writing EXCEPT ![w] = wish]
    /\ crossed' = (crossed \/ \E v \in Writers \ {w} :
                                 {writing[v], wish} \in {{"on"}, {"on", "off"}})
    /\ UNCHANGED patched

Ends(w) ==
    /\ writing[w] # "no"
    /\ patched' \in Left(writing[w])
    /\ writing' = [writing EXCEPT ![w] = "no"]
    /\ crossed' = (crossed /\ \E v \in Writers \ {w} : writing[v] # "no")

\* A write that nothing disturbs and whose WriteProcessMemory calls succeed.
Succeeds(w) ==
    /\ running /\ ~crossed
    /\ Ends(w) /\ patched' = Done(writing[w])

-----------------------------------------------------------------------------
(* The window's thread.                                                    *)

\* build_ui and apply_settings, which applies the settings to the client too; or
\* a failure, which ends the thread.
WindowBuilds ==
    /\ window.at = "building"
    /\ \/ window' = [window EXCEPT !.at = "open"] /\ Begins("window", Wish(settings))
       \/ window' = [window EXCEPT !.at = "ended"] /\ UNCHANGED patch
    /\ UNCHANGED <<world, listener, record, settings, cancel, visible, helpers>>

WindowWrites ==
    /\ Ends("window")
    /\ UNCHANGED <<world, listener, record, settings, cancel, visible, window,
                   helpers>>

\* The thread is in its message loop.
Idle == window.at = "open" /\ writing["window"] = "no"

\* Mutant of WindowCloses: the window looks for the request only while it is shown.
WindowClosesWhenShown ==
    /\ Idle /\ window.shown /\ visible = "close"
    /\ window' = [at |-> "ended", shown |-> FALSE]
    /\ UNCHANGED <<world, listener, record, settings, cancel, visible, helpers,
                   patch>>

\* on_visible_tick
WindowCloses ==
    /\ Idle /\ visible = "close"
    /\ window' = [at |-> "ended", shown |-> FALSE]
    /\ UNCHANGED <<world, listener, record, settings, cancel, visible, helpers,
                   patch>>

WindowHides ==
    /\ Idle /\ visible = "hidden" /\ window.shown
    /\ window' = [window EXCEPT !.shown = FALSE]
    /\ UNCHANGED <<world, listener, record, settings, cancel, visible, helpers,
                   patch>>

WindowShows ==
    /\ Idle /\ visible = "shown" /\ ~window.shown
    /\ window' = [window EXCEPT !.shown = TRUE]
    /\ Begins("window", Wish(settings))
    /\ UNCHANGED <<world, listener, record, settings, cancel, visible, helpers>>

\* on_close
ClickX ==
    /\ Idle /\ window.shown
    /\ visible' = "hidden"
    /\ window' = [window EXCEPT !.shown = FALSE]
    /\ UNCHANGED <<world, listener, record, settings, cancel, helpers, patch>>

\* on_misc_change
ClickAllDay ==
    /\ Idle /\ window.shown
    /\ settings' = ~settings
    /\ Begins("window", Wish(settings'))
    /\ UNCHANGED <<world, listener, record, cancel, visible, window, helpers>>

-----------------------------------------------------------------------------
(* The threads of the scheduler.                                           *)

\* Mutant of SyncBegins: the thread only ever enables the patch.
SyncBeginsEnabling ==
    /\ sync = "running" /\ writing["sync"] = "no" /\ ~cancel
    /\ settings /\ Begins("sync", "on")
    /\ UNCHANGED <<world, listener, record, settings, cancel, visible, window,
                   helpers>>

\* all_day_sync_tick
SyncBegins ==
    /\ sync = "running" /\ writing["sync"] = "no" /\ ~cancel
    /\ Begins("sync", Wish(settings))
    /\ UNCHANGED <<world, listener, record, settings, cancel, visible, window,
                   helpers>>

SyncWrites ==
    /\ Ends("sync")
    /\ UNCHANGED <<world, listener, record, settings, cancel, visible, window,
                   helpers>>

SyncEnds ==
    /\ sync = "running" /\ writing["sync"] = "no" /\ cancel
    /\ sync' = "ended"
    /\ UNCHANGED <<world, listener, record, settings, cancel, visible, window,
                   poller, hotkey, patch>>

\* tick_loop, and the worker of the hotkeys; what a tick does, calls of at most five
\* seconds each, the session does not see.
PollerEnds ==
    /\ poller = "running" /\ cancel
    /\ poller' = "ended"
    /\ UNCHANGED <<world, listener, record, settings, cancel, visible, window,
                   sync, hotkey, patch>>

\* The thread that posts WM_QUIT waits for cancel, then for the id of the hook
\* thread, for a second at most; a thread without a queue does not get the message.
Poster ==
    /\ hotkey.poster = "waiting" /\ cancel
    /\ hotkey' = [hotkey EXCEPT !.poster = "ended", !.quit = hotkey.hook = "pumping"]

\* The hook thread stores its id, makes its queue and installs the hook.
Hook ==
    \/ /\ hotkey.hook = "starting"
       /\ hotkey' = [hotkey EXCEPT !.hook = "named"]
    \/ /\ hotkey.hook = "named"
       /\ \E h \in {"pumping", "ended"} : hotkey' = [hotkey EXCEPT !.hook = h]
    \/ /\ hotkey.hook = "pumping" /\ hotkey.quit
       /\ hotkey' = [hotkey EXCEPT !.hook = "ended"]

HotkeyThreads ==
    /\ Poster \/ Hook
    /\ UNCHANGED <<world, listener, record, settings, cancel, visible, window,
                   sync, poller, patch>>

-----------------------------------------------------------------------------
(* The listener.                                                           *)

\* What an iteration can find: a read of the game state that fails counts as not in
\* the world.  Home may go down in any iteration.
Samples == {FALSE, player # Nobody}

Sampled(next, inWorld) == [at |-> next, inWorld |-> inWorld, tries |-> 0]

Leaving(inWorld) == session /\ listener.inWorld /\ ~inWorld

\* LhxActiveSession::shutdown, up to the joins.
Shutdown ==
    /\ cancel' = TRUE /\ visible' = "close" /\ failures' = {}
    /\ UNCHANGED <<world, session, profile, files, settings, window, helpers, patch>>

GameGone ==
    /\ listener.at = "poll" /\ ~running
    /\ listener' = [listener EXCEPT !.at = IF session THEN "joining" ELSE "ended"]
    /\ IF session THEN Shutdown
       ELSE UNCHANGED <<world, record, settings, cancel, visible, window, helpers,
                        patch>>

Leaves ==
    /\ listener.at = "poll" /\ running
    /\ \E inWorld \in Samples :
          Leaving(inWorld) /\ listener' = Sampled("joining", inWorld)
    /\ Shutdown

\* Home shows and hides the window, if the game is the foreground window.
Stays ==
    /\ listener.at = "poll" /\ running
    /\ \E inWorld \in Samples :
          ~Leaving(inWorld) /\ listener' = Sampled("poll", inWorld)
    /\ \/ UNCHANGED visible
       \/ /\ session
          /\ visible' = IF visible = "shown" THEN "hidden" ELSE "shown"
    /\ UNCHANGED <<world, record, settings, cancel, window, helpers, patch>>

HomeStarts ==
    /\ listener.at = "poll" /\ running /\ ~session
    /\ player # Nobody
    /\ listener' = Sampled("naming", TRUE)
    /\ UNCHANGED <<world, record, settings, cancel, visible, window, helpers, patch>>

\* start_lhx_session, once the name is known.  A file that cannot be read gives the
\* default settings.
Starts(name) ==
    /\ listener' = [listener EXCEPT !.at = "announcing"]
    /\ session' = TRUE /\ profile' = name
    /\ settings' \in {files[name], FALSE}
    /\ cancel' = FALSE /\ visible' = "shown"
    /\ window' = [at |-> "building", shown |-> FALSE]
    /\ sync' = "running" /\ poller' = "running"
    /\ hotkey' = [hook |-> "starting", poster |-> "waiting", quit |-> FALSE]
    /\ UNCHANGED <<world, files, failures, patch>>

\* read_lhx_profile_name
NameRead ==
    /\ listener.at = "naming" /\ player # Nobody
    /\ Starts(player)

NameFails ==
    /\ listener.at = "naming"
    /\ IF listener.tries + 1 = NameTries
       THEN Starts(Fallback)
       ELSE /\ listener' = [listener EXCEPT !.tries = @ + 1]
            /\ UNCHANGED <<world, record, settings, cancel, visible, window, helpers,
                           patch>>

\* Mutant of Announced: the iteration ends with a fresh look at the game.
AnnouncedLate ==
    /\ listener.at = "announcing"
    /\ listener' = [listener EXCEPT !.at = "poll", !.inWorld = player # Nobody, !.tries = 0]
    /\ UNCHANGED <<world, record, settings, cancel, visible, window, helpers, patch>>

\* push_lhx_started returns, after five seconds at the latest.
Announced ==
    /\ listener.at = "announcing"
    /\ listener' = [listener EXCEPT !.at = "poll", !.tries = 0]
    /\ UNCHANGED <<world, record, settings, cancel, visible, window, helpers, patch>>

HelpersEnded ==
    /\ sync = "ended" /\ poller = "ended"
    /\ hotkey.hook = "ended" /\ hotkey.poster = "ended"

\* Mutants of Joined: the window, or the scheduler's threads are not waited for.
JoinedHelpers ==
    /\ listener.at = "joining" /\ HelpersEnded
    /\ listener' = [listener EXCEPT !.at = "restoring"]
    /\ UNCHANGED <<world, record, settings, cancel, visible, window, helpers, patch>>

JoinedWindow ==
    /\ listener.at = "joining" /\ window.at = "ended"
    /\ listener' = [listener EXCEPT !.at = "restoring"]
    /\ UNCHANGED <<world, record, settings, cancel, visible, window, helpers, patch>>

Joined ==
    /\ listener.at = "joining" /\ HelpersEnded /\ window.at = "ended"
    /\ listener' = [listener EXCEPT !.at = "restoring"]
    /\ UNCHANGED <<world, record, settings, cancel, visible, window, helpers, patch>>

\* restore_all_misc_patches
Restores ==
    /\ listener.at = "restoring"
    /\ \/ running /\ patched' = "none" /\ UNCHANGED failures
       \/ patched' \in Left("off") /\ failures' = failures \cup {"restore"}
    /\ listener' = [listener EXCEPT !.at = "saving"]
    /\ UNCHANGED <<world, session, profile, files, settings, cancel, visible,
                   window, helpers, writing, crossed>>

\* profile::save
Saves ==
    /\ listener.at = "saving"
    /\ \/ files' = [files EXCEPT ![profile] = settings] /\ UNCHANGED failures
       \/ UNCHANGED files /\ failures' = failures \cup {"save"}
    /\ session' = FALSE
    /\ listener' = [listener EXCEPT !.at = "poll"]
    /\ UNCHANGED <<world, profile, settings, cancel, visible, window, helpers, patch>>

-----------------------------------------------------------------------------
Player == EntersOrLeaves \/ GameExits \/ ClickX \/ ClickAllDay
OnVisibleTick == WindowCloses \/ WindowHides \/ WindowShows
Window == WindowBuilds \/ WindowWrites \/ OnVisibleTick
Sync == SyncBegins \/ SyncWrites \/ SyncEnds
Starting == NameRead \/ NameFails \/ Announced
Ending == Joined \/ Restores \/ Saves
Listener == GameGone \/ Leaves \/ Stays \/ HomeStarts \/ Starting \/ Ending

Next == Player \/ Window \/ Sync \/ PollerEnds \/ HotkeyThreads \/ Listener

\* The threads run, each call returns, and a write to a living client succeeds now
\* and then.  The visible timer fires between the clicks of the player, who is
\* slower than its 50 ms.  Nobody has to press Home, and no read has to fail.
Fairness ==
    /\ WF_vars(GameGone) /\ WF_vars(Leaves /\ player = Nobody)
    /\ WF_vars(Starting) /\ WF_vars(Ending)
    /\ WF_vars(PollerEnds)
    /\ WF_vars(HotkeyThreads /\ Poster) /\ WF_vars(HotkeyThreads /\ Hook)
    /\ WF_vars(WindowBuilds) /\ WF_vars(WindowWrites) /\ SF_vars(OnVisibleTick)
    /\ WF_vars(Sync) /\ SF_vars(SyncWrites /\ Succeeds("sync"))

Spec == Init /\ [][Next]_vars /\ Fairness

-----------------------------------------------------------------------------
(* Safety.                                                                 *)

Over == ~session /\ profile # Nobody

\* What a session patched in the client goes with it, whatever its threads were
\* about to write when it ended, unless the restore itself has failed, which is
\* logged (LhxActiveSession::shutdown, restore_all_misc_patches).
PatchesGoWithSession == Over /\ "restore" \notin failures => patched = "none"

\* The settings as the player last left them are in the file of the character the
\* session was started for, unless the save has failed, which is logged: no edit
\* comes after the copy that is saved (LhxActiveSession::shutdown, profile::save).
EditsAreSaved == Over /\ "save" \notin failures => files[profile] = settings

-----------------------------------------------------------------------------
(* Liveness.                                                               *)

\* A join that waits for ever: the request to close was overwritten, or WM_QUIT
\* was posted to a thread that had no queue yet.
Stuck ==
    /\ listener.at = "joining"
    /\ \/ visible # "close"
       \/ hotkey.poster = "ended" /\ hotkey.hook # "ended" /\ ~hotkey.quit

\* When the player stays out of the world no session stays behind, also when he left
\* while the session was being started (spawn_lhx_home_toggle_thread).
LeavingEndsSession == <>[](player = Nobody) => <>[](~session \/ Stuck)

\* The end of the game ends the listener, which the launcher waits for
\* (run_lhx_aux_until_game_exit).
ExitEndsLauncher == ~running ~> (listener.at = "ended" \/ Stuck)

\* Sessions end with the player's stay in the world, and the listener with the game.
SessionsEnd == LeavingEndsSession /\ ExitEndsLauncher

\* Once the player leaves the window alone the client is patched as the settings
\* want it again and again, whatever an overlap of the window's writes and the
\* thread's or a failed write has left (all_day_sync_tick).
PatchFollowsSettings ==
    \A on \in BOOLEAN :
        <>[](session /\ listener.at = "poll" /\ running /\ visible = "hidden" /\ settings = on)
            => []<>(patched = Done(Wish(on)))
-----------------------------------------------------------------------------
(***************************************************************************)
(* What the end of a session guarantees for every set of characters and any *)
(* number of attempts at the name.                                          *)
(***************************************************************************)

USE SessionAssumption

-----------------------------------------------------------------------------
(* The types, in the groups in which the actions leave them alone.         *)

WorldOK == running \in BOOLEAN /\ player \in Characters \cup {Nobody}
ListenerOK ==
    listener \in [at : {"poll", "naming", "announcing", "joining",
                        "restoring", "saving", "ended"},
                  inWorld : BOOLEAN, tries : 0 .. NameTries - 1]
RecordOK ==
    /\ session \in BOOLEAN /\ profile \in Profiles \cup {Nobody}
    /\ files \in [Profiles -> BOOLEAN]
    /\ failures \subseteq {"restore", "save"}
SettingsOK == settings \in BOOLEAN
CancelOK == cancel \in BOOLEAN
VisibleOK == visible \in {"hidden", "shown", "close"}
WindowOK == window \in [at : {"none", "building", "open", "ended"}, shown : BOOLEAN]
HotkeyOK ==
    hotkey \in [hook : {"none", "starting", "named", "pumping", "ended"},
                poster : {"none", "waiting", "ended"}, quit : BOOLEAN]
HelpersOK ==
    /\ sync \in {"none", "running", "ended"} /\ poller \in {"none", "running", "ended"}
    /\ HotkeyOK
WritingOK == writing \in [Writers -> {"no", "on", "off"}] /\ crossed \in BOOLEAN
PatchOK == patched \in {"none", "part", "all"} /\ WritingOK

AllOK ==
    /\ WorldOK /\ ListenerOK /\ RecordOK /\ SettingsOK /\ CancelOK
    /\ VisibleOK /\ WindowOK /\ HelpersOK /\ PatchOK

LEMMA TypeParts == (TypeOK <=> AllOK) /\ (TypeOK' <=> AllOK')
  BY Zenon DEF TypeOK, AllOK, WorldOK, ListenerOK, RecordOK, SettingsOK, CancelOK,
     VisibleOK, WindowOK, HelpersOK, HotkeyOK, PatchOK, WritingOK

\* What stays keeps its type.
LEMMA TypesStay ==
    ASSUME TypeOK
    PROVE  /\ UNCHANGED world => WorldOK'
           /\ UNCHANGED listener => ListenerOK'
           /\ UNCHANGED record => RecordOK'
           /\ UNCHANGED settings => SettingsOK'
           /\ UNCHANGED cancel => CancelOK'
           /\ UNCHANGED visible => VisibleOK'
           /\ UNCHANGED window => WindowOK'
           /\ UNCHANGED helpers => HelpersOK'
           /\ UNCHANGED writing /\ UNCHANGED crossed => WritingOK'
           /\ UNCHANGED patch => PatchOK'
<1>1. UNCHANGED world => WorldOK'
  BY TypeParts DEF AllOK, world, WorldOK
<1>2. UNCHANGED listener => ListenerOK'
  BY TypeParts DEF AllOK, ListenerOK
<1>3. UNCHANGED record => RecordOK'
  BY TypeParts DEF AllOK, record, RecordOK, Profiles
<1>4. UNCHANGED settings => SettingsOK'
  BY TypeParts DEF AllOK, SettingsOK
<1>5. UNCHANGED cancel => CancelOK'
  BY TypeParts DEF AllOK, CancelOK
<1>6. UNCHANGED visible => VisibleOK'
  BY TypeParts DEF AllOK, VisibleOK
<1>7. UNCHANGED window => WindowOK'
  BY TypeParts DEF AllOK, WindowOK
<1>8. UNCHANGED helpers => HelpersOK'
  BY TypeParts DEF AllOK, helpers, HelpersOK, HotkeyOK
<1>9. UNCHANGED writing /\ UNCHANGED crossed => WritingOK'
  BY TypeParts DEF AllOK, PatchOK, WritingOK
<1>10. UNCHANGED patch => PatchOK'
  BY <1>9, TypeParts DEF AllOK, patch, PatchOK
<1>11. QED
  BY <1>1, <1>2, <1>3, <1>4, <1>5, <1>6, <1>7, <1>8, <1>9, <1>10

LEMMA WritesOK ==
    ASSUME TypeOK, NEW w \in Writers
    PROVE  /\ \A on \in BOOLEAN : Begins(w, Wish(on)) => PatchOK'
           /\ Ends(w) => PatchOK'
           /\ Left("off") \subseteq {"none", "part", "all"}
<1> USE TypeParts DEF AllOK, PatchOK, WritingOK
<1>1. ASSUME NEW on \in BOOLEAN, Begins(w, Wish(on)) PROVE PatchOK'
  BY <1>1 DEF Begins, Wish
<1>2. \A wish : Left(wish) \subseteq {"none", "part", "all"}
  BY DEF Left
<1>3. ASSUME Ends(w) PROVE PatchOK'
  BY <1>2, <1>3 DEF Ends
<1>4. QED BY <1>1, <1>2, <1>3

\* The start of a session, whatever the name.
LEMMA StartOK ==
    ASSUME TypeOK, NEW name \in Profiles, Starts(name)
    PROVE  TypeOK'
<1> USE TypeParts DEF AllOK, Starts
<1>1. WorldOK' /\ PatchOK'
  BY TypesStay
<1>2. ListenerOK' /\ WindowOK' /\ VisibleOK'
  BY DEF ListenerOK, WindowOK, VisibleOK
<1>3. RecordOK'
  BY DEF RecordOK
<1>4. SettingsOK' /\ CancelOK'
  BY DEF SettingsOK, CancelOK, RecordOK
<1>5. HelpersOK'
  BY DEF HelpersOK, HotkeyOK
<1>6. QED BY <1>1, <1>2, <1>3, <1>4, <1>5

LEMMA TypeKept == TypeOK /\ [Next]_vars => TypeOK'
<1> SUFFICES ASSUME TypeOK, [Next]_vars PROVE TypeOK'
  OBVIOUS
<1> USE TypeParts, TypesStay DEF AllOK
<1>1. "window" \in Writers /\ "sync" \in Writers
  BY DEF Writers
<1>2. CASE EntersOrLeaves
  BY <1>2 DEF EntersOrLeaves, WorldOK
<1>3. CASE GameExits
  BY <1>3 DEF GameExits, WorldOK, PatchOK
<1>4. CASE WindowBuilds \/ WindowWrites
  <2>1. WindowOK' /\ PatchOK'
    BY <1>1, <1>4, WritesOK DEF WindowBuilds, WindowWrites, WindowOK, SettingsOK
  <2>2. QED BY <1>4, <2>1 DEF WindowBuilds, WindowWrites
<1>5. CASE OnVisibleTick
  <2>1. WindowOK'
    <3>1. CASE WindowCloses
      BY <3>1 DEF WindowCloses, WindowOK
    <3>2. CASE WindowHides
      BY <3>2 DEF WindowHides, WindowOK
    <3>3. CASE WindowShows
      BY <3>3 DEF WindowShows, WindowOK
    <3>4. QED BY <1>5, <3>1, <3>2, <3>3 DEF OnVisibleTick
  <2>2. PatchOK'
    BY <1>1, <1>5, WritesOK DEF OnVisibleTick, WindowCloses, WindowHides, WindowShows,
       SettingsOK
  <2>3. QED
    BY <1>5, <2>1, <2>2 DEF OnVisibleTick, WindowCloses, WindowHides, WindowShows
<1>6. CASE ClickX
  BY <1>6 DEF ClickX, WindowOK, VisibleOK
<1>7. CASE ClickAllDay
  <2>1. settings' \in BOOLEAN
    BY <1>7 DEF ClickAllDay
  <2>2. PatchOK'
    BY <1>1, <1>7, <2>1, WritesOK DEF ClickAllDay
  <2>3. QED BY <1>7, <2>1, <2>2 DEF ClickAllDay, SettingsOK
<1>8. CASE SyncBegins \/ SyncWrites
  BY <1>1, <1>8, WritesOK DEF SyncBegins, SyncWrites, SettingsOK
<1>9. CASE SyncEnds \/ PollerEnds
  <2>1. HotkeyOK'
    BY <1>9 DEF SyncEnds, PollerEnds, HelpersOK, HotkeyOK
  <2>2. HelpersOK'
    BY <1>9, <2>1 DEF SyncEnds, PollerEnds, HelpersOK
  <2>3. QED BY <1>9, <2>2 DEF SyncEnds, PollerEnds
<1>10. CASE HotkeyThreads
  <2>1. HotkeyOK'
    BY <1>10 DEF HotkeyThreads, Poster, Hook, HelpersOK, HotkeyOK
  <2>2. QED BY <1>10, <2>1 DEF HotkeyThreads, HelpersOK
<1>11. ASSUME Shutdown PROVE TypeOK' <=> ListenerOK'
  BY <1>11 DEF Shutdown, CancelOK, VisibleOK, RecordOK
<1>12. CASE GameGone
  <2>1. ListenerOK'
    BY <1>12 DEF GameGone, ListenerOK
  <2>2. QED BY <1>11, <1>12, <2>1 DEF GameGone
<1>13. CASE Leaves \/ Stays \/ HomeStarts
  <2>1. \A inWorld \in BOOLEAN, next \in {"poll", "naming", "joining"} :
          listener' = Sampled(next, inWorld) => ListenerOK'
    <3>1. 0 \in 0 .. NameTries - 1
      OBVIOUS
    <3>2. QED BY <3>1 DEF Sampled, ListenerOK
  <2> HIDE DEF ListenerOK
  <2>4. ListenerOK'
    BY <1>13, <2>1 DEF Leaves, Stays, HomeStarts, Samples
  <2>2. VisibleOK' \/ Leaves
    BY <1>13 DEF Stays, HomeStarts, VisibleOK
  <2>3. QED BY <1>11, <1>13, <2>2, <2>4 DEF Leaves, Stays, HomeStarts
<1>14. CASE NameRead
  BY <1>14, StartOK DEF NameRead, Profiles, WorldOK
<1>15. CASE NameFails
  <2>1. CASE listener.tries + 1 = NameTries
    BY <1>15, <2>1, StartOK DEF NameFails, Profiles
  <2>2. CASE listener.tries + 1 # NameTries
    <3>1. listener.tries + 1 \in 0 .. NameTries - 1
      BY <2>2 DEF ListenerOK
    <3>2. ListenerOK'
      BY <1>15, <2>2, <3>1 DEF NameFails, ListenerOK
    <3>3. QED BY <1>15, <2>2, <3>2 DEF NameFails
  <2>3. QED BY <2>1, <2>2
<1>16. CASE Announced \/ Joined
  <2>1. ListenerOK'
    <3>1. 0 \in 0 .. NameTries - 1
      OBVIOUS
    <3>2. QED BY <1>16, <3>1 DEF Announced, Joined, ListenerOK
  <2>2. QED BY <1>16, <2>1 DEF Announced, Joined
<1>17. CASE Restores
  <2>1. ListenerOK'
    BY <1>17 DEF Restores, ListenerOK
  <2>2. PatchOK'
    BY <1>1, <1>17, WritesOK DEF Restores, PatchOK
  <2>3. RecordOK'
    BY <1>17 DEF Restores, RecordOK
  <2>4. QED BY <1>17, <2>1, <2>2, <2>3 DEF Restores
<1>18. CASE Saves
  <2>1. ListenerOK'
    BY <1>18 DEF Saves, ListenerOK
  <2>2. RecordOK'
    BY <1>18 DEF Saves, RecordOK, SettingsOK
  <2>3. QED BY <1>18, <2>1, <2>2 DEF Saves
<1>19. CASE UNCHANGED vars
  BY <1>19 DEF vars
<1>20. QED
  BY <1>2, <1>3, <1>4, <1>5, <1>6, <1>7, <1>8, <1>9, <1>10, <1>12, <1>13, <1>14,
     <1>15, <1>16, <1>17, <1>18, <1>19
     DEF Next, Player, Window, Sync, Listener, Starting, Ending

\* Every variable stays in its type; the name is not tried more often than it may be.
THEOREM TypeCorrect == Spec => []TypeOK
<1>1. ASSUME Init PROVE TypeOK
  <2> USE <1>1 DEF Init
  <2>1. WorldOK /\ SettingsOK /\ CancelOK /\ VisibleOK
    BY DEF WorldOK, SettingsOK, CancelOK, VisibleOK
  <2>2. ListenerOK
    <3>1. 0 \in 0 .. NameTries - 1
      OBVIOUS
    <3>2. QED BY <3>1 DEF ListenerOK
  <2>3. RecordOK
    BY DEF RecordOK
  <2>4. WindowOK /\ HelpersOK
    BY DEF WindowOK, HelpersOK, HotkeyOK
  <2>5. PatchOK
    BY DEF PatchOK, WritingOK
  <2>6. QED BY <2>1, <2>2, <2>3, <2>4, <2>5, TypeParts DEF AllOK
<1>2. QED
  BY <1>1, TypeKept, PTL DEF Spec

-----------------------------------------------------------------------------
(* The promises about the end of a session.                                *)

\* What keeps the promises of a session, step by step: where the listener is in a
\* session; that its threads are gone before anything is restored; that only a thread
\* that runs is about to write; and that a session has a profile.
InSession ==
    /\ listener.at \in {"announcing", "joining", "restoring", "saving"} => session
    /\ listener.at \in {"naming", "ended"} => ~session
Quiet == sync # "running" /\ window.at \notin {"building", "open"}
WritersRun ==
    /\ writing["window"] # "no" => window.at = "open"
    /\ writing["sync"] # "no" => sync = "running"
SessionInvariant ==
    /\ InSession /\ WritersRun
    /\ (session => profile # Nobody)
    /\ (~session \/ listener.at \in {"restoring", "saving"} => Quiet)
    /\ (listener.at = "saving" /\ "restore" \notin failures => patched = "none")
    /\ PatchesGoWithSession /\ EditsAreSaved

\* What an update of the listener's or the window's record changes.
LEMMA Updates ==
    ASSUME TypeOK
    PROVE  /\ \A a : [listener EXCEPT !.at = a].at = a
           /\ \A a, t : [listener EXCEPT !.at = a, !.tries = t].at = a
           /\ \A t : [listener EXCEPT !.tries = t].at = listener.at
           /\ \A a : [window EXCEPT !.at = a].at = a
  BY TypeParts DEF AllOK, ListenerOK, WindowOK

\* What the window is about to write leaves alone what the thread is about to write.
LEMMA WindowOnly ==
    ASSUME TypeOK, NEW x, writing' = [writing EXCEPT !["window"] = x]
    PROVE  writing'["sync"] = writing["sync"]
  BY TypeParts DEF AllOK, PatchOK, WritingOK, Writers

\* A session starts with a name, and nothing of an earlier one is left to write.
LEMMA StartKeeps ==
    ASSUME TypeOK, SessionInvariant, listener.at = "naming",
           NEW name \in Profiles, Starts(name)
    PROVE  SessionInvariant'
<1>1. name # Nobody
  BY DEF Profiles
<1>2. listener'.at = "announcing" /\ session' /\ profile' = name
  BY Updates DEF Starts
<1>3. InSession'
  BY <1>2 DEF InSession
<1>4. WritersRun'
  BY DEF SessionInvariant, InSession, Quiet, WritersRun, Starts, patch
<1>5. QED
  BY <1>1, <1>2, <1>3, <1>4 DEF SessionInvariant, PatchesGoWithSession, EditsAreSaved, Over

LEMMA InvariantKept == TypeOK /\ SessionInvariant /\ [Next]_vars => SessionInvariant'
<1> SUFFICES ASSUME TypeOK, SessionInvariant, [Next]_vars PROVE SessionInvariant'
  OBVIOUS
<1> USE DEF SessionInvariant, InSession, Quiet, WritersRun, PatchesGoWithSession,
    EditsAreSaved, Over
<1>1. "window" \in Writers /\ "sync" \in Writers /\ Writers = {"window", "sync"}
  BY DEF Writers
<1>2. CASE EntersOrLeaves
  BY <1>2 DEF EntersOrLeaves, record, helpers, patch
<1>3. CASE GameExits
  BY <1>3 DEF GameExits, record, helpers
<1>4. CASE WindowBuilds
  <2>1. UNCHANGED <<listener, record, helpers, patched, settings>>
    BY <1>4 DEF WindowBuilds, Begins, patch
  <2>2. session /\ listener.at \notin {"restoring", "saving"}
    BY <1>4 DEF WindowBuilds
  <2>3. WritersRun'
    <3>1. writing'["sync"] = writing["sync"] /\ sync' = sync
      <4>1. (\E x : writing' = [writing EXCEPT !["window"] = x]) \/ writing' = writing
        BY <1>4, Zenon DEF WindowBuilds, Begins, patch
      <4>2. sync' = sync
        BY <1>4 DEF WindowBuilds, helpers
      <4>3. QED BY <4>1, <4>2, WindowOnly
    <3>2. writing'["window"] # "no" => window'.at = "open"
      <4>1. CASE window' = [window EXCEPT !.at = "open"]
        BY <4>1, Updates
      <4>2. CASE UNCHANGED patch
        BY <4>2, <1>4 DEF WindowBuilds, patch
      <4>3. QED BY <1>4, <4>1, <4>2 DEF WindowBuilds
    <3>3. QED BY <3>1, <3>2
  <2>4. QED
    BY <2>1, <2>2, <2>3 DEF record, helpers
<1>5. CASE WindowWrites
  BY <1>1, <1>5 DEF WindowWrites, Ends, record, helpers
<1>6. CASE WindowCloses \/ WindowHides
  BY <1>1, <1>6 DEF WindowCloses, WindowHides, Idle, record, helpers, patch
<1>7. CASE WindowShows
  BY <1>1, <1>7 DEF WindowShows, Begins, Wish, Idle, record, helpers
<1>8. CASE ClickX
  BY <1>8 DEF ClickX, Idle, record, helpers, patch
<1>9. CASE ClickAllDay
  BY <1>1, <1>9 DEF ClickAllDay, Begins, Wish, Idle, record, helpers
<1>10. CASE SyncBegins
  BY <1>1, <1>10 DEF SyncBegins, Begins, Wish, record, helpers
<1>11. CASE SyncWrites
  BY <1>1, <1>11 DEF SyncWrites, Ends, record, helpers
<1>12. CASE SyncEnds
  BY <1>1, <1>12 DEF SyncEnds, record, patch
<1>13. CASE PollerEnds \/ HotkeyThreads
  BY <1>13 DEF PollerEnds, HotkeyThreads, record, patch
<1>14. CASE GameGone
  BY <1>14 DEF GameGone, Shutdown, record, helpers, patch
<1>15. CASE Leaves
  BY <1>15 DEF Leaves, Leaving, Sampled, Shutdown, helpers, patch
<1>16. CASE Stays \/ HomeStarts
  BY <1>16 DEF Stays, HomeStarts, Sampled, record, helpers, patch
<1>17. CASE NameRead \/ NameFails
  <2>1. CASE NameRead
    <3>1. player \in Profiles
      BY <2>1, TypeParts DEF NameRead, Profiles, AllOK, WorldOK
    <3>2. QED BY <2>1, <3>1, StartKeeps DEF NameRead
  <2>2. CASE NameFails /\ listener.tries + 1 = NameTries
    <3>1. Fallback \in Profiles
      BY DEF Profiles
    <3>2. QED BY <2>2, <3>1, StartKeeps DEF NameFails
  <2>3. CASE NameFails /\ listener.tries + 1 # NameTries
    <3>1. listener'.at = listener.at
      <4>1. \E t : listener' = [listener EXCEPT !.tries = t]
        BY <2>3, Zenon DEF NameFails
      <4>2. QED BY <4>1, Updates
    <3>2. UNCHANGED <<record, settings, window, helpers, patch>>
      BY <2>3 DEF NameFails
    <3>3. QED BY <3>1, <3>2 DEF record, helpers, patch
  <2>4. QED BY <1>17, <2>1, <2>2, <2>3
<1>18. CASE Announced \/ Joined
  <2>1. UNCHANGED <<record, settings, window, helpers, patch>>
    BY <1>18 DEF Announced, Joined
  <2>2. CASE Announced
    <3>1. listener'.at = "poll" /\ listener.at = "announcing"
      BY <2>2, Updates DEF Announced
    <3>2. QED BY <2>1, <3>1 DEF record, helpers, patch
  <2>3. CASE Joined
    <3>1. listener'.at = "restoring" /\ listener.at = "joining" /\ Quiet
      BY <2>3, Updates DEF Joined, HelpersEnded
    <3>2. QED BY <2>1, <3>1 DEF record, helpers, patch
  <2>4. QED BY <1>18, <2>2, <2>3
<1>19. CASE Restores
  BY <1>19 DEF Restores, helpers
<1>20. CASE Saves
  <2>1. listener'.at = "poll" /\ listener.at = "saving"
    BY <1>20, Updates DEF Saves
  <2>2. profile \in Profiles /\ "save" \notin failures' => files' = [files EXCEPT ![profile] = settings]
    BY <1>20 DEF Saves
  <2>3. profile \in Profiles /\ "save" \notin failures' => files'[profile] = settings
    BY <2>2, TypeParts DEF AllOK, RecordOK
  <2>4. profile \in Profiles
    BY <2>1, TypeParts DEF AllOK, RecordOK
  <2>5. session' = FALSE /\ UNCHANGED <<profile, settings, window, helpers, patch>>
    BY <1>20 DEF Saves
  <2>6. "restore" \notin failures' => patched' = "none"
    BY <1>20 DEF Saves, patch
  <2>7. EditsAreSaved'
    BY <2>3, <2>4, <2>5
  <2>8. QED BY <2>1, <2>5, <2>6, <2>7 DEF helpers, patch
<1>21. CASE UNCHANGED vars
  BY <1>21 DEF vars, record, helpers, patch
<1>22. QED
  BY <1>2, <1>3, <1>4, <1>5, <1>6, <1>7, <1>8, <1>9, <1>10, <1>11, <1>12, <1>13,
     <1>14, <1>15, <1>16, <1>17, <1>18, <1>19, <1>20, <1>21
     DEF Next, Player, Window, OnVisibleTick, Sync, Listener, Starting, Ending

LEMMA InvariantHolds == Spec => []SessionInvariant
<1>1. Init => SessionInvariant
  BY DEF Init, SessionInvariant, InSession, Quiet, WritersRun, PatchesGoWithSession,
     EditsAreSaved, Over, Writers
<1>2. QED
  BY <1>1, InvariantKept, TypeCorrect, PTL DEF Spec

\* Nothing of the all-day patch outlives its session, unless the restore has failed
\* (LhxActiveSession::shutdown).
THEOREM PatchesAreTakenBack == Spec => []PatchesGoWithSession
<1>1. SessionInvariant => PatchesGoWithSession
  BY DEF SessionInvariant
<1>2. QED
  BY <1>1, InvariantHolds, PTL

\* No edit is later than the copy of the settings that is saved
\* (LhxActiveSession::shutdown).
THEOREM EditsReachTheFile == Spec => []EditsAreSaved
<1>1. SessionInvariant => EditsAreSaved
  BY DEF SessionInvariant
<1>2. QED
  BY <1>1, InvariantHolds, PTL
=============================================================================
