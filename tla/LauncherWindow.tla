---------------------------- MODULE LauncherWindow ----------------------------
(***************************************************************************)
(* The launcher's window (gui.rs): its event loop with a queue of events, the  *)
(* threads that start games, and the thread that installs an update of the     *)
(* game's files.  The page in the window is locked and unlocked by events,     *)
(* too: until they are handled the player can click.  The process ends when    *)
(* the loop says so, whatever its threads do.                                  *)
(***************************************************************************)
EXTENDS Naturals, Sequences, SequencesExt

CONSTANTS
    Offers,      \* the versions that a server may offer, 0 without updates
    Proxy,       \* packets are encrypted: the game talks through this process
    Clicks,      \* bound: on the button that starts a game, 1, 2, ... of one process
    MaxClicks,   \* bound: those that are made, by what is offered
    MaxStarts,   \* bound: of the launcher, by what is offered
    MaxCloses,   \* bound: of one process
    MaxFaults    \* bound: downloads, programs, files that fail

WindowAssumption ==
    /\ Offers \subseteq Nat /\ Proxy \in BOOLEAN
    /\ Clicks \subseteq Nat /\ MaxClicks \in [Offers -> Nat] /\ MaxStarts \in [Offers -> Nat]
    /\ MaxCloses \in Nat /\ MaxFaults \in Nat

VARIABLES
    page,    \* what the player sees: "gone", "blank", "free", "locked"; and whether
    shown,   \* the window is visible
    queue,   \* of events
    running, \* game_running
    launch,  \* the threads that start games, by click
    game,    \* their games
    update,  \* the thread that installs an update: at, its version, its progress
    disk,    \* Login.ini.Updated, the packages that were extracted and eaten, the last one;
             \* and server_version of Update.ini
    past     \* history: starts, closes, faults; hasty clicks; a game without stage 2

vars == <<page, shown, queue, running, launch, game, update, disk, past>>

\* server_version of Update.ini, 0 without updates.
Target == disk.offered
NoUpdate == [at |-> "none", from |-> 0, version |-> 0, percent |-> 0]
Steps == {"none", "pending", "begins", "downloads", "extracts", "eats", "records", "fails"}
Events ==
    [is : {"prompt", "close"}] \cup [is : {"launch"}, c : Clicks] \cup [is : {"lock", "visible"}, to : BOOLEAN]

TypeOK ==
    /\ page \in {"gone", "blank", "free", "locked"} /\ shown \in BOOLEAN /\ queue \in Seq(Events)
    /\ running \in BOOLEAN
    /\ launch \in [Clicks -> {"none", "queued", "creates", "schedules", "waits", "returns", "closes", "fails"}]
    /\ game \in [Clicks -> {"none", "runs", "ended"}]
    /\ update \in [at : Steps, from : 0 .. Target, version : 0 .. Target + 1, percent : 0 .. 100]
    /\ disk \in [offered : Offers, recorded : 0 .. Target, last : 0 .. Target,
                 extracted : SUBSET (1 .. Target), eaten : SUBSET (1 .. Target)]
    /\ disk.eaten \subseteq disk.extracted
    /\ past \in [starts : 0 .. MaxStarts[Target], closes : 0 .. MaxCloses, faults : 0 .. MaxFaults,
                 hasty : BOOLEAN, orphan : BOOLEAN]

Init ==
    /\ page = "gone" /\ shown = FALSE /\ queue = <<>> /\ running = FALSE
    /\ launch = [c \in Clicks |-> "none"] /\ game = [c \in Clicks |-> "none"]
    /\ update = NoUpdate
    /\ \E offered \in Offers :
          disk = [offered |-> offered, recorded |-> 0, last |-> 0, extracted |-> {}, eaten |-> {}]
    /\ past = [starts |-> 0, closes |-> 0, faults |-> 0, hasty |-> FALSE, orphan |-> FALSE]

-------------------------------------------------------------------------------
Fault == [past EXCEPT !.faults = @ + 1]
CanFail == past.faults < MaxFaults
Up == page # "gone"

\* run_gui, up to the window: check_auto_update, which may not get through.
Start(found) ==
    /\ ~Up /\ past.starts < MaxStarts[Target]
    /\ past' = [past EXCEPT !.starts = @ + 1, !.closes = 0, !.hasty = FALSE, !.orphan = FALSE]
    /\ page' = "blank" /\ shown' = TRUE /\ queue' = <<>> /\ running' = FALSE
    /\ launch' = [c \in Clicks |-> "none"] /\ game' = [c \in Clicks |-> "none"]
    /\ update' = [NoUpdate EXCEPT !.at = IF found /\ Target > disk.recorded THEN "pending" ELSE "none"]
    /\ UNCHANGED disk

-------------------------------------------------------------------------------
(* Messages of the page: the handler runs outside the loop and puts events     *)
(* into the queue.                                                             *)

\* The update that was found is taken: nothing asks for it a second time.
Ready ==
    /\ page = "blank" /\ page' = "free"
    /\ queue' = IF update.at = "pending" THEN Append(queue, [is |-> "prompt"]) ELSE queue
    /\ UNCHANGED <<shown, running, launch, game, update, disk, past>>

Busy(c) == launch[c] # "none"
Coming == \E i \in 1 .. Len(queue) : queue[i].is \in {"prompt", "launch"} \/ queue[i] = [is |-> "lock", to |-> TRUE]

\* The player clicks as long as the page is not locked; hastily if an event that
\* is about to lock it is on its way.
LaunchClicked(c) ==
    /\ page = "free" /\ shown /\ ~Busy(c) /\ game[c] = "none" /\ c <= MaxClicks[Target]
    /\ \A d \in Clicks : d < c => game[d] # "none" \/ Busy(d)
    /\ launch' = [launch EXCEPT ![c] = "queued"]
    /\ queue' = Append(queue, [is |-> "launch", c |-> c])
    /\ past' = [past EXCEPT !.hasty = @ \/ Coming]
    /\ UNCHANGED <<page, shown, running, game, update, disk>>

CloseClicked ==
    /\ Up /\ shown /\ past.closes < MaxCloses
    /\ queue' = Append(queue, [is |-> "close"])
    /\ past' = [past EXCEPT !.closes = @ + 1]
    /\ UNCHANGED <<page, shown, running, launch, game, update, disk>>

-------------------------------------------------------------------------------
(* The loop.                                                                   *)

Next1 == Head(queue)
Is(what) == Up /\ queue # <<>> /\ Next1.is = what

\* A wrong version, to show that the properties below can fail.
AlwaysExits == TRUE

Exits == ~running

Close ==
    /\ Is("close")
    /\ IF Exits
       THEN /\ page' = "gone" /\ shown' = FALSE /\ queue' = <<>>
            /\ launch' = [c \in Clicks |-> "none"] /\ update' = NoUpdate
       ELSE shown' = FALSE /\ queue' = Tail(queue) /\ UNCHANGED <<page, launch, update>>
    /\ UNCHANGED <<running, game, disk, past>>

\* A wrong version, to show that the properties below can fail.
NothingLocks == Tail(queue)

\* The lock follows behind what is already in the queue.
ThenLocks == Append(Tail(queue), [is |-> "lock", to |-> TRUE])

LaunchGame ==
    /\ Is("launch") /\ running' = TRUE /\ queue' = ThenLocks
    /\ launch' = [launch EXCEPT ![Next1.c] = "creates"]
    /\ UNCHANGED <<page, shown, game, update, disk, past>>

AutoUpdatePrompt ==
    /\ Is("prompt") /\ queue' = ThenLocks /\ update' = [update EXCEPT !.at = "begins"]
    /\ UNCHANGED <<page, shown, running, launch, game, disk, past>>

SetLocked ==
    /\ Is("lock") /\ queue' = Tail(queue)
    /\ page' = IF Next1.to THEN "locked" ELSE "free"
    /\ UNCHANGED <<shown, running, launch, game, update, disk, past>>

SetWindowVisible ==
    /\ Is("visible") /\ shown' = Next1.to /\ queue' = Tail(queue)
    /\ UNCHANGED <<page, running, launch, game, update, disk, past>>

Loop == Close \/ LaunchGame \/ AutoUpdatePrompt \/ SetLocked \/ SetWindowVisible

-------------------------------------------------------------------------------
(* A thread that starts a game (launch_game).                                  *)

At(c, what) == Up /\ launch[c] = what
Goes(c, what) == launch' = [launch EXCEPT ![c] = what]

CreatesGame(c, fails) ==
    /\ At(c, "creates")
    /\ IF fails
       THEN CanFail /\ past' = Fault /\ Goes(c, "fails") /\ UNCHANGED <<game, queue>>
       ELSE /\ Goes(c, "schedules") /\ game' = [game EXCEPT ![c] = "runs"]
            /\ queue' = Append(queue, [is |-> "visible", to |-> FALSE]) /\ UNCHANGED past
    /\ UNCHANGED <<page, shown, running, update, disk>>

\* spawn_delayed_stage2_self; then the game is waited for if it needs this process.
SchedulesStage2(c, fails) ==
    /\ At(c, "schedules")
    /\ IF fails
       THEN CanFail /\ past' = [Fault EXCEPT !.orphan = TRUE] /\ Goes(c, "fails")
       ELSE Goes(c, IF Proxy THEN "waits" ELSE "returns") /\ UNCHANGED past
    /\ UNCHANGED <<page, shown, queue, running, game, update, disk>>

Waits(c) ==
    /\ At(c, "waits") /\ game[c] = "ended" /\ Goes(c, "returns")
    /\ UNCHANGED <<page, shown, queue, running, game, update, disk, past>>

\* A wrong version, to show that the properties below can fail.
ClosesFirst(c) ==
    \/ /\ At(c, "returns") /\ Goes(c, "closes") /\ queue' = Append(queue, [is |-> "close"])
       /\ UNCHANGED <<page, shown, running, game, update, disk, past>>
    \/ /\ At(c, "closes") /\ running' = FALSE /\ Goes(c, "none")
       /\ UNCHANGED <<page, shown, queue, game, update, disk, past>>

\* launch_game has returned: first the flag, then the event (twice, as one here).
Returns(c) ==
    \/ /\ At(c, "returns") /\ running' = FALSE /\ Goes(c, "closes")
       /\ UNCHANGED <<page, shown, queue, game, update, disk, past>>
    \/ /\ At(c, "closes") /\ queue' = Append(queue, [is |-> "close"]) /\ Goes(c, "none")
       /\ UNCHANGED <<page, shown, running, game, update, disk, past>>

Fails(c) ==
    /\ At(c, "fails") /\ running' = FALSE /\ Goes(c, "none")
    /\ queue' = queue \o <<[is |-> "visible", to |-> TRUE], [is |-> "lock", to |-> FALSE]>>
    /\ UNCHANGED <<page, shown, game, update, disk, past>>

Starter ==
    \E c \in Clicks :
        \/ Waits(c) \/ Returns(c) \/ Fails(c)
        \/ \E f \in BOOLEAN : CreatesGame(c, f) \/ SchedulesStage2(c, f)

GameEnds(c) ==
    /\ game[c] = "runs" /\ game' = [game EXCEPT ![c] = "ended"]
    /\ UNCHANGED <<page, shown, queue, running, launch, update, disk, past>>

-------------------------------------------------------------------------------
(* The thread of an update (run_auto_update_worker, install_auto_update).      *)

Doing(what) == Up /\ update.at = what
Count == Target - update.from
PctPerZip == 80 \div Count
Limit(p, most) == IF p > most THEN most ELSE p

\* A wrong version, to show that the properties below can fail.
NotShared(current) == (update.version - update.from - 1) * 80 + ((current * 80) \div 100)

\* A wrong version, to show that the properties below can fail.
OfThisZip(current) == ((current * PctPerZip) \div 100)

\* The progress while one of the packages is downloaded, in percent of all.
Percent(current) == Limit((update.version - update.from - 1) * PctPerZip + ((current * PctPerZip) \div 100), 80)

\* A wrong version, to show that the properties below can fail.
FromTheFirst == 1

FirstVersion == disk.recorded + 1

\* eat.exe is there and Update.ini has a package for every version, or not.
Plans(fails) ==
    /\ Doing("begins")
    /\ fails => CanFail
    /\ past' = IF fails THEN Fault ELSE past
    /\ update' = [update EXCEPT !.at = IF fails THEN "fails" ELSE "downloads",
                                !.from = disk.recorded, !.version = FirstVersion]
    /\ UNCHANGED <<page, shown, queue, running, launch, game, disk>>

\* 95: the most that is told of a package whose size is not known.
Downloads(current, fails) ==
    /\ Doing("downloads")
    /\ \/ /\ fails /\ CanFail /\ past' = Fault /\ update' = [update EXCEPT !.at = "fails"]
       \/ /\ ~fails /\ Percent(current) > update.percent /\ current < 100 /\ UNCHANGED past
          /\ update' = [update EXCEPT !.percent = Percent(current)]
       \/ /\ ~fails /\ UNCHANGED past /\ current = 100
          /\ update' = [update EXCEPT !.percent = Percent(current), !.at = "extracts"]
    /\ UNCHANGED <<page, shown, queue, running, launch, game, disk>>

\* The files of a package are written over the older ones, some or all of them.
Extracts(fails) ==
    /\ Doing("extracts")
    /\ IF fails
       THEN /\ CanFail /\ past' = Fault /\ update' = [update EXCEPT !.at = "fails"]
            /\ disk' = [disk EXCEPT !.extracted = @ \ {update.version}, !.eaten = @ \ {update.version},
                                    !.last = update.version]
       ELSE /\ disk' = [disk EXCEPT !.extracted = @ \cup {update.version}, !.eaten = @ \ {update.version},
                                    !.last = update.version]
            /\ update' = [update EXCEPT !.version = @ + 1,
                                        !.at = IF update.version = Target THEN "eats" ELSE "downloads"]
            /\ UNCHANGED past
    /\ UNCHANGED <<page, shown, queue, running, launch, game>>

\* A wrong version, to show that the properties below can fail.
EatsLater(fails) ==
    /\ Doing("eats") /\ ~fails /\ update' = [update EXCEPT !.at = "records"]
    /\ UNCHANGED <<page, shown, queue, running, launch, game, disk, past>>

\* eat.exe, once for all packages.
Eats(fails) ==
    /\ Doing("eats")
    /\ IF fails
       THEN CanFail /\ past' = Fault /\ update' = [update EXCEPT !.at = "fails"] /\ UNCHANGED disk
       ELSE /\ disk' = [disk EXCEPT !.eaten = disk.extracted]
            /\ update' = [update EXCEPT !.at = "records"] /\ UNCHANGED past
    /\ UNCHANGED <<page, shown, queue, running, launch, game>>

Unlocks == Append(queue, [is |-> "lock", to |-> FALSE])

\* write_local_version: another file, then renamed.
Records(fails) ==
    /\ Doing("records")
    /\ IF fails
       THEN CanFail /\ past' = Fault /\ update' = [update EXCEPT !.at = "fails"] /\ UNCHANGED <<disk, queue>>
       ELSE /\ disk' = [disk EXCEPT !.recorded = Target] /\ queue' = Unlocks /\ UNCHANGED past
            /\ update' = [NoUpdate EXCEPT !.percent = 100]
    /\ UNCHANGED <<page, shown, running, launch, game>>

\* A wrong version, to show that the properties below can fail.
FailsSilently ==
    /\ Doing("fails") /\ update' = NoUpdate
    /\ UNCHANGED <<page, shown, queue, running, launch, game, disk, past>>

UpdateFails ==
    /\ Doing("fails") /\ queue' = Unlocks /\ update' = NoUpdate
    /\ UNCHANGED <<page, shown, running, launch, game, disk, past>>

Worker ==
    \/ UpdateFails
    \/ \E f \in BOOLEAN :
        \/ Plans(f) \/ Extracts(f) \/ Eats(f) \/ Records(f)
        \/ \E current \in {95, 100} : Downloads(current, f)

Player ==
    \/ CloseClicked \/ \E c \in Clicks : LaunchClicked(c) \/ GameEnds(c)
    \/ \E f \in BOOLEAN : Start(f)
Next == Player \/ Ready \/ Loop \/ Starter \/ Worker

Spec == Init /\ [][Next]_vars /\ WF_vars(Ready) /\ WF_vars(Loop) /\ WF_vars(Starter) /\ WF_vars(Worker)

-------------------------------------------------------------------------------
\* What Login.ini.Updated says was extracted and eaten, whatever failed and
\* whenever the launcher was closed; and no older package was put over it.
RecordedIsEaten == 1 .. disk.recorded \subseteq disk.eaten
NoOldFiles == disk.recorded <= disk.last

\* The progress that is shown does not fall while an update goes on.
ProgressGrows == update.at \notin {"none", "pending", "fails"} /\ update'.at # "none" /\ Up /\ page' # "gone"
                     => update'.percent >= update.percent

Installing == Up /\ update.at \notin {"none", "pending"}
Begun(c) == Up /\ launch[c] \in {"creates", "schedules", "waits"}

\* Somebody who is not hasty starts one game only, and none under an update.
OneThing == ~past.hasty =>
    \A c \in Clicks : Begun(c) => ~Installing /\ \A d \in Clicks : Begun(d) => d = c

\* "真的 Exit 會把這些一起殺掉" (gui.rs:1013): the process does not end as long
\* as a game talks through it, but for a hasty click, and for a game that was
\* started and could not be patched.
ProxyStays == Proxy /\ ~past.hasty /\ ~past.orphan /\ past.starts > 0 /\ ~Up
                 => \A c \in Clicks : game[c] # "runs"

\* When nothing goes on in the process, its window is there and not locked.
Still == Up /\ page # "blank" /\ queue = <<>> /\ update.at = "none" /\ \A c \in Clicks : launch[c] = "none"
NotStuck == Still => shown /\ page = "free"

\* After its game the launcher ends, if nobody is hasty meanwhile.
Played(c) == Up /\ ~past.hasty /\ launch[c] \in {"returns", "closes"}
PlayedOut == ~Up \/ past.hasty
===============================================================================
