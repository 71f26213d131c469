--------------------------- MODULE BotConfigReload ---------------------------
(***************************************************************************)
(* The settings of the hunting bot: the file <character>.bot.json, the copy *)
(* in the engine (BotEngine.hunt_config), and the three who change them: the *)
(* thread of bot/mod.rs that loads the file and then watches it, the         *)
(* settings window's on_save, and the user's editor.                        *)
(*                                                                         *)
(* A setting is a pair: what the window shows, and the damage-spike          *)
(* threshold, which it does not show.                                       *)
(***************************************************************************)
EXTENDS Naturals

CONSTANTS Values,       \* the values of either half of the settings
          DefaultValue, \* HuntConfig::default()
          Debounce,     \* the 200 ms of the watcher
          MaxEvents     \* bound on the notifications under way

ASSUME ReloadAssumption ==
    /\ DefaultValue \in Values
    /\ {Debounce, MaxEvents} \subseteq Nat \ {0}

VARIABLES
    file,       \* what the file says, Torn while it says nothing that parses
    config,     \* BotEngine.hunt_config
    watcher,    \* the loading and watching thread: where it is, what it has read
    events,     \* notifications for the file not yet looked at
    age,        \* last_reload.elapsed()
    saving,     \* on_save: where it is, what it saves
    last        \* history: the last change of the settings; "calm" and "saved"
                \* are changes of the file under watch

reloadVars == <<file, config, watcher, events, age, saving, last>>

Config == [shown: Values, hidden: Values]
Default == [shown |-> DefaultValue, hidden |-> DefaultValue]
Torn == [shown |-> "torn"]

ReloadTypeOK ==
    /\ file \in Config \cup {Torn}
    /\ config \in Config
    /\ watcher \in [at: {"waiting", "loaded", "starting", "watching", "reloaded"},
                    read: Config]
    /\ events \in 0..MaxEvents
    /\ age \in 0..Debounce
    /\ saving \in [at: {"idle", "set", "open", "write"}, new: Config]
    /\ last \in {"nobody", "calm", "window", "saved"}

ReloadInit ==
    /\ file \in Config \cup {Torn}  \* Torn: no file, or one that does not parse
    /\ config = Default
    /\ watcher = [at |-> "waiting", read |-> Default]
    /\ events = 0 /\ age = 0
    /\ saving = [at |-> "idle", new |-> Default]
    /\ last = "nobody"

-----------------------------------------------------------------------------
FileWatched == watcher.at \in {"watching", "reloaded"}

\* The watch reports a change only once it is in place.
Notified(n) ==
    /\ events + n =< MaxEvents
    /\ events' = IF FileWatched THEN events + n ELSE events

\* config::load
Parsed == IF file = Torn THEN Default ELSE file

Reads(next) == watcher' = [at |-> next, read |-> Parsed]

Applies(next) ==
    /\ config' = watcher.read
    /\ watcher' = [watcher EXCEPT !.at = next]

-----------------------------------------------------------------------------
(* The thread that bot::install starts.                                    *)

\* The character's name can be read: the player is in the world.
Load ==
    /\ watcher.at = "waiting" /\ Reads("loaded")
    /\ UNCHANGED <<file, config, events, age, saving, last>>

ApplyLoaded ==
    /\ watcher.at = "loaded" /\ Applies("starting")
    /\ UNCHANGED <<file, events, age, saving, last>>

\* spawn_config_file_watcher
StartWatching ==
    /\ watcher.at = "starting"
    /\ watcher' = [watcher EXCEPT !.at = "watching"]
    /\ age' = 0
    /\ UNCHANGED <<file, config, events, saving, last>>

\* Mutant of Debounced: "longer than", where the age may be just as long.
DebouncedLonger == age > Debounce

Debounced == age >= Debounce

SkipEvent ==
    /\ watcher.at = "watching" /\ events > 0 /\ ~Debounced
    /\ events' = events - 1
    /\ UNCHANGED <<file, config, watcher, age, saving, last>>

TakeEvent ==
    /\ watcher.at = "watching" /\ events > 0 /\ Debounced
    /\ events' = events - 1
    /\ age' = 0
    /\ Reads("reloaded")
    /\ UNCHANGED <<file, config, saving, last>>

\* Mutant of ApplyReloaded: it waits until no notification is left, which only the
\* waiting thread itself takes.
ApplyReloadedWhenQuiet ==
    /\ watcher.at = "reloaded" /\ events = 0 /\ Applies("watching")
    /\ UNCHANGED <<file, events, age, saving, last>>

ApplyReloaded ==
    /\ watcher.at = "reloaded" /\ Applies("watching")
    /\ UNCHANGED <<file, events, age, saving, last>>

-----------------------------------------------------------------------------
(* BotWindow::on_save: the engine first, then the file.                    *)

BeginSave ==
    /\ saving.at = "idle"
    /\ \E v \in Values :
            saving' = [at |-> "set", new |-> [shown |-> v, hidden |-> config.hidden]]
    /\ UNCHANGED <<file, config, watcher, events, age, last>>

\* Without a character's name the settings stay in the engine.
SaveToEngine ==
    /\ saving.at = "set"
    /\ config' = saving.new
    /\ \E named \in BOOLEAN : saving' = [saving EXCEPT !.at = IF named THEN "open" ELSE "idle"]
    /\ last' = "window"
    /\ UNCHANGED <<file, watcher, events, age>>

\* fs::write truncates the file and then writes it; it may fail to open it.
OpenFile ==
    /\ saving.at = "open"
    /\ \/ /\ file' = Torn /\ Notified(1)
          /\ saving' = [saving EXCEPT !.at = "write"]
       \/ /\ UNCHANGED <<file, events>>
          /\ saving' = [saving EXCEPT !.at = "idle"]
    /\ last' = "window"
    /\ UNCHANGED <<config, watcher, age>>

WriteFile ==
    /\ saving.at = "write"
    /\ file' = saving.new /\ Notified(1)
    /\ saving' = [saving EXCEPT !.at = "idle"]
    /\ last' = IF FileWatched THEN "saved" ELSE "window"
    /\ UNCHANGED <<config, watcher, age>>

-----------------------------------------------------------------------------
(* The user's editor replaces the file in one step, and the watch sees one   *)
(* change or several.  The edit is calm when it finds the watcher and the    *)
(* window idle and the debounce over.                                       *)

Idle == watcher.at = "watching" /\ events = 0 /\ saving.at = "idle"

Edit ==
    /\ saving.at # "write"
    /\ \E c \in Config : file' = c /\ c # file
    /\ \E n \in 1..2 : Notified(n)
    /\ last' = IF Idle /\ age = Debounce THEN "calm" ELSE "nobody"
    /\ UNCHANGED <<config, watcher, age, saving>>

Elapse ==
    /\ age < Debounce /\ age' = age + 1
    /\ UNCHANGED <<file, config, watcher, events, saving, last>>

-----------------------------------------------------------------------------
Watcher == Load \/ ApplyLoaded \/ StartWatching \/ SkipEvent \/ TakeEvent \/ ApplyReloaded
Window == SaveToEngine \/ OpenFile \/ WriteFile

ReloadNext == Watcher \/ BeginSave \/ Window \/ Edit \/ Elapse

\* Threads run and time passes; nobody need edit or save.
ReloadSpec == ReloadInit /\ [][ReloadNext]_reloadVars /\ WF_reloadVars(Watcher) /\ WF_reloadVars(Window) /\ WF_reloadVars(Elapse)

-----------------------------------------------------------------------------
(* Properties.                                                             *)

\* An edit that finds everybody idle is what the engine holds in the end, however
\* many notifications it causes and whatever the window reads meanwhile.
CalmEditStays == Idle /\ last = "calm" => config = Parsed

\* It gets there, or is overtaken by a later change.
CalmEditArrives == last = "calm" ~> last # "calm" \/ (Idle /\ config = Parsed)
=============================================================================
