----------------------------- MODULE BotEngine -----------------------------
(***************************************************************************)
(* The life of the hunting bot around its tick: the tick thread of          *)
(* bot/engine.rs, the F8 listener (bot/hotkey.rs) and the settings window    *)
(* (bot/ui/window.rs) that switch the master toggle, and the launcher's main *)
(* thread that shuts the bot down when the game is gone (bot/mod.rs,        *)
(* main.rs).  The three that use the engine take the ENGINE mutex; the tick  *)
(* thread never does, it shares the atomics `enabled` and `cancel` with them. *)
(*                                                                         *)
(* What a hunting tick decides is the subject of HuntStep; here it is any of *)
(* the things such a tick can do to the client.                             *)
(***************************************************************************)
EXTENDS Naturals

VARIABLES
    game,       \* the client: at the login screens, in the world, or gone
    engine,     \* ENGINE holds a BotEngine
    owner,      \* the thread inside the ENGINE mutex
    master,    \* BotEngine.enabled, the master toggle
    cancel,     \* BotEngine.cancel
    botState,   \* BotState
    ticker,       \* the tick thread: where it is, and the game state it read
    hotkey,     \* the listener: where it is, and its toggle_state
    hotkeyCancel, \* HOTKEY_CANCEL
    window,     \* the settings window: where it is, and its cb_master
    main,       \* where the main thread is
    attack      \* AUTO_ATTACK_FLAG, MOUSE_HELD, and whether the last attempt to
                \* clear the flag failed

switches == <<hotkey, window>>
engineVars == <<game, engine, owner, master, cancel, botState, ticker, hotkey,
          hotkeyCancel, window, main, attack>>

EngineTypeOK ==
    /\ game \in {"login", "world", "gone"}
    /\ owner \in {"none", "hotkey", "window", "main"}
    /\ engine \in BOOLEAN /\ master \in BOOLEAN
    /\ cancel \in BOOLEAN /\ hotkeyCancel \in BOOLEAN
    /\ botState \in {"Idle", "Hunting", "Stopped"}
    /\ ticker \in [at: {"top", "read", "hunt", "ended"}, inWorld: BOOLEAN]
    /\ hotkey \in [at: {"poll", "switch", "stop", "ended"}, on: BOOLEAN]
    /\ window \in [at: {"closed", "open", "switch", "stop"}, on: BOOLEAN]
    /\ main \in {"waiting", "locking", "joining", "stopping", "done"}
    /\ attack \in [auto: BOOLEAN, walking: BOOLEAN, deaf: BOOLEAN]

EngineInit ==
    /\ game = "login" /\ engine = TRUE /\ owner = "none"
    /\ master = FALSE /\ cancel = FALSE /\ botState = "Idle"
    /\ ticker = [at |-> "top", inWorld |-> FALSE]
    /\ hotkey = [at |-> "poll", on |-> FALSE] /\ hotkeyCancel = FALSE
    /\ window = [at |-> "closed", on |-> FALSE]
    /\ main = "waiting"
    /\ attack = [auto |-> FALSE, walking |-> FALSE, deaf |-> FALSE]

-----------------------------------------------------------------------------
(* The game, and what the bot does to it.                                  *)

\* The player enters and leaves the world, and ends the game.
GameMoves ==
    /\ game # "gone"
    /\ game' \in {"login", "world", "gone"} \ {game}
    /\ UNCHANGED <<engine, owner, master, cancel, botState, ticker, switches,
                   hotkeyCancel, main, attack>>

\* stop_client_auto_attack; a write to a process that is gone fails for certain.
StopClientAutoAttack ==
    \E stopped \in BOOLEAN :
        /\ stopped => game # "gone"
        /\ attack' = [attack EXCEPT !.auto = @ /\ ~stopped, !.deaf = ~stopped]

\* What a tick can do to the client, see HuntStep: begin an attack, walk, stop
\* walking (any other action), and stop both (a scroll).
HuntEffects ==
    {[attack EXCEPT !.auto = TRUE, !.walking = FALSE, !.deaf = FALSE],
     [attack EXCEPT !.walking = TRUE],
     [attack EXCEPT !.walking = FALSE],
     [attack EXCEPT !.auto = FALSE, !.walking = FALSE, !.deaf = FALSE]}

-----------------------------------------------------------------------------
(* The tick thread.                                                        *)

\* compute_next_state
NextState(on, inWorld) ==
    IF botState = "Hunting"
    THEN IF on /\ inWorld THEN "Hunting" ELSE "Stopped"
    ELSE IF ~(on /\ inWorld) THEN botState
    ELSE IF botState = "Stopped" THEN "Idle" ELSE "Hunting"

\* Mutant of CanTransition: a stopped bot stays stopped.
CanTransitionForward(from, to) == <<from, to>> \in {<<"Idle", "Hunting">>, <<"Hunting", "Stopped">>}

\* can_transition_to
CanTransition(from, to) ==
    <<from, to>> \in {<<"Idle", "Hunting">>, <<"Idle", "Stopped">>,
                      <<"Hunting", "Stopped">>, <<"Stopped", "Idle">>}

TickBegins ==
    /\ ticker.at = "top" /\ ~cancel
    /\ ticker' = [at |-> "read", inWorld |-> game = "world"]
    /\ UNCHANGED <<game, engine, owner, master, cancel, botState, switches,
                   hotkeyCancel, main, attack>>

TickEnds ==
    /\ ticker.at = "top" /\ cancel
    /\ ticker' = [ticker EXCEPT !.at = "ended"]
    /\ UNCHANGED <<game, engine, owner, master, cancel, botState, switches,
                   hotkeyCancel, main, attack>>

\* Mutant of TickDecides: a hunt that runs does not look at the master toggle.
TickDecidesOnce ==
    /\ ticker.at = "read"
    /\ LET next == NextState(master \/ botState = "Hunting", ticker.inWorld)
       IN /\ botState' = IF CanTransition(botState, next) THEN next ELSE botState
          /\ ticker' = [ticker EXCEPT !.at = IF next = "Hunting" THEN "hunt" ELSE "top"]
    /\ UNCHANGED <<game, engine, owner, master, cancel, switches,
                   hotkeyCancel, main, attack>>

TickDecides ==
    /\ ticker.at = "read"
    /\ LET next == NextState(master, ticker.inWorld)
       IN /\ botState' = IF CanTransition(botState, next) THEN next ELSE botState
          /\ ticker' = [ticker EXCEPT !.at = IF next = "Hunting" THEN "hunt" ELSE "top"]
    /\ UNCHANGED <<game, engine, owner, master, cancel, switches,
                   hotkeyCancel, main, attack>>

\* Mutant of TickHunts: it enters ENGINE for the settings of the hunt.
TickHuntsLocked ==
    /\ ticker.at = "hunt" /\ owner = "none"
    /\ ticker' = [ticker EXCEPT !.at = "top"]
    /\ attack' \in IF game = "gone" THEN {attack} ELSE HuntEffects
    /\ UNCHANGED <<game, engine, owner, master, cancel, botState, switches,
                   hotkeyCancel, main>>

TickHunts ==
    /\ ticker.at = "hunt"
    /\ ticker' = [ticker EXCEPT !.at = "top"]
    /\ attack' \in IF game = "gone" THEN {attack} ELSE HuntEffects
    /\ UNCHANGED <<game, engine, owner, master, cancel, botState, switches,
                   hotkeyCancel, main>>

-----------------------------------------------------------------------------
(* The master toggle: set_master_enabled, called by two threads.           *)

\* Mutant of Switch: the mutex is given back before the attack is stopped.
SwitchUnlocked(who, thread, on, rest) ==
    /\ owner = "none"
    /\ master' = IF engine THEN on ELSE master
    /\ thread' = [thread EXCEPT !.at = IF on \/ ~engine THEN rest ELSE "stop"]
    /\ UNCHANGED <<game, engine, owner, cancel, botState, ticker, hotkeyCancel, main, attack>>

\* It enters ENGINE and stores the flag; to switch off it stays there until the
\* client's attack is stopped.
SwitchMaster(who, thread, on, rest) ==
    /\ owner = "none"
    /\ master' = IF engine THEN on ELSE master
    /\ thread' = [thread EXCEPT !.at = IF on \/ ~engine THEN rest ELSE "stop"]
    /\ owner' = IF on \/ ~engine THEN owner ELSE who
    /\ UNCHANGED <<game, engine, cancel, botState, ticker, hotkeyCancel, main, attack>>

SwitchStops(who, thread, rest) ==
    /\ thread.at = "stop"
    /\ thread' = [thread EXCEPT !.at = rest]
    /\ owner' = IF owner = who THEN "none" ELSE owner
    /\ StopClientAutoAttack
    /\ UNCHANGED <<game, engine, master, cancel, botState, ticker, hotkeyCancel, main>>

\* spawn_toggle_listener, while the game is in the foreground.
PressF8 ==
    /\ hotkey.at = "poll" /\ ~hotkeyCancel /\ game # "gone"
    /\ hotkey' = [at |-> "switch", on |-> ~hotkey.on]
    /\ UNCHANGED <<game, engine, owner, master, cancel, botState, ticker, window,
                   hotkeyCancel, main, attack>>

HotkeySwitches ==
    /\ hotkey.at = "switch" /\ SwitchMaster("hotkey", hotkey, hotkey.on, "poll")
    /\ UNCHANGED window

HotkeyStops == SwitchStops("hotkey", hotkey, "poll") /\ UNCHANGED window

HotkeyEnds ==
    /\ hotkey.at = "poll" /\ hotkeyCancel
    /\ hotkey' = [hotkey EXCEPT !.at = "ended"]
    /\ UNCHANGED <<game, engine, owner, master, cancel, botState, ticker, window,
                   hotkeyCancel, main, attack>>

\* The window opens with the toggle as it is then, and does not follow it later.
WindowOpens ==
    /\ window.at = "closed" /\ owner = "none" /\ hotkey.at # "ended"
    /\ window' = [at |-> "open", on |-> engine /\ master]
    /\ UNCHANGED <<game, engine, owner, master, cancel, botState, ticker, hotkey,
                   hotkeyCancel, main, attack>>

WindowMoves ==
    /\ window.at = "open"
    /\ \/ window' = [window EXCEPT !.at = "closed"]
       \/ window' = [at |-> "switch", on |-> ~window.on]
    /\ UNCHANGED <<game, engine, owner, master, cancel, botState, ticker, hotkey,
                   hotkeyCancel, main, attack>>

\* on_master_changed
WindowSwitches ==
    /\ window.at = "switch" /\ SwitchMaster("window", window, window.on, "open")
    /\ UNCHANGED hotkey

WindowStops == SwitchStops("window", window, "open") /\ UNCHANGED hotkey

-----------------------------------------------------------------------------
(* The main thread waits for the end of the game, then shuts the bot down. *)

MainSees ==
    /\ main = "waiting" /\ game = "gone"
    /\ main' = "locking" /\ hotkeyCancel' = TRUE
    /\ UNCHANGED <<game, engine, owner, master, cancel, botState, ticker, switches,
                   attack>>

\* bot::shutdown keeps ENGINE while BotEngine::shutdown waits for the tick thread.
MainLocks ==
    /\ main = "locking" /\ owner = "none"
    /\ main' = "joining" /\ owner' = "main" /\ engine' = FALSE /\ cancel' = TRUE
    /\ UNCHANGED <<game, master, botState, ticker, switches, hotkeyCancel, attack>>

MainJoins ==
    /\ main = "joining" /\ ticker.at = "ended"
    /\ main' = "stopping"
    /\ UNCHANGED <<game, engine, owner, master, cancel, botState, ticker, switches,
                   hotkeyCancel, attack>>

MainStops ==
    /\ main = "stopping"
    /\ main' = "done" /\ owner' = "none"
    /\ StopClientAutoAttack
    /\ UNCHANGED <<game, engine, master, cancel, botState, ticker, switches,
                   hotkeyCancel>>

-----------------------------------------------------------------------------
Tick == TickBegins \/ TickEnds \/ TickDecides \/ TickHunts
Hotkey == HotkeySwitches \/ HotkeyStops \/ HotkeyEnds
SettingsWindow == WindowSwitches \/ WindowStops
Main == MainSees \/ MainLocks \/ MainJoins \/ MainStops
User == GameMoves \/ PressF8 \/ WindowOpens \/ WindowMoves

EngineNext == Tick \/ Hotkey \/ SettingsWindow \/ Main \/ User

\* The threads run; the user need not do anything.  A thread that waits for
\* ENGINE gets it when it is free again and again.
EngineSpec ==
    /\ EngineInit /\ [][EngineNext]_engineVars
    /\ WF_engineVars(Tick) /\ SF_engineVars(Hotkey) /\ SF_engineVars(SettingsWindow) /\ SF_engineVars(Main)

-----------------------------------------------------------------------------
(* Properties.                                                             *)

\* The attack is stopped only while the master is off: who switches the bot on
\* meanwhile waits, so that an old "off" never stops the attack of a new hunt
\* (set_master_enabled keeps ENGINE over both).
StopFindsMasterOff == "stop" \in {hotkey.at, window.at} => ~master

\* A master that stays off ends the hunt for good, whatever the tick read before;
\* only a bot that is shut down at that moment keeps the name of its last state.
MasterOffEndsHunt ==
    <>[]~master => <>[](ticker.at # "hunt" /\ (botState = "Hunting" => cancel))

\* A master that stays on in the world has the bot hunting in the end, from
\* whichever state it stopped in.
MasterOnResumes ==
    <>[](master /\ game = "world") => <>[](botState = "Hunting")

\* While the master is off no tick goes hunting: an attack may begin only in the one
\* tick that was hunting when it was switched off, whatever it had read.
OneTickMayAttack ==
    [][~master => /\ ticker'.at = "hunt" => ticker.at = "hunt"
                  /\ attack'.auto /\ ~attack.auto => ticker.at = "hunt" /\ ticker'.at # "hunt"]_engineVars

\* The hunt follows the master in the end, whichever way it was turned last, and an
\* attack begins after that at most once.
HuntFollowsMaster == MasterOffEndsHunt /\ MasterOnResumes /\ OneTickMayAttack

\* The end of the game ends the bot: the main thread never waits forever for the
\* tick thread, which would need what the main thread holds.
ShutdownCompletes == game = "gone" ~> main = "done"
-----------------------------------------------------------------------------
(* The inductive invariant.  StopFindsMasterOff is kept by the mutex: a thread *)
(* that is about to stop the attack is the one inside ENGINE.                *)

\* Who is about to stop the attack, or shuts the bot down, is inside ENGINE.
StopperInside ==
    /\ hotkey.at = "stop" => owner = "hotkey"
    /\ window.at = "stop" => owner = "window"
    /\ main \in {"joining", "stopping"} => owner = "main"

EngineInvariant == EngineTypeOK /\ StopperInside /\ StopFindsMasterOff
=============================================================================
