# TLA+ models of the L1J 3.8 launcher

This directory holds TLA+ models of the launcher in this repository, the TLC
configurations that check them on small instances, and proofs that the TLAPS
proof system checks for every instance. Paths below are relative to the
repository's `src/` (the launcher's Rust source; `bot/...` is the hunting bot,
`aux/...` the auxiliary functions).

## 1. The system

The launcher starts the game client `TW13081901.bin`, patches it in memory and
then stays alive beside it as a helper process. Everything it knows of the game
it reads from the client's memory or from packets that injected code copies into
a ring; everything it does to the game it does by writing memory, by running
short injected calls in the client, or by posting window messages.

### Inventory

| component | source | state | hard behaviour | what makes it correct | modelled by |
|---|---|---|---|---|---|
| hunt tick | `bot/hunt4/{step,memory,state,context,backend,actions,runtime,tick}.rs` | `HuntState`, `TacticalMemory`, attack watch, `DispatchState`; in the client: auto-attack flag and target, mouse button | a dozen timers that reset one another; outcomes judged one tick later; partial failures of a dispatch | nothing keeps running that no state wants; rejected targets are left alone; cooldowns hold over all ways to an action; every wait ends | `HuntStep`, `HuntHistory` |
| hunt planning | `bot/hunt4/{plan,planner,targeting,route,score,candidate,intent,policy}.rs`, `bot/decide/*` | tiles known as blocked, portal or visited, the kept route, the turn in the attack sequence | stale routes and obstacles, ties in an order, a turn that waits for a clock | paths are shortest and walkable; one order; the takeover never changes what is sent | `PathFinding`, `HuntPlan`, `HuntDispatch` |
| bot perception | `bot/perception/*`, `bot/hunt4/world.rs`, `aux/entity_scan.rs` | cached places of creatures | the game frees and reuses a place while its fields are read | a name belongs to the creature whose number it is given with; only walked portals are learnt | `BotPerception` |
| bot engine, F8, settings window | `bot/{engine,state,mod,hotkey}.rs`, `bot/ui/window.rs` | `enabled`, `cancel`, `BotState`, `ENGINE` | tick thread against two switching threads and the main thread | the master toggle decides; the end of the game ends everything | `BotEngine` |
| bot settings | `bot/config.rs`, `bot/mod.rs` | `<character>.bot.json`, the engine's copy | torn reads, debounce, reload against save | a calm edit arrives and stays | `BotConfigReload` |
| simulated mouse | `aux/input_sim.rs`, `bot/action/walk.rs` | `MOUSE_HELD`, `LAST_DOWN_AT`, the game's message queue | lost and refused messages, the player's own mouse | the button is what the bot believes, or is repaired | `WalkInput` |
| packet events, server packet hook | `bot/packet_events.rs`, `aux/server_packet_hook.rs` | two rings in the client, registries of damage, death, attackers | a writer in the game against a reader that lags, without a lock | nothing is invented, told twice or lost but by being overtaken | `PacketRing`, `ServerPackets` |
| pick-up notifications | `aux/notification/*` | ring, queue, slots, fade timers | bursts; the overlay's own thread | in order, amounts right, the screen becomes empty | `PickupNotices` |
| auxiliary session | `main.rs`, `aux/{lhx_window,hotkey,runtime,profile}.rs` | `AuxControl`, the settings, the threads, the patches in the client | seven kinds of threads to be joined; flags with several writers; late writes | a session ends with the player; no patch and no edit is left behind | `LhxSession` |
| auxiliary scheduler | `aux/{runtime,buff_dispatch,drink_hook,inventory,hotkey,spell_book,spell_db,chat}.rs` | settings, per-rule cooldowns, pages of injected calls, the table of spells | threads share the game's two target variables; calls time out but still run; a player who leaves and returns as another | calls happen at most once; cooldowns hold; nobody starves | `AtMostOnce`, `RemoteCall`, `SpellBook`, `AuxBuffs`, `AuxTimers`, `AuxSweeps`, `AuxDelete`, `AuxHotkey` |
| experience tracker, profiles | `aux/{exp_tracker,profile,player_state}.rs` | total, level; one file per character | level-ups, deaths, unreadable files, names read late | what is reported adds up; settings come back to their character | `AuxExp`, `Profiles` |
| toggles | `aux/toggle/*` | code in eight places; the game's water flag | page, thread and end of a session switch at once | off restores what was there, the setting wins in the end | `AllDay`, `SeaWater` |
| auxiliary window | `aux/lhx_window.rs` | widgets, settings | filling a page raises the same events as the player | no setting changes because it is shown; a selection is never another item | `AuxForm`, `BuffNotation` |
| patches and hooks | `aux/*_hook.rs`, `aux/*_patch.rs`, `hp_mp_patch.rs`, `img_hover.rs`, `equip_ui.rs`, `patch.rs`, `hook.rs` | machine code in the client | the client runs while it is patched, any write may fail, other programs patch too | no jump into nothing, no suspended game, no foreign byte lost | `ClientPatch`, `DamageText`, `NameColors`, `RunFeet` |
| morph pipeline | `smooth_run/*`, `inject.rs` | the list of shapes | heuristics over names and numbers, hash maps | the client's list keeps its lines; who has frames of a run shows them | `SmoothRun` |
| server list, encoder | `server_list.rs`, `bin/encoder.rs`, `legacy_text.rs` | `list.txt`, `config.ini`, slots, keys | slots without a place in the file | what was saved comes back | `ServerLists`, `FileFormats` |
| packet proxy | `packet_proxy.rs`, `rsa32.rs` | a connection of two relay threads | half-closed connections | no byte is lost or changed, both directions end | `PacketProxy` |
| start-up, stage 2 | `main.rs`, `process.rs`, `login.rs`, `memory.rs`, `patch.rs`, `ime_inject.rs` | stage-2 process and its threads | the game unpacks itself meanwhile, may die at every step; threads suspend it | nothing is patched while packed; the game goes on; stage 2 ends with it | `Stage2` |
| client settings | `lineage_cfg.rs`, `dpi_override.rs` | `lineage.cfg`, compatibility flags | damaged files | the mode is set and the rest kept | `FileFormats` |
| launcher window | `gui.rs`, `http.rs` | page lock, update, running game, proxy | quick clicks, updates against games, crash in an update | an update is recorded when it is there; the page is not locked for ever | `LauncherWindow` |
| minimap | `minimap/*` | map cache, snapshot | cached places | its names belong to its creatures | `PathFinding`, `BotPerception` (what the bot uses of it) |
| texts, log, sprites, IME overlay | `i18n.rs`, `logger.rs`, `spr_action_sql.rs`, `../ime_overlay/` | - | - | - | - |

How they interact: the tick thread owns the hunt and calls planning, perception
and the packet events; it shares only atomics and locks (`enabled`, `cancel`,
`hunt_config`, `hunt4_report`) with the window, the listener and the watcher,
which reach it through the `ENGINE` mutex. The scheduler of the auxiliary
functions runs beside it, in sessions that the Home listener starts and ends, and
uses the same injected calls. Stage 2 is the process in which all of this runs;
stage 1 is the launcher's window. The client is shared by all of them and by the
player.

## 2. The modules

Modules with a state machine of their own are instantiated for TLC in one of four
`MC` modules (`MCRules`, `MCLauncher`, `MCAuxScheduler`, `MCServerPackets`), in
which a behaviour is one of one module: `part` names it and the slots `s1`, `s2`,
... hold its variables. The parts do not touch each other's state in the code
either; where they do, they are in one module. The `MC` modules have the constants of their modules as
constants of their own, so that what is proved of them holds for all their values; `AuxScheduler.cfg`,
`Launcher.cfg`, `ServerPackets.cfg` and `Rules.cfg` give the small ones. Only the parts of `MCRules` of which nothing is proved
(formats of files, shapes, ways through a grid) have their instances written into it. The hunt, the engine, the settings,
the mouse, the session and the notices are checked directly.

### The bot

`HuntStep` begins with `TacticalMemory`, `MemoryUpdate` and `apply` (memory.rs).
It has one action per way through `step()` (step.rs), in the order of its
early returns, named for it: `ExploreStuck`, `SwitchRefusedLock`,
`ApproachWalkFailed`, ... A tick is two actions. `Frame` is the sleep and
everything before the pure step. `Step` is the pure step together with
`pure_tick`'s update of the memory, `dispatch` and the bookkeeping after it:
one action, for the thread does it all without looking at the world again.
`act` shows the action a step has dispatched. `HuntHistory` adds what an observer
of the game remembers of the bot's actions.

Time is counted in ticks. An `Instant` is kept as its age, which stops growing
at the largest duration the code compares it with; a deadline as the ticks left.
No guard of the code can tell the difference. A tick may be longer than one
interval (`Lapses`): the code sleeps 200 ms and then works.

`HuntStep` leaves open what the planner and the game decide, and the other three
modules say what the planner decides: `PathFinding` is the A* search round by round (a step is
one round of its loop; which of two equal nodes the heap gives out is a choice), the overlay of
obstacles, portals and creatures, and what is kept of an earlier route; `HuntPlan`
the classes and bands of candidates, their order, the records that come and go,
and the goals of exploration; `HuntDispatch` the turns of the attack sequence,
the skill's gate and range, the policy's takeover and what is noted after the dispatch.
`BotPerception` is the scan of creatures field by field while the game goes on, with
the three that read it.

- `KillConfirm`, `DisabledMasterOff` and the guard `!master_enabled` stay in the
  model although `engine.rs` calls the tick only with the master on; the label is
  the one a new context starts with.
- `client.walking` is `MOUSE_HELD`, what the bot believes. `WalkInput` relates it
  to the button of the game; `queue` holds the messages the game has not looked at.
  A message can be refused (`Refused`) or accepted and lost (`Missed`).
- A new hunt begins with a new context but with the client as it is: `Init` lets
  the client be attacking, walking and aiming at anything.
- `BotEngine` takes the `ENGINE` mutex (`owner`) as the code does: the two switching
  threads for the store of `enabled` (`master` here) and the stop of the client's attack after it,
  the main thread for the whole of the shutdown, join included. The tick thread
  never takes it. `deaf` tells that the last write of the auto-attack flag failed: the
  code can only log it, and no property blames it.
- In `BotConfigReload` a setting is a pair: the half the window shows and the half it
  preserves. A file that does not parse is `Torn`: `config::load` answers with the
  defaults then. `fs::write` is a truncation and a write, each with its notification,
  the editor's replacement one step with one or two of them.
- In `HuntPlan` a monster is what the classification reads of it (class, distance,
  clear line, length of the way), a ground a set of tiles with the ways between
  them, so that order and exploration do not search again. The suggestion for
  exploration is kept while nobody is selected; the code works one out every tick and drops it.

### Packets and notices

`PacketRing` is the ring with its order of writes (the game claims a slot by moving
the tail and fills it after that; sequence numbers are not compared with a lock).
`ServerPackets` has the two rings the bot polls one after the other, the hooks that
write each packet into both, the registries with their times to live, and the two
questions of a tick. `PickupNotices` extends `PacketRing`: it goes on from such a ring with dispatcher, queue
with its capacity, polling thread, snapshot, overlay.

### The auxiliary functions

`LhxSession` is a session: the listener is one thread that does everything in
turn (sample, start, ask, join, restore, save); `listener.at` says where it is.
`misc.all_day` stands for the seven toggles of that tab. A write of the patch is two
actions, `Begins` when the settings have been read and `Ends` when the last place
is written; `Left` says what can be left when a call fails or the writes of the two
threads have overlapped. `Stuck` names the two states from which a session cannot end in
the code: the request to close overwritten by the window's X, and `WM_QUIT` posted
before the hook thread had a message queue.

`RemoteCall` runs the injected instructions one by one: save the target, set it, act,
restore, return, in a page that is freed when the caller gives up after five seconds.
It implements `AtMostOnce`, what a caller may expect: a refinement that
TLC checks and TLAPS proves, through the mapping `Told` of call states to the abstract ones. The other modules of the
scheduler take a call for something that lasts up to `Stuck` units: `AuxBuffs`,
`AuxTimers`, `AuxSweeps`, `AuxDelete`, one per tick function of `runtime.rs`;
`AuxHotkey` has the keyboard hook, its worker and the thread that posts the
end; `SpellBook` the table that two threads refresh; `AuxExp` the experience line.

`AuxForm` has the widgets and settings with the flag `applying`; `BuffNotation` the
notations, a text being a record of its parts. `AllDay` and `SeaWater` are the two toggles that
a page, a thread and the end of a session switch, place by place. `Profiles` has files, characters
and the listener that samples them.

### Code in the client

`ClientPatch` writes every patch as a program: a sequence of instructions (look at a place,
write, allocate, freeze, thaw, note), run one at a time with failures in between, while
the game becomes unwritable or another program patches a place. `DamageText` and
`RunFeet` are what two of the hooks' machine code does: the total over a monster and
the foot of a run (its table has one entry for all creatures at addresses that end alike: `SlotOf`, `TagOf`); `NameColors` is the scanning thread with the colours it must
put back, and the test of the hooks that draw names.

### Launcher, files, start

`Stage2` is `run_stage2_cli` with its delayed threads and the two eight-second threads that
keep the code page of texts; `LauncherWindow` the event loop, the starter of games
and the worker of updates; `PacketProxy` one connection; `ServerLists` the encoder's slots
and files, `FileFormats` the two formats shared with other programs; `SmoothRun` the list of shapes, one action per stage of the
pipeline, over records of what `helpers.rs` reads out of a line.

## 3. What is checked

Every run finishes in three minutes or less with two workers. Properties of the `MC`
modules are conjunctions of named parts, each stated and explained in the module it is about.

| run | module | what it shows |
|---|---|---|
| `hunt_safety` | `HuntHistory` | the safety of the tick |
| `hunt_liveness` | `HuntStep` | waits and recoveries end |
| `bot_engine` | `BotEngine` | the toggle, the restart of a hunt, the shutdown |
| `config_reload` | `BotConfigReload` | calm edits arrive and stay |
| `walk_input` | `WalkInput` | the button and what the bot believes |
| `lhx_session` | `LhxSession` | patches, edits and the end of a session |
| `server_packets` | `MCServerPackets` | the ring, and what the bot concludes from the two it polls |
| `pickup_notices` | `PickupNotices` | order and amounts of notices, the screen becomes empty |
| `aux_scheduler` | `MCAuxScheduler` | the threads of the scheduler and what they share |
| `launcher` | `MCLauncher` | toggles, names' colours, proxy, window and update, stage 2 |
| `sequential_rules` | `MCRules` | patches, hooks, notations, files, shapes, planning, perception |
| `encoder_save` | `ServerLists` | a comment the code does not keep (violation) |

Safety of the tick (`hunt_safety`): `RejectedIsLeftAlone` (while the record of a rejected
target lasts the bot is not engaged with it, over switches, recoveries, deaths and
expiries); `FutileAttackEnds` (an attack without damage is given up in time, whatever the
attacks return); `WalksOnlyWhileTravelling` (the button does not outlive the state);
`ScrollsAreSpaced` (over the four ways to a scroll); `RetreatIsPassive` (nothing
interrupts a retreat but a greater evil); `InactivityNeverLingers` (the watchdog
sees inactivity in one tick). Liveness: `CrisesEnd` (the escape and every recovery end).

Engine, settings, mouse: `StopFindsMasterOff` (no other switch comes between flag and stop);
`HuntFollowsMaster` (in the end, and once it is off an attack
begins in at most the one tick that was hunting already); `ShutdownCompletes`; `CalmEditStays` and `CalmEditArrives` (an edit
that found everybody idle is what the engine has, and gets there);
`HeldIsPromised` (`MOUSE_HELD` is what the messages under way will make of the button);
`WalkRecovers` (if from some point on the bot walks in every tick and nothing is lost, the
button is down again and again).

Sessions: `PatchesGoWithSession` and `EditsAreSaved` (however late the last write of window
or thread was); `SessionsEnd` (with the player's stay, with the game, except in `Stuck`);
`PatchFollowsSettings` (overlapping and failed writes are repaired again and again).

Packets: `RingIsHeard` (without a race every packet is heard once and in order, and what was
not heard was overwritten or empty); `AnswersWereSaid` (only deaths the server told);
`PacketsPass` (all are passed by both readers, registries forget, the second answer of a tick names no
target the first did not). Notices: `NoticesAreTrue`, `ScreenFollowsGame`.

Scheduler: `CallsOnce` (the refinement of `AtMostOnce`), `WhatIsUsedIsThere` (a page is freed
under its thread only if that is late; the player's target comes back; a careful cast has a
book; the hook has its worker), `OwnThingsOnly` (spells of the player's own book, nothing
worn is thrown away, an attack keeps its target), `UsesAreSpaced`, `LevelsAddUp`,
`EveryoneServed` (every row, message and entry has its turn, calls and sessions end, the table
of spells becomes the player's).

Launcher: `ClientComesBack` (code, water, colours of names and one's own name are the game's
own after the toggle or the session ends), `TogglesSettle` (what is left alone becomes what is set, what
cannot succeed leaves nothing half done), `LaunchIsSound` (an update is recorded only when it
is there and does not run beside a game; a game keeps its proxy, which loses no byte; nothing
is patched while packed, no game is left suspended), `ProcessesEnd`.

Rules:
- `PatchesSound`: jumps lead to code that is there, threads go on, what must be met together
  changes while they stand still, the page shows what is installed; and the types of every part.
- `DrawnRight`: a total of damage goes on from the one before it or starts anew (`TotalGoesOn`), the reader stays
  aligned with its packet (`Aligned`), a step that is shown is one the sprite has (`SlotIsThere`).
- `SettingsAreKept`: profiles, slots and keys of servers come back; an entry read in either notation
  means what it meant; no other item is used than the one chosen, and a list shows what is stored.
- `TargetsAreRight`: `OrderIsTotal`, `ThreatsComeFirst`, `NoDetour`, `PainIsNoProof` of the candidates,
  `SentIsDecided` (whoever chose it), `NameOfTheId`, `AnswerIsNamed` (though the game moves creatures
  while their fields are read one after the other).
- `ComputedRight`: the total is the sum of the whole chain; the list of shapes keeps its lines
  (`LinesStay`), a sprite's own run comes first (`OwnFramesFirst`), nobody runs with another
  body (`RunsAsOneself`), the order of the file does not matter (`InAnyOrder`), both steps
  arrive (`BothSteps`), headers count the pictures (`HeaderCounts`); servers are read as they were typed, the
  client's mode is applied; `PathsAreBest` (a path is walkable, ends at a goal, and no way to any goal is
  cheaper, against a reference closure; "no path" only where there is none), `ArrivalCanAttack`, `ExploresOn`.
- `StepsKeepToTheirs`: a click counts for one of two boxes, only own hits are shown, a command settles,
  other entries keep their use, filling a page changes no setting, a foot is steady during an animation;
  `StepsSpaced` and `RoundsKeepPace` (turns and rounds of the attack sequence, over changes of settings and
  late turns); `PortalsWereWalked`.
- `OthersWorkStays`: foreign bytes, other words and flags of a file, a list that is written once more, a kept
  route (`KeptGoesOn`).

Each property can fail: a plausible wrong version of a definition it depends on stands
next to it in the modules, introduced as such.

### Bounds

Two targets in the hunt: the properties speak of one target and of "another one".
Durations keep the order they have in the code, small: the cooldown of scrolls
below the inactivity limit, a failed target's record below the repeated one, a
stall window of three samples (the shortest that differs from a single repetition),
one exploration walk before a scroll is wanted. The liveness run has one target,
no symmetry, and ticks of two lengths. `MaxEvents = 3` leaves room for the two
notifications of a save and one of an edit; a third edit finds the watcher as the
second did. `MaxQueue = 3` with `Heartbeat = 5` lets a press, a release and
another press be under way at once. `BotEngine` needs no bound. In `LhxSession` one
character, who comes and goes, and the profile `default` make two profiles;
`NameTries = 2` has a failure that is retried and one that is not.

The ring has two slots and four packets, so that it is lapped twice; the bot's rings one
and two, so that one laps while the other does not. In the scheduler each tick has the rows
that tell its cases apart: two buffs that exclude each other in one tick and one on a worn thing; rows of
equal and of shorter interval; a message that is too long; two calls that share the targets; a second login at the same
address (`Addresses` has two, `MaxLogins` 2). `MaxFaults = 1` in stage 2 and the window: one failure at
any point, as every later one meets a state that some first one meets too. `AllDay` has three
places in two groups, the least at which an order within and between groups differs.
What a server offers is chosen at the start: with no update the window has two launches, with
an update one (`MaxClicks`, a bound by the offer, as `MaxStarts` is). `Pages` are the code pages that the game may set, by the options of
stage 2: the two text threads are explored apart from the features, with which they share nothing but the game's suspension. `NameColors` has
two addresses and two births, so that an address can be used again after a scan, and a monster that looks like
the player.

`ClientPatch` writes loops over many places of one kind for two of them. `PathFinding` has a grid of
4 by 3 with up to two walls, gates that shut later, an obstacle and a creature in the way, every
combination an initial state; `MaxIterations` 9 lets the search also give up. `HuntPlan` has three monsters of
six kinds (behind a corner, near on a long and on a short way, far in sight, far as without a map, hidden), and for exploration a street
with a dead end. `HuntDispatch` has a sequence of two steps that takes over and the single skill of old settings,
and a clock of `MaxTime` units. `BotPerception` has three places and creatures of which two share a name.
`SmoothRun` reads 2 680 lists: every pair of fourteen kinds of sprites in both orders with looks that agree or name
each other, and triples of two walkers or runners and a runner in three orders. `RunFeet` has two instances of two
creatures: with an entry of the table each, one of them without a right step, and sharing one entry.

### Fairness

The tick thread is a loop that sleeps and never waits for anything but locks held for a
moment (`WF` of the tick). The threads that enter `ENGINE` wait for a mutex that is free again
and again, since nobody keeps it but the shutdown (`SF`). In `RecoveryEnds` blows that never end may
keep the bot retreating. Threads of a session, of the scheduler, of stage 2 and of the
window run, and calls return, for each has a deadline (`WF`); the visible timer fires between the
player's clicks (`SF(OnVisibleTick)`), and a write of the patch to a living client succeeds now and then (`SF`), which
only `PatchFollowsSettings` needs. Reads of the rings do not fail for ever (`SF`). In `MCAuxScheduler` and `MCLauncher` several parts share one condition: a behaviour
is of one part only, and at most one disjunct belongs to it. The user, the player and the
game owe nothing, except that the game looks at its messages (`WF(Pump)`), that its hooks finish a packet they have
begun, and that the server answers what it was sent (`AuxBuffs`, `AuxDelete`). Nobody has to press Home, click, or leave, and no read has to fail.

## 4. What is proved

TLAPS checks every theorem below from the assumptions named in the modules: types and
signs of sizes and durations, that names differ, and a few comparisons between
durations that hold of the constants in the code (`MemoryAssumption`, `StepAssumption`,
`LapseAssumption`, `InputAssumption`, `ReloadAssumption`, `SessionAssumption`,
`RingAssumption`, `ServerAssumption`, `NoticesAssumption`, and `PartsAssumption` of `MCAuxScheduler`, which
joins those of its modules; `MCLauncher` and `MCRules` have one each as well). The theorems hold for every set of
targets, characters, calls, threads and addresses, every duration, and every size of a ring or
queue; TLC evaluates the same assumptions for the instances it checks. TLC
agreed with every property, and with every inductive invariant of `MCRules` on the instance of `Rules.cfg`, before it was
proved. Where an instance had shown less than a theorem needs, an assumption was added and has its reason in the module: that the
clock does not come round within the time after which a chain of hits ends (`DamageAssumption`), for example.

### The hunt and the mouse: `BotProofs`

- `TypeCorrect`, `RejectedTargetsAreLeftAlone`, `EscapesAreQuiet`, `WalkingIsReleased`,
  `InactivityIsCutShort` follow from one inductive invariant, `IInv`: the types; `LockHeld` (an engaging state
  has a lock, no other has one); the three safety properties; and
  `ScrollIsActivity` (a scroll is activity, so inactivity that has reached its limit
  has left the cooldown of scrolls behind), which is why the watchdog, once due, can act. The
  argument goes by shape: the lemmas about `Noop`, `Walk`, `Bootstrap`, `Cast`,
  `UseScroll` say what a dispatch leaves in the client, those about `Enter`,
  `Recover`, `Escape`, `Engage`, `Attack` what a way of leaving a state does to
  lock and memory, and one step per action of `Step` puts them together.
- `ScrollsKeepTheirDistance`, `RetreatsArePassive`, `SkillsAlternate` are facts about steps, over `HInv`: `IInv` and
  four links between what the observer remembers and the machine. `SameScrollAge` (both count
  the same ticks since the last scroll), `AlarmIsRetreat` (while the alarm runs
  the machine is in a retreat that lasts at least as long), `SkillIsOwed` (the
  target of an unanswered skill is the one the memory still owes a basic attack),
  `TickHasAged` (within a tick every state has an age, so a new alarm is told from
  an old one). With them each way of acting is
  compared with what the observer last saw, one lemma per shape of step again.
- `FutileAttacksEnd`: `FInv` adds to `HInv` what the observer's count of blows without damage has to do
  with the bot's own watch. `Counted`: the watch is on the lock, and the count is ahead of its age by at most the tick
  in which it began. The exception is `LockRefused`: a lock that has just been rejected keeps its
  label for one more tick, and then the next step leaves it, or has seen damage. That a tick has a longest
  duration (`LapseAssumption`) is all the bound needs.
- `InputTyped`, `HeldIsWhatWasPromised`: for queues of every length, from lemmas on the last message of the queue.

### Engine, settings, sessions

- `BotEngine`: `EngineTyped`, `StopsOnlyWhenOff`, `OneTickAttacks` (proved in `BotProofs`). The mutex keeps the promise:
  whoever is about to stop the attack, or shuts the bot down, is the one inside `ENGINE`
  (`StopperInside`), so that nobody can switch the bot on again in between.
- `BotConfigReload`: `ReloadTyped`, `CalmEditIsApplied` (both proved in `BotProofs`). `CalmEditStays` is strengthened by what holds on the
  way: after a calm edit, until it is overtaken, the watcher either still has a notification
  it may not skip, or has read the file as it is.
- `LhxSession`: `TypeCorrect`, `PatchesAreTakenBack`, `EditsReachTheFile`.
  Neither promise is inductive: both are kept by the order of the shutdown.
  `SessionInvariant` adds where the listener is in a session (`InSession`), that from
  the joins on no thread is left that writes the patch or the settings (`Quiet`), and
  that only a thread that runs is about to write (`WritersRun`), so that nothing
  read before the restore is written after it.

### Calls into the game: `RemoteCall`

- `CallsTyped`, `PagesStay` and `CallsAsExpected`, that it implements `AtMostOnce`.
  `CallInvariant` says of each call what its phase, its page, its thread and its effect
  have to do with each other: a thread runs only for a call that was started, what is done
  has ended, there is an effect exactly when the thread is past its one instruction for it
  (`OneAct`), and a page is freed at the end of its call. Under the mapping `Told` the beginning
  of a call is `Ask`, its end `Answer`, the instruction `TakeEffect`, and every other step a stutter.
- `AimsComeBack`, `AttacksKeepTarget`: the client's own target is restored, and an attack goes where it was asked to,
  though many threads save and restore the same two variables without a lock. `SharedInvariant` says why: each owner's calls come one
  after the other (`OneAtATime`), only the bot aims, and a thread whose page was taken away executes nothing. So between a save and
  its restore a variable is what the call has made of it, and what was saved is what the player chose
  (`HoverKnown`, `AimKnown`); `touched` (the player has chosen meanwhile) and `Frozen` (an attack whose page was freed under it) are the
  two exceptions, and the properties name them.

### Packets and notices: `PacketRing`, `BotProofs`

- `RingIsSound`: the reader stays behind the game; a slot that is not being written holds the newest
  packet claimed for it, in full; a drain that met no such slot gives whole packets. The
  argument is that two packets less than a round apart have different slots
  (`SlotsDiffer`), so that a write leaves alone every slot the reader may still want.
- `RingsAreHeard`: over several drains, what is heard is whole, in order and once, and each number the reader
  has passed was heard, was overwritten (a whole round was claimed after it), or was not valid when it was there. `HeardInvariant` adds
  to the ring's invariant that a drain has got only what the reader has passed, so that the next one is new. The bot's
  two rings follow the same invariant, since each step of the bot or of the game is a step of each ring, or takes away what a drain gave.
- `DeathsWereSaid`: a packet that was read whole is the server's (`HooksFollow`: no hook is ahead of the server), so that
  a record of a death, and an answer made from one, has a packet that says so. `DamageFades`: in the middle of a
  tick no record of damage is younger than its first answer (`FrameAnswers`).
- `NoticesAreSound`: `NoticesInvariant` follows a gain from the ring to the screen: the ring's own invariant,
  that the queue is ordered and nothing in it too old (`QueueOK`), and that no amount exceeds the gains
  that the reader has passed (`GainsCounted`). What `Retained` keeps of a queue is shown with an order-preserving
  numbering of what is kept (`KeepingExists`).

### The scheduler: `AuxProofs`

Five properties of the run `aux_scheduler`. A behaviour is of one part; `MCInvariant` is the part's invariant, and
each step of another part leaves it alone.

- `ExperienceAddsUp`. `ExpInvariant`: reports add up to the total between two changes of character, only a gain is
  reported, and something is always left to gain, never more than the level takes. That the level is that of the total
  is shown for every table of thresholds that rises: the code's scan stops at the greatest level whose threshold is reached (`GreatestOf`).
- `NothingIsPulledAway`. Pages and targets by `SharedInvariant`; the book of spells by `CasterFacts` (a careful thread
  looks only after it saw a book, and a book is never emptied); the hook's worker by `KeyInvariant` (at most one
  key is used after its session, and it belongs to the last one).
- `OwnThings`. A spell is of the player's own book, or of one at the same address, or the thread doubts
  (`CasterFacts`); what is thrown away while it is worn was put on after it had been chosen (`DeleteInvariant`); an attack keeps its target.
- `NothingTooEarly`. The clock of a row is not ahead of the observer's, unless the button was pressed since the last look
  (`RowFacts`); what is left of a buff's cooldown, when the tick is as old as it is, covers the time until the answer (`Awaits`), which is why a buff is
  not cast again while its answer is awaited, whatever the calls before it in that tick took; what refills MP is used only
  while the HP are safe, which the tick knows unless the player was hit since (`SweepsInvariant`).
- `CallsHaveOneEffect`: the refinement of `AtMostOnce` in the scheduler's instance.

### The launcher: `LauncherProofs`

- `LaunchesAreSound`: whichever part a behaviour is of, its invariant says more than `LaunchIsSound`. For the proxy
  (`RelayInvariant`): what was got, what is on its way and what is still to come are, in this order, what the other side sent, and
  a direction is told of the end only when nothing is on its way (`UpPasses`, `DownPasses`). For the window (`WindowInvariant`): whatever has locked the page or hidden the window is followed, in the queue or by
  a thread that runs, by an event that undoes it or closes the process (`WillUnlock`, `WillShow`: hence `NotStuck`); of a player who is not hasty
  there is at most one event that leads to a lock, one that unlocks, and one thread at work, and they belong together (`Unhurried`: hence `OneThing`);
  an update goes on from the recorded version, package by package (`UpdateGoesOn`). For stage 2 (`StageInvariant`): a game that is suspended is so by the
  main thread at one of three places or by the thread of the file hook between its two steps, which goes on to thaw it; and nobody gets
  beyond looking while the game is packed.
- `ClientIsGivenBack`: the types of all six parts, and of the three that change the client: for the day (`DayInvariant`), what the end of a
  session has not put back yet is not beyond the place that it is at, unless it is spoiled; for the water (`WaterInvariant`), what the launcher hid is
  marked or about to be, and nobody takes the mark away before the water is shown, unless two actors crossed; for the colours
  (`ColourInvariant`), at an address that is surely still its own being's, either the colour remembered is that being's or it wears its
  own and nothing is remembered; what is about to be written was read of the object as it is; and the player is neither
  marked nor written to, for the scan knew it before it got there. The invariant was checked by TLC on the instance of `launcher` first; for the induction
  `TypeOK` of `NameColors` says the types of whole records.

### Rules: `RulesLemmas`, `RulesProofs`

`DrawnFromPackets`, `SettingsComeThrough`, `TargetsAreSound` and `StepsAreSmall` state four properties of the
run `sequential_rules` for every value of the constants of `MCRules`. `MCInvariant` gives each part its inductive invariant,
which stands in the part's module; each step is of one part (`StepsOfParts`) and leaves the slots that the part does not use alone.

- Damage (`TextInvariant`): the last hit that is remembered is the one that was shown last, and the clock is ahead of it
  by the time since then (`LastIsShown`), over the wrap of the clock too; hence the test of the hook's code for a chain that
  goes on is the observer's. The cursor in a packet is where the next hit begins (`Aligned`), also after hits that are not shown.
- Notation (`NotationInvariant`): what was written and what is listed are both parsed to the use that is
  kept, by cases over the notations that `Format` can choose (`FormatMeansIt`, `CommandMeansIt`). This is about every name and number.
- Form (`FormInvariant`): the item of a row, on the page and in the settings, is the one the player wanted or none; the lists
  agree once they have been shown; and the flag is set as long as a box is still to be filled. Hence filling changes no setting.
- Lists (`ListsInvariant`): what was typed is in its slot or on the form, and as long as no slot was encoded over a gap, each
  has its own place in the list (`InItsPlace`); the server's key is that of the slot it was made for (`LastPair`).
- Profiles (`ProfileInvariant`): a session has the file of the character for whom it was started, and the settings that everybody wants
  who has this file, but for the characters that `excuse` names.
- Feet (`FeetInvariant`): a creature that has its entry of the table for itself (`Alone`) finds there its own tag, the foot it was
  shown and, unless it started again, a frame that is not beyond its own.
- Turns (`DispatchInvariant`): a turn is not ready before the last one allows it (`InTurn`), and a round has not begun before as
  many cycles have passed as there have been rounds (`InRound`); a change of settings that leaves a turn without its place counts anew.
- Perception (`PerceptionInvariant`): between its two readings a creature is where it was, unless its place is torn
  (`DrawnAsRead`); a search has passed only places without the name, or such as were stirred meanwhile or could not be read (`FoundSoFar`); the tile that would be learnt is the last
  the hunt moved to (`LastWalked`).
- Plan: the order, the choice and the route are functions of what is seen, so `PlanInvariant` is no more than types; the work is
  in the order. It is that of six numbers (`BeforeIsLess`, `LessThanOrders`), of which the last is the monster's own, so that it
  decides between any two. That a finite set has a first element in it (`FirstOf`) uses the library's
  theorem that strict inclusion is well founded on the subsets of a finite set: one whose set of those ahead is minimal is first. `SelectedIsFirst` and the first
  of the six numbers then give `ThreatsComeFirst` and `NoDetour`.
- Of the page of patches only the types of its boxes are needed for `ClickCounts`.

### What is left to TLC

`EscapesAreQuiet`, `SkillsAlternate`, `CallsAsExpected`, `RingIsSound`, `PagesStay`, `AimsComeBack`, `AttacksKeepTarget`,
`DamageFades` and the types state formulas that the runs check inside a larger property or under another name. Only model-checked
are all liveness, and of `MCRules`:

- `ComputedRight`: what a recursive definition computes for every input needs induction with an operator as a
  parameter, which the provers cannot instantiate. `SmoothRun`, `PathFinding`, the exploration of `HuntPlan` and `FileFormats` are such
  algorithms, and so is the sum of a whole chain of hits (`TotalIsTheChain`; its single step is proved, `TotalGoesOn`).
- `PatchesSound` and the patches in `OthersWorkStays`: `ClientPatch` has no constants. Its programs are those of the code, each a fixed
  sequence of instructions over fixed places, so that there is no larger instance to prove anything of: TLC visits all of its states, and
  an invariant would list what holds before each instruction.
- The rest of `OthersWorkStays` is about files and ways, as in `ComputedRight`.

Liveness under fairness is out of the prover's reach. Where a proof needs only that a finite set of numbers has a
least or a greatest element, it is proved here in first-order form (`LeastOf`, `GreatestOf`) and used in
place of induction.

## 5. Where documentation and code part

`encoder_save` is a run of its own: the comment of `bin/encoder.rs:1059` says that
encoding a slot keeps the others, and list.txt has no place for an empty slot, so that
the list is compacted and encoding slot 1 replaces what was encoded as slot 2.

Met while modelling, in the same models, without a run of their own:

Hunt
- Clearing the positions makes the next sample look like a movement, which resets the
  inactivity watchdog: a bot that cannot move may never use a scroll. An approach that walks in
  every tick without moving is never taken for stalled, for every walk renews the instant from which samples count.
- After an attack that failed half way the client aims at another target than
  `last_bootstrap_target` says. A tick in progress can begin an attack after the master
  was switched off. The hunt can end with the mouse button down; nobody releases it. After the window has switched
  the master, F8 once has no effect (the listener keeps its own copy).
- A kept route goes on from the last of its tiles that is next to the player (route.rs:112), so that the
  bot may cut a corner that the search went around ("No corner squeeze", pathfind.rs:13).
- Exploring with a profile in a closed area smaller than twice `EXPLORE_RANGE_TILES` goes to and fro between
  three tiles; only the budget of eight walks ends it. Ticks in which the player stands count as visits too.
- Any loss of HP makes all local targets "attackers" and brings back those recorded as unreachable. Remembered
  tiles carry no map. The last tile walked to outlives attacks and changes of map, so that a journey the
  player makes himself can teach a portal that is none. `prev_hp` survives a logout: a character with less
  HP starts with a false alarm.
- Attack sequence: the cycle counts from the scheduled start of a round, so that after a long walk the next rounds run
  without waiting until they have caught up (against "minimum duration of one round"); of two skill steps in a row
  closer than the blow between them the second is never cast on the same target; a skill is noted as cast although its dispatch failed;
  a gate or range that could not be read once is cached for good. Agreement of plan and step is
  required for a takeover, so that a takeover changes nothing.
- A basic attack that fails counts as the blow due after a skill; the auto-attack is not
  stopped when the bot turns to another target; `death_stops_hunt` is never read; a `Stopped` bot restarts by itself.
- `find_entity_by_name` answers with the player first, although its module says that the server refuses the player's
  number of the client. The fields of a creature are read one by one, so that a place that changes hands meanwhile yields
  the number of one and the name of another. Names are read without a look at the number, also where no creature is any more:
  an answer may have the number 0, which `buff_dispatch.rs` sends as it is. Of a region of more than 16 MB only the first 16 are
  searched, so that whoever is beyond is not found.

Settings, sessions, scheduler
- A save in the bot's window can be replaced by the defaults, read while the file was truncated; the last of several
  edits within the debounce is not loaded; a save writes the engine's damage-spike threshold over a newer one.
- A click on X just after the request to close a session's window overwrites the request; the listener waits for
  the window's thread for ever. `profile.rs` says that a session saves, closes and then ends its threads; the code saves last.
- A profile that could not be read gives the defaults, which the end of the session saves over it. A change of character
  between two samples keeps the settings of the first, and the experience tracker stays enabled.
- The exit code of an injected call is ignored, and its page freed under a thread that still runs after a
  time-out; the player's choice of a target during a call is overwritten by the restore.
- Cooldown of a buff is counted from the start of the tick: after a stuck call it is over already. Short intervals of timer
  rows starve later rows; a shout that failed advances though `runtime.rs:896` says that it is retried. What is thrown
  away is found by name first and deleted by number after; one refused item blocks the later entries.
- Quitting the hook's thread by a message that comes before its queue exists is lost. A function key is eaten although its worker has ended.
- `format_command_item` writes a spell of the hover list as `name/MT`, which is read back as an item (`lhx_window.rs:2746`).
  A potion whose item is not in the refilled list is unselected, and the next change on the page stores no item.

Patches
- `wait_and_patch` returns without resuming the threads when a read fails (patch.rs:560). "Already patched" is told by the first
  place only (`equip_ui`, `charselect`); a hook installed by half can be neither repaired nor removed; most hooks are written
  while the game runs. Switching the low-CPU hook off writes
  the bytes it found when it was switched on, also over what another program has put there since. `AllDay.disable` always refreshes the palette (`lhx_window.rs:3128` calls it a no-op), and a race in `SeaWater`
  leaves water hidden that nobody will show.
- Colours are put back by address, to whoever lives there by then. The identity of the player is read once per scan, so that
  one's own object in a monster's shape may be coloured if that read failed.
- The foot of a run: two creatures of one entry of the table drive each other out at each look, so that neither changes its foot; a run
  with only a right step is never shown, as the hook asks for the left slot first.

Files and start
- `SmoothRun`: a sprite on one line gets no steps when its header is rewritten (against emit.rs:6); the count in a header is
  replaced where its digits first occur, which may be in the number of the sprite; a runner that names a walker does not
  raise its count.
- Encoder: a garbled `list.txt` counts as empty and is written over; `list.txt` is written before `config.ini`, and
  a failure between them leaves half,
  and a write that is cut off loses the servers behind the cut. Servers that were taken over from an old `config.ini` are gone from it
  with the first encoding, which puts only the slot in the form into `list.txt`. `lineage.cfg`: a missing key counts as success.
- Two quick clicks on "launch" start two games, and the end of the first closes the proxy of the second. After a failed
  update the window offers to try again, but the update is forgotten until the next start.
- Stage 2 without auxiliary and bot ends after patching and takes its delayed threads with it.

## 6. What is not modelled

- Drawing, layout, scaling and texts: overlay, minimap, GUI pages, skins, `i18n.rs`, `logger.rs`, the IME overlay; formats
  of sprites and map files. Properties of them would be about pixels.
- The machine code of the hooks that have no state between two calls (images under the mouse, HP and MP beyond 32767, low CPU), and
  of the overhead hooks that `ENABLE_OVERHEAD_TEXT_COLOR_HOOK = false` disables; the bar functions of
  `hp_mp_patch.rs` that are compiled for tests only.
- The arithmetic of RSA in `rsa32.rs` (its keys appear as numbers of a pair), HTTP, downloads (an update
  arrives or fails), the registry but for the compatibility flags.
- Projections from tiles to pixels and back, the client's walkability bits, the bag: inputs of the bot's modules.
- `walk_hold`, `click_hold_at_pixel` and `press_fkey`, which have no caller in the hunt.
- The game itself and the server: what they may do is an action of the module that meets it.
- Diagnostics and reports that nothing reads back.

## 7. What could come next

An abstract hunt (idle, travelling, fighting, recovering, escaping) that `HuntStep` implements; the composition of
`HuntStep` with `HuntPlan` on one ground. `PatchesSound` of programs in general: a language of patches with rules
for when a sequence of instructions may be interrupted, of which the code's programs are examples.
