---------------------------- MODULE MCAuxScheduler ----------------------------
(***************************************************************************)
(* The threads of the auxiliary's scheduler and what they share: the table   *)
(* of spells and the calls into the game.  A behaviour is of one of the      *)
(* modules; s1 to s10 are its variables, in the order in which it lists      *)
(* them, and the slots that it has no use for hold 0.  The constants are     *)
(* those of the modules, which explain them.                                 *)
(***************************************************************************)
EXTENDS Naturals, Sequences

CONSTANTS
    Casters, Careful, WithTable, Addresses, MaxLogins,     \* SpellBook
    BuffPage, Effects, Things, Cooldown, Rtt,              \* AuxBuffs
    Every, ShoutEvery, Messages, TooLong, MaxClicks,       \* AuxTimers
    MaxHp, Lows, MpSafe, Cooldowns, Lookers,               \* AuxSweeps
    Stuck, Quick,                                          \* of every call
    Items, Name, DeleteList, DissolveList, Solvent, Kept, MaxFinds, \* AuxDelete
    MaxSessions, MaxQueue, KeyCooldown, Deadline,          \* AuxHotkey
    Thresholds, HighRange, Totals,                         \* AuxExp
    CallIds, Requests, Targets                             \* RemoteCall

VARIABLES part, s1, s2, s3, s4, s5, s6, s7, s8, s9, s10

mcVars == <<part, s1, s2, s3, s4, s5, s6, s7, s8, s9, s10>>

Book == INSTANCE SpellBook WITH
    game <- s1, legible <- s2, logins <- s3, book <- s4, table <- s5, caster <- s6, doubt <- s7
Buffs == INSTANCE AuxBuffs WITH
    Rows <- BuffPage,
    world <- s1, bag <- s2, effect <- s3, tick <- s4, cool <- s5, by <- s6
Timers == INSTANCE AuxTimers WITH
    on <- s1, follows <- s2, clicks <- s3, timer <- s4, list <- s5, shout <- s6, gap <- s7
Sweeps == INSTANCE AuxSweeps WITH
    Safe <- MpSafe,
    follows <- s1, world <- s2, hp <- s3, amiss <- s4, usable <- s5, tick <- s6, cool <- s7, hit <- s8
Delete == INSTANCE AuxDelete WITH
    on <- s1, finds <- s2, bag <- s3, worn <- s4, tick <- s5, sent <- s6, putOn <- s7
Hotkey == INSTANCE AuxHotkey WITH
    Cooldown <- KeyCooldown,
    session <- s1, tx <- s2, queue <- s3, worker <- s4, hook <- s5, poster <- s6, quit <- s7, late <- s8
Exp == INSTANCE AuxExp WITH
    world <- s1, want <- s2, total <- s3, tracker <- s4, report <- s5, sum <- s6, fell <- s7
Call == INSTANCE RemoteCall WITH
    Calls <- CallIds,
    request <- s1, call <- s2, page <- s3, thread <- s4, saved <- s5, global <- s6, alive <- s7, effect <- s8, chosen <- s9, touched <- s10

ASSUME PartsAssumption ==
    /\ Book!BookAssumption /\ Buffs!BuffsAssumption /\ Timers!TimersAssumption
    /\ Sweeps!SweepsAssumption /\ Delete!DeleteAssumption /\ Hotkey!HotkeyAssumption
    /\ Exp!ExpAssumption /\ Call!CallsAssumption

MCInit ==
    \/ part = "book" /\ Book!Init /\ s8 = 0 /\ s9 = 0 /\ s10 = 0
    \/ part = "buffs" /\ Buffs!Init /\ s7 = 0 /\ s8 = 0 /\ s9 = 0 /\ s10 = 0
    \/ part = "timers" /\ Timers!Init /\ s8 = 0 /\ s9 = 0 /\ s10 = 0
    \/ part = "sweeps" /\ Sweeps!Init /\ s9 = 0 /\ s10 = 0
    \/ part = "delete" /\ Delete!Init /\ s8 = 0 /\ s9 = 0 /\ s10 = 0
    \/ part = "hotkey" /\ Hotkey!Init /\ s9 = 0 /\ s10 = 0
    \/ part = "exp" /\ Exp!Init /\ s8 = 0 /\ s9 = 0 /\ s10 = 0
    \/ part = "call" /\ Call!Init

\* What a step of each part leaves alone.
BookRest == part = "book" /\ UNCHANGED <<part, s8, s9, s10>>
BuffsRest == part = "buffs" /\ UNCHANGED <<part, s7, s8, s9, s10>>
TimersRest == part = "timers" /\ UNCHANGED <<part, s8, s9, s10>>
SweepsRest == part = "sweeps" /\ UNCHANGED <<part, s9, s10>>
DeleteRest == part = "delete" /\ UNCHANGED <<part, s8, s9, s10>>
HotkeyRest == part = "hotkey" /\ UNCHANGED <<part, s9, s10>>
ExpRest == part = "exp" /\ UNCHANGED <<part, s8, s9, s10>>
CallRest == part = "call" /\ UNCHANGED part

MCNext ==
    \/ BookRest /\ Book!Next
    \/ BuffsRest /\ Buffs!Next
    \/ TimersRest /\ Timers!Next
    \/ SweepsRest /\ Sweeps!Next
    \/ DeleteRest /\ Delete!Next
    \/ HotkeyRest /\ Hotkey!Next
    \/ ExpRest /\ Exp!Next
    \/ CallRest /\ Call!Next

\* What runs by itself: the threads of the launcher, calls that end, time.
Runs ==
    \/ BuffsRest /\ Buffs!BuffTick
    \/ TimersRest /\ Timers!TimerTick
    \/ SweepsRest /\ Sweeps!Tick
    \/ DeleteRest /\ Delete!Chooses
    \/ HotkeyRest /\ Hotkey!Worker
Runs2 ==
    \/ BuffsRest /\ Buffs!Server
    \/ TimersRest /\ Timers!ShoutTick
    \/ DeleteRest /\ Delete!Returns
    \/ HotkeyRest /\ Hotkey!HookThread
Elapse ==
    \/ BuffsRest /\ Buffs!Elapse
    \/ TimersRest /\ Timers!Elapse
    \/ SweepsRest /\ Sweeps!Elapse
    \/ HotkeyRest /\ Hotkey!Elapse

\* The fairness of the modules, with that of several parts in one condition:
\* a behaviour is of one part only.
MCSpec ==
    /\ MCInit /\ [][MCNext]_mcVars
    /\ WF_mcVars(Runs) /\ WF_mcVars(Runs2) /\ WF_mcVars(Elapse)
    /\ WF_mcVars(HotkeyRest /\ Hotkey!Poster)
    /\ WF_mcVars(HotkeyRest /\ Hotkey!Joined)
    /\ \A c \in Casters : WF_mcVars(BookRest /\ Book!Tick(c))
    /\ \A i \in Items : WF_mcVars(DeleteRest /\ Delete!Answers(i))
    /\ \A c \in CallIds : WF_mcVars(CallRest /\ Call!Caller(c) /\ Call!Busy(c))

-------------------------------------------------------------------------------
TypeOK ==
    CASE part = "book" -> Book!TypeOK   [] part = "buffs" -> Buffs!TypeOK
      [] part = "timers" -> Timers!TypeOK [] part = "sweeps" -> Sweeps!TypeOK
      [] part = "delete" -> Delete!TypeOK [] part = "hotkey" -> Hotkey!TypeOK
      [] part = "exp" -> Exp!TypeOK       [] OTHER -> Call!TypeOK

\* A call has at most one effect, and it had it if it is reported as done while
\* the game runs: what RemoteCall promises to those who call.
Expected == INSTANCE AtMostOnce WITH
    Calls <- CallIds, Effects <- Targets,
    call <- IF part = "call" THEN Call!Told ELSE [c \in CallIds |-> "none"],
    effect <- IF part = "call" THEN s8 ELSE [c \in CallIds |-> {}],
    alive <- part = "call" => s7
CallsOnce == Expected!Spec

\* The properties of the parts; each is explained in its module.
\* A page is freed under its thread only when the call was given up as late.
RunsInItsPage == part = "call" => Call!RunsInItsPage
\* The player's own target comes back after a call that had set it.
AimComesBack == part = "call" => Call!AimComesBack
\* An attack goes to its target unless the player has chosen another.
AttackKeepsTarget == [][part = "call" => Call!AttackKeepsTarget]_mcVars
\* Calls end.
CallsEnd == \A c \in CallIds : []<>~(part = "call" /\ Call!Busy(c))
\* Nobody's spells but the player's are cast, with three exceptions.
CastsOwnSpell == [][part = "book" => Book!CastsOwnSpell]_mcVars
\* Who is careful has a book, old or new.
CarefulHaveABook == part = "book" => Book!CarefulHaveABook
\* The table of spells becomes the player's.
BookCatchesUp == <>[](part = "book" /\ Book!Playing) => <>[](part = "book" /\ Book!UpToDate)
\* A buff is not used again while its answer is awaited.
AnswerAwaited == [][part = "buffs" => Buffs!AnswerAwaited]_mcVars
\* No buff keeps another from its turn.
EveryRowHasItsTurn ==
    \A r \in DOMAIN BuffPage : <>[](part = "buffs" /\ Buffs!Usable(r) /\ Buffs!NotStuck)
                          => []<>(part = "buffs" /\ Buffs!Turn(r))
\* An interval lies between two uses of a row of the timer page.
RowsSpaced == [][part = "timers" => Timers!RowsSpaced]_mcVars
\* An interval lies between two shouts.
ShoutsSpaced == [][part = "timers" => Timers!ShoutsSpaced]_mcVars
\* Rows that have room are used.
RowsFire ==
    \A r \in DOMAIN Every : Timers!HasRoom(r) /\ <>[](part = "timers" /\ Timers!RowOn)
                          => []<>(part = "timers" /\ Timers!RowTurn(r))
\* Each message has its turn.
ShoutsInTurn ==
    \A n \in 1 .. Messages : \A m \in 1 .. n :
        <>[](part = "timers" /\ Timers!ShoutOn(n)) => []<>(part = "timers" /\ Timers!ShoutTurn(m))
\* HP are not spent by a player who had too few when the tick looked.
MpWhenSafe == [][part = "sweeps" => Sweeps!MpWhenSafe]_mcVars
\* What stays amiss is seen to.
EntriesSeenTo ==
    \A e \in Sweeps!AllEntries :
        <>[](part = "sweeps" /\ Sweeps!Wanted(e)) => []<>(part = "sweeps" /\ Sweeps!Turn(e))
\* What is worn is not thrown away.
WornStays == [][part = "delete" => Delete!WornStays]_mcVars
\* What is listed goes.
ListedGoes == \A i \in Delete!Listed : []<>~(part = "delete" /\ Delete!Lies(i))
\* Keys go to the worker of their session.
HookFeedsWorker == part = "hotkey" => Hotkey!HookFeedsWorker
\* At most one key is used after the end of a session.
OneLateUse == part = "hotkey" => Hotkey!OneLateUse
\* A cancelled session ends.
SessionEnds == []<>~(part = "hotkey" /\ Hotkey!Ending)
\* The gains add up.
ReportsAddUp == part = "exp" => Exp!ReportsAddUp
\* Something is always left to gain.
SomethingLeft == part = "exp" => Exp!SomethingLeft
\* The level is that of the total.
LevelOfTotal == part = "exp" => Exp!LevelOfTotal

-------------------------------------------------------------------------------
\* What the run checks, by what it is about.
\* What a thread uses is there as long as it uses it: a page is freed under its
\* thread only if that is late, the target of the player comes back after a call, a
\* careful cast has a book, a hook its worker.  Every variable has its type.
WhatIsUsedIsThere ==
    /\ TypeOK /\ RunsInItsPage /\ AimComesBack /\ CarefulHaveABook /\ HookFeedsWorker /\ OneLateUse
\* What is used is the player's own and goes where it is aimed: spells, things that are
\* not worn, attacks.
OwnThingsOnly == CastsOwnSpell /\ WornStays /\ AttackKeepsTarget
\* Nothing is used before its time: an answer is awaited, intervals pass, HP are there.
UsesAreSpaced == AnswerAwaited /\ RowsSpaced /\ ShoutsSpaced /\ MpWhenSafe
\* The experience that is reported adds up, over gains, deaths and levels.
LevelsAddUp == LevelOfTotal /\ SomethingLeft /\ ReportsAddUp
\* Every row, message and entry has its turn; calls and sessions end; the table of
\* spells becomes the player's.
EveryoneServed ==
    /\ EveryRowHasItsTurn /\ RowsFire /\ ShoutsInTurn /\ EntriesSeenTo /\ ListedGoes
    /\ CallsEnd /\ BookCatchesUp /\ SessionEnds

-------------------------------------------------------------------------------
(* Values of the constants that are not numbers or sets of names.             *)

\* Two spells, the second of which has to wait for a tick in which the first
\* is not cast, and an item that is used on something worn.
BuffRows == <<[type |-> "S", aim |-> "self", effect |-> "e1", name |-> "stone"],
              [type |-> "S", aim |-> "none", effect |-> "e2", name |-> "stone"],
              [type |-> "I", aim |-> "worn", effect |-> "e2", name |-> "stone"]>>
\* Two rows of the same interval, and a quicker one after them.
TimerRows == <<3, 3, 2>>
PotionRows == <<1, 2>>
StatusCooldowns == <<2, 3>>
NamedAsThey == [i \in Items |-> i]
ToDelete == <<"rag">>
ToDissolve == <<"sword", "coin">>
Levels == <<0, 125, 300, 512>>
\* The bot attacks, a buff is cast without a target, and a potion is drunk.
Asked == {[thread |-> "bot",   code |-> <<"save", "aim", "act", "restore", "ret">>, target |-> "m1"],
          [thread |-> "buff",  code |-> <<"save", "act", "restore", "ret">>, target |-> "m1"],
          [thread |-> "drink", code |-> <<"act", "ret">>, target |-> "m2"]}
===============================================================================
