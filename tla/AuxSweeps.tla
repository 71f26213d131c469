------------------------------- MODULE AuxSweeps -------------------------------
(***************************************************************************)
(* Two of the auxiliary's ticks that look after the player (aux/runtime).     *)
(* drink_tick goes through the rows of the potion page and then the row for   *)
(* the MP, with the state of the player as it was at the start of the tick;   *)
(* status_tick goes through its four features, each with a cooldown.  Each    *)
(* has a thread of its own; what it does is a call into the game, which may   *)
(* fail or be stuck for five seconds while the player fights on.              *)
(***************************************************************************)
EXTENDS Naturals, Sequences

CONSTANTS
    MaxHp,      \* levels of the HP
    Lows,       \* the thresholds of the rows of the potion page
    Safe,       \* mp_when_safe.hp_lower
    Cooldowns,  \* of the features of status_tick, in ticks of half a second
    Lookers,    \* those that cool whenever they have looked: whetstone, transform
    Stuck,      \* THREAD_WAIT_MS, in ticks
    Quick       \* bound: a call that is not stuck takes at most this long

Features == DOMAIN Cooldowns

SweepsAssumption ==
    /\ MaxHp \in Nat /\ Lows \in Seq(Nat) /\ Safe \in Nat
    /\ Cooldowns \in Seq(Nat) \ {<<>>} /\ Lookers \subseteq Features /\ Stuck \in Nat \ {0} /\ Quick \in 0 .. Stuck

VARIABLES
    follows, \* which of the two threads the behaviour follows
    world,   \* the feature is on, and the player is seen to be in the world
    hp,      \* the player's HP
    amiss,   \* what is the matter otherwise: MP are low; what a feature is for
    usable,  \* entries that have what they use: the item, or the spell
    tick,    \* where the thread is, and the state that it read at its start
    cool,    \* per feature: its cooldown as the current or next tick sees it
    hit      \* history: the HP fell since the tick read them

vars == <<follows, world, hp, amiss, usable, tick, cool, hit>>

MpRow == Len(Lows) + 1
LastEntry == IF follows = "drink" THEN MpRow ELSE Len(Cooldowns)
Entries == 1 .. LastEntry
Longest == CHOOSE n \in {Cooldowns[f] : f \in Features} : \A f \in Features : Cooldowns[f] <= n

Asleep == [pc |-> "sleep", entry |-> 0, hp |-> 0, dry |-> FALSE, age |-> 0, waits |-> 1]

TypeOK ==
    /\ follows \in {"drink", "status"} /\ world \in BOOLEAN
    /\ hp \in 0 .. MaxHp /\ amiss \subseteq Entries /\ usable \subseteq Entries
    /\ tick \in [pc : {"sleep", "entries", "call"}, entry : 0 .. LastEntry + 1,
                 hp : 0 .. MaxHp, dry : BOOLEAN, age : 0 .. Longest, waits : 0 .. Stuck]
    /\ cool \in [Features -> 0 .. Longest]
    /\ hit \in BOOLEAN

Init ==
    /\ follows \in {"drink", "status"} /\ world = TRUE
    /\ hp \in 0 .. MaxHp /\ amiss \in {{}, IF follows = "drink" THEN {MpRow} ELSE Features}
    /\ usable = Entries
    /\ tick = [Asleep EXCEPT !.waits = 0]
    /\ cool = [f \in Features |-> 0]
    /\ hit = FALSE

-------------------------------------------------------------------------------
(* The game.                                                                  *)

WorldChanges ==
    /\ world' = ~world
    /\ UNCHANGED <<follows, hp, amiss, usable, tick, cool, hit>>

HpChanges ==
    /\ follows = "drink"
    /\ hp' \in {n \in 0 .. MaxHp : n + 1 = hp \/ n = hp + 1}
    /\ hit' = (hit \/ hp' < hp)
    /\ UNCHANGED <<follows, world, amiss, usable, tick, cool>>

\* Poison, hunger, the MP ...
StateChanges ==
    /\ \E e \in IF follows = "drink" THEN {MpRow} ELSE Features :
          amiss' = (amiss \ {e}) \cup ({e} \ amiss)
    /\ UNCHANGED <<follows, world, hp, usable, tick, cool, hit>>

\* A bag, or a book of spells, that could not be read has nothing in it.
BagChanges ==
    /\ \E e \in Entries : usable' = (usable \ {e}) \cup ({e} \ usable)
    /\ UNCHANGED <<follows, world, hp, amiss, tick, cool, hit>>

-------------------------------------------------------------------------------
(* The tick.                                                                  *)

Wakes ==
    /\ tick.pc = "sleep" /\ tick.waits = 0
    /\ IF world
       THEN /\ tick' = [Asleep EXCEPT !.pc = "entries", !.entry = 1, !.waits = 0,
                                      !.hp = IF follows = "drink" THEN hp ELSE 0,
                                      !.dry = follows = "drink" /\ MpRow \in amiss]
            /\ hit' = FALSE
       ELSE tick' = Asleep /\ UNCHANGED hit
    /\ UNCHANGED <<follows, world, hp, amiss, usable, cool>>

\* A wrong version, to show that the properties below can fail.
MpOnItsOwn(e) == IF e = MpRow THEN tick.dry ELSE tick.hp < Lows[e]

\* The rows of the potion page, and mp_when_safe_triggered.
Triggered(e) == IF e = MpRow THEN tick.dry /\ tick.hp >= Safe ELSE tick.hp < Lows[e]

\* What the features look at is read when it is their turn.
Due(e) == IF follows = "drink" THEN Triggered(e) ELSE cool[e] = 0 /\ e \in amiss

\* Eating and the antidote start to cool when they are due, the whetstone and
\* the transformation when they have looked.
Cooling(e) == IF follows = "status" THEN [cool EXCEPT ![e] = Cooldowns[e]] ELSE cool

Now == tick.pc = "entries" /\ tick.entry \in Entries
Next1 == [tick EXCEPT !.pc = "entries", !.entry = @ + 1, !.waits = 0]

\* Not due; or there is nothing to use.
Passes ==
    /\ Now /\ ~(Due(tick.entry) /\ tick.entry \in usable)
    /\ tick' = Next1
    /\ cool' = IF Due(tick.entry) \/ (tick.entry \in Lookers /\ cool[tick.entry] = 0)
               THEN Cooling(tick.entry) ELSE cool
    /\ UNCHANGED <<follows, world, hp, amiss, usable, hit>>

Calls ==
    /\ Now /\ Due(tick.entry) /\ tick.entry \in usable
    /\ tick' = [tick EXCEPT !.pc = "call"]
    /\ cool' = Cooling(tick.entry)
    /\ UNCHANGED <<follows, world, hp, amiss, usable, hit>>

\* A wrong version, to show that the properties below can fail.
StopsAtFailure(well) == IF well THEN Next1 ELSE Asleep

\* "A row-local failure should not block later rows".
AfterCall(well) == Next1

Returns(well) ==
    /\ tick.pc = "call"
    /\ tick.waits <= Quick \/ (tick.waits = Stuck /\ ~well)
    /\ tick' = AfterCall(well)
    /\ UNCHANGED <<follows, world, hp, amiss, usable, cool, hit>>

\* The cooldowns count from the start of the tick.
Ends ==
    /\ tick.pc = "entries" /\ tick.entry \notin Entries
    /\ tick' = Asleep
    /\ cool' = [f \in Features |-> IF cool[f] > tick.age THEN cool[f] - tick.age ELSE 0]
    /\ UNCHANGED <<follows, world, hp, amiss, usable, hit>>

Elapse ==
    /\ \/ /\ tick.pc = "sleep" /\ tick.waits > 0
          /\ tick' = [tick EXCEPT !.waits = @ - 1]
          /\ cool' = [f \in Features |-> IF cool[f] > 0 THEN cool[f] - 1 ELSE 0]
       \/ /\ tick.pc = "call" /\ tick.waits < Stuck
          /\ tick' = [tick EXCEPT !.waits = @ + 1, !.age = IF @ < Longest THEN @ + 1 ELSE @]
          /\ UNCHANGED cool
    /\ UNCHANGED <<follows, world, hp, amiss, usable, hit>>

Tick == Wakes \/ Passes \/ Calls \/ Ends \/ \E well \in BOOLEAN : Returns(well)
Game == WorldChanges \/ HpChanges \/ StateChanges \/ BagChanges
Next == Tick \/ Game \/ Elapse

\* The thread runs, calls end and time passes.
Spec == Init /\ [][Next]_vars /\ WF_vars(Tick) /\ WF_vars(Elapse)

-------------------------------------------------------------------------------
\* MP are bought with HP only by a player who had enough of them, or who was
\* hit after the tick, which may last as long as all its calls, had looked.
MpWhenSafe ==
    Calls /\ follows = "drink" /\ tick.entry = MpRow => hp >= Safe \/ hit

\* What stays amiss is seen to again and again: no entry is kept from its
\* turn by those before it, however these fail and however long they take.
Amiss(e) ==
    IF follows = "drink"
    THEN IF e = MpRow THEN e \in amiss /\ hp >= Safe ELSE hp < Lows[e]
    ELSE e \in amiss
Wanted(e) == world /\ e \in usable /\ Amiss(e)
Turn(e) == tick.pc = "call" /\ tick.entry = e
AllEntries == 1 .. MpRow \cup Features
EntriesSeenTo == \A e \in AllEntries : <>[]Wanted(e) => []<>Turn(e)
===============================================================================
