------------------------------- MODULE AuxBuffs -------------------------------
(***************************************************************************)
(* Buffs that the auxiliary keeps up (aux/runtime: buff_tick, with           *)
(* aux/buff_dispatch).  Every half second the rows of the page are gone      *)
(* through: a row whose effect is missing is used, unless it was used in the *)
(* last five seconds.  A use is a call into the game that takes its time,    *)
(* up to five seconds if it gets stuck, and the effect shows only when the   *)
(* server has answered.                                                     *)
(***************************************************************************)
EXTENDS Naturals, Sequences, FiniteSets

CONSTANTS
    Rows,      \* the rows of the page, from 1: [type, aim, effect, name]
    Effects,   \* ids of the table of effects
    Things,    \* names of items
    Cooldown,  \* COOLDOWN_ITEM = COOLDOWN_SKILL, in ticks
    Stuck,     \* THREAD_WAIT_MS, in ticks
    Quick,     \* bound: a call that is not stuck takes at most this long
    Rtt        \* bound: the server answers within this time

Types == {"I", "S", "K"}
Aims == {"plain", "info", "self", "worn", "wielded", "named", "entity", "none", "hover"}

BuffsAssumption ==
    /\ Rows \in Seq([type : Types, aim : Aims, effect : Effects, name : Things])
    /\ Cooldown \in Nat \ {0} /\ Stuck \in Nat \ {0} /\ Quick \in 0 .. Stuck /\ Rtt \in Nat \ {0}

VARIABLES
    world,   \* the feature is on, and the player is seen to be in the world
    bag,     \* per name: the item is not seen there, is in the bag, worn or wielded
    effect,  \* per effect: off, on, or how long its packet has been away
    tick,    \* where buff_tick is: its row, age, snapshot, what it has cast
    cool,    \* per key: its cooldown as the current or the next tick sees it
    by       \* history, per effect: the row whose packet is away, unless it was
             \* sent so late in its tick that the cooldown ends before the answer

vars == <<world, bag, effect, tick, cool, by>>

RowIds == DOMAIN Rows
\* Rows of one type for one effect cool together.
Key(r) == <<Rows[r].type, Rows[r].effect>>
Keys == {Key(r) : r \in RowIds}
Places == {"none", "bag", "worn", "wielded"}
Off == 0
On == Rtt + 1
Ages == 0 .. Cooldown

TypeOK ==
    /\ world \in BOOLEAN
    /\ bag \in [Things -> Places]
    /\ effect \in [Effects -> Off .. On]
    /\ tick \in [pc : {"sleep", "rows", "call"}, row : RowIds \cup {0, Len(Rows) + 1},
                 age : Ages, waits : 0 .. Stuck, gone : SUBSET Effects, cast : BOOLEAN]
    /\ cool \in [Keys -> Ages]
    /\ by \in [Effects -> RowIds \cup {0}]

Asleep == [pc |-> "sleep", row |-> 0, age |-> 0, waits |-> 1, gone |-> {}, cast |-> FALSE]

Init ==
    /\ world = TRUE
    /\ bag \in [Things -> {"none", "bag"}]
    /\ effect = [e \in Effects |-> Off]
    /\ tick = [Asleep EXCEPT !.waits = 0]
    /\ cool = [k \in Keys |-> 0]
    /\ by = [e \in Effects |-> 0]

-------------------------------------------------------------------------------
(* The game and the server.                                                   *)

Missing(e) == effect[e] # On
Away(e) == effect[e] \in 1 .. Rtt

WorldChanges ==
    /\ world' = ~world
    /\ UNCHANGED <<bag, effect, tick, cool, by>>

\* A bag that could not be read has nothing in it.
BagChanges(t) ==
    /\ \E place \in {"none", "bag", "worn"} \ {bag[t]} : bag' = [bag EXCEPT ![t] = place]
    /\ UNCHANGED <<world, effect, tick, cool, by>>

\* The server applies the effect, or refuses.
Answers(e) ==
    /\ Away(e)
    /\ \E to \in {On, Off} : effect' = [effect EXCEPT ![e] = to]
    /\ by' = [by EXCEPT ![e] = 0]
    /\ UNCHANGED <<world, bag, tick, cool>>

WearsOff(e) ==
    /\ effect[e] = On
    /\ effect' = [effect EXCEPT ![e] = Off]
    /\ UNCHANGED <<world, bag, tick, cool, by>>

-------------------------------------------------------------------------------
(* The tick.                                                                  *)

Wakes ==
    /\ tick.pc = "sleep" /\ tick.waits = 0
    /\ tick' = IF world
               THEN [Asleep EXCEPT !.pc = "rows", !.row = 1, !.waits = 0,
                                   !.gone = {e \in Effects : Missing(e)}]
               ELSE Asleep
    /\ UNCHANGED <<world, bag, effect, cool, by>>

Row == Rows[tick.row]
AtRow == tick.pc = "rows" /\ tick.row \in RowIds

\* A wrong version, to show that the properties below can fail.
DueWhileAway ==
    /\ ~(Row.type = "S" /\ tick.cast)
    /\ Row.effect \in tick.gone /\ Missing(Row.effect)

\* A row is passed over while it cools, when its effect was there at the start
\* of the tick or is there now, and a spell when one was cast in this tick.
Due ==
    /\ cool[Key(tick.row)] = 0
    /\ ~(Row.type = "S" /\ tick.cast)
    /\ Row.effect \in tick.gone /\ Missing(Row.effect)

Next1 == [tick EXCEPT !.pc = "rows", !.row = @ + 1, !.waits = 0]

Passes ==
    /\ AtRow /\ ~Due
    /\ tick' = Next1
    /\ UNCHANGED <<world, bag, effect, cool, by>>

\* A wrong version, to show that the properties below can fail.
CoolingAfterUse(r) == IF Rows[r].type = "I" THEN [cool EXCEPT ![Key(r)] = Cooldown] ELSE cool

\* The cooldown counts from the start of the tick.
Cooling(r) == [cool EXCEPT ![Key(r)] = Cooldown]

InBag(t) == bag[t] # "none"
SomeIn(place) == \E t \in Things : bag[t] = place

\* execute_buff_item, before the call: is there something to use, and to use
\* it on.  The information row only writes to the log.
HasTarget ==
    /\ Row.aim \in {"worn", "wielded"} => SomeIn(Row.aim)
    /\ Row.aim = "named" => InBag(Row.name)
Dispatches ==
    \/ Row.type = "I" /\ Row.aim # "info" /\ InBag(Row.name) /\ HasTarget
    \/ Row.type = "S" /\ Row.aim \in {"self", "none", "hover", "worn", "wielded", "named"} /\ HasTarget

Skips ==
    /\ AtRow /\ Due /\ ~Dispatches
    /\ tick' = Next1
    /\ cool' = Cooling(tick.row)
    /\ UNCHANGED <<world, bag, effect, by>>

Calls ==
    /\ AtRow /\ Due /\ Dispatches
    /\ tick' = [tick EXCEPT !.pc = "call"]
    /\ UNCHANGED <<world, bag, effect, cool, by>>

\* The call has sent its packet, or has failed before.  A spell counts as cast
\* when its call has returned well.
Returns(sent, well) ==
    /\ tick.pc = "call"
    /\ tick' = [Next1 EXCEPT !.cast = @ \/ (well /\ Row.type = "S")]
    /\ cool' = Cooling(tick.row)
    /\ IF sent /\ world /\ Missing(Row.effect)
       THEN /\ effect' = [effect EXCEPT ![Row.effect] = 1]
            /\ by' = [by EXCEPT ![Row.effect] =
                          IF tick.age + Rtt > Cooldown THEN 0 ELSE tick.row]
       ELSE UNCHANGED <<effect, by>>
    /\ UNCHANGED <<world, bag>>

IsDone == tick.waits <= Quick /\ Returns(TRUE, TRUE)
HasFailed == tick.waits <= Quick /\ Returns(FALSE, FALSE)
\* What a stuck thread has done by then, nobody knows.
WasStuck == tick.waits = Stuck /\ \E sent \in BOOLEAN : Returns(sent, FALSE)

\* The cooldowns were set at the start of the tick.
Ends ==
    /\ tick.pc = "rows" /\ tick.row = Len(Rows) + 1
    /\ tick' = Asleep
    /\ cool' = [k \in Keys |-> IF cool[k] > tick.age THEN cool[k] - tick.age ELSE 0]
    /\ UNCHANGED <<world, bag, effect, by>>

-------------------------------------------------------------------------------
(* Time, in ticks of half a second.                                           *)

Older(e) == IF Away(e) THEN effect[e] + 1 ELSE effect[e]

Elapse ==
    /\ \A e \in Effects : Away(e) => effect[e] < Rtt
    /\ \/ /\ tick.pc = "sleep" /\ tick.waits > 0
          /\ tick' = [tick EXCEPT !.waits = @ - 1]
          /\ cool' = [k \in Keys |-> IF cool[k] > 0 THEN cool[k] - 1 ELSE 0]
       \/ /\ tick.pc = "call" /\ tick.waits < Stuck
          /\ tick' = [tick EXCEPT !.waits = @ + 1,
                                  !.age = IF @ < Cooldown THEN @ + 1 ELSE @]
          /\ UNCHANGED cool
    /\ effect' = [e \in Effects |-> Older(e)]
    /\ UNCHANGED <<world, bag, by>>

BuffTick == Wakes \/ Passes \/ Skips \/ Calls \/ IsDone \/ HasFailed \/ WasStuck \/ Ends
Player == WorldChanges \/ \E t \in Things : BagChanges(t)
Server == \E e \in Effects : Answers(e) \/ WearsOff(e)

Next == BuffTick \/ Player \/ Server \/ Elapse

\* The thread runs, calls end, time passes and the server answers.
Spec ==
    /\ Init /\ [][Next]_vars
    /\ WF_vars(BuffTick) /\ WF_vars(Elapse) /\ WF_vars(Server)

-------------------------------------------------------------------------------
\* A row is not used again while the server has not answered its last packet,
\* unless that was sent so late in a tick that the cooldown, which counts from
\* the tick's start, is over before the answer comes.
AnswerAwaited == Calls => by[Row.effect] = 0 \/ Key(by[Row.effect]) # Key(tick.row)

\* No row keeps another from its turn: one whose effect stays away although it
\* could be used is used again and again, whatever the server says to the
\* others, if no call is stuck: a tick with a stuck call is as long as the
\* cooldown, which is over when the next one starts.
Usable(r) ==
    /\ world /\ Missing(Rows[r].effect)
    /\ Rows[r].type = "S" => Rows[r].aim \in {"self", "none", "hover"}
    /\ Rows[r].type = "I" => Rows[r].aim = "plain" /\ InBag(Rows[r].name)
    /\ Rows[r].type # "K"
NotStuck == tick.pc = "call" => tick.waits <= Quick
Turn(r) == tick.pc = "call" /\ tick.row = r
EveryRowHasItsTurn == \A r \in RowIds : <>[](Usable(r) /\ NotStuck) => []<>Turn(r)
===============================================================================
