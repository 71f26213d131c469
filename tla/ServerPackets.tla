----------------------------- MODULE ServerPackets -----------------------------
(***************************************************************************)
(* What the bot hears of the server (aux/server_packet_hook.rs, with         *)
(* bot/packet_events.rs): two hooks in the game copy its packets into a ring *)
(* each, the raw one first and then, for the opcodes that get there, the one *)
(* of the dispatch by opcode;                                               *)
(* every tick of the bot polls both rings, records deaths, damage and        *)
(* attackers with the time for which they hold, and asks for them.          *)
(***************************************************************************)
EXTENDS Naturals, Sequences, FiniteSets

CONSTANTS
    Objects,      \* objects of the game
    Kinds,        \* what the server's packets say, see Packets
    LowSlots, RawSlots, \* SERVER_PACKET_RING_SLOTS, RAW_SERVER_PACKET_RING_SLOTS
    MaxPackets,         \* bound: packets that the server sends
    DeadTtl,      \* RECENT_TARGET_EVENT_TTL
    DamageTtl,    \* RECENT_TARGET_DAMAGE_TTL
    AttackerTtl   \* RECENT_ATTACKER_TTL

PacketsAssumption ==
    /\ LowSlots \in Nat \ {0} /\ RawSlots \in Nat \ {0} /\ MaxPackets \in Nat
    /\ Kinds \subseteq {"dies", "appears", "hpMeter", "hits", "misses"}
    /\ DeadTtl \in Nat /\ DamageTtl \in Nat /\ AttackerTtl \in Nat

VARIABLES
    sent,          \* the packets of the server, in order
    dispatched,    \* the numbers of those that get to the hook of the dispatch
    hook,          \* where the game's thread is with the last of them
    low, lowReader, raw, rawReader,   \* the two rings
    player,        \* the object the player is, in the game's memory
    known,         \* PLAYER_ATTACK_TARGET_IDS
    dead, damaged, attackers,         \* RECENT_*: the time left
    tick,          \* where the bot's thread is
    answers        \* what the tick was told of damage

ringVars == <<low, lowReader, raw, rawReader>>
registries == <<dead, damaged, attackers>>
vars == <<sent, dispatched, hook, ringVars, player, known, registries, tick, answers>>

Low == INSTANCE PacketRing WITH ring <- low, reader <- lowReader, Slots <- LowSlots
Raw == INSTANCE PacketRing WITH ring <- raw, reader <- rawReader, Slots <- RawSlots

Nobody == "nobody"
Players == {"self"}
Ids == Players \cup {Nobody}

(***************************************************************************)
(* The packets, by what record_server_packet_events tells apart: a death    *)
(* (RemoveObject, Action or PutObject with the status of death), an object  *)
(* that comes into view, an attack (Attack, RangeSkill) and an HpMeter that  *)
(* shows a loss.                                                            *)
(***************************************************************************)
Packets ==
    [kind : Kinds \cap {"dies", "appears", "hpMeter"}, of : Objects]
      \cup [kind : Kinds \cap {"hits", "misses"}, by : Objects, of : Objects \cup Players]

TypeOK ==
    /\ sent \in Seq(Packets) /\ Len(sent) <= MaxPackets
    /\ dispatched \in Seq(1 .. MaxPackets)
    /\ hook \in {"idle", "raw", "low"}
    /\ Low!RingTypeOK /\ Raw!RingTypeOK
    /\ player \in Ids /\ known \in Ids
    /\ dead \in [Objects -> 0 .. DeadTtl]
    /\ damaged \in [Objects \cup Players -> 0 .. DamageTtl]
    /\ attackers \in [Objects -> 0 .. AttackerTtl]
    /\ tick \in {"ids", "low", "raw", "record", "frame", "step"}
    /\ answers \subseteq Objects \cup Players

None(S) == [o \in S |-> 0]

Init ==
    /\ sent = <<>> /\ dispatched = <<>> /\ hook = "idle"
    /\ Low!RingInit /\ Raw!RingInit
    /\ player \in Ids /\ known = Nobody
    /\ dead = None(Objects) /\ damaged = None(Objects \cup Players)
    /\ attackers = None(Objects)
    /\ tick = "ids" /\ answers = {}

-----------------------------------------------------------------------------
(***************************************************************************)
(* The game's thread: a packet goes through the raw hook and then, unless    *)
(* its opcode is above those of the game's table, through the other one.     *)
(***************************************************************************)

\* The game's range check comes before the hook; S_OPCODE_HP_METER is beyond it.
InTable(p) == p.kind # "hpMeter"

Arrives ==
    /\ hook = "idle" /\ Len(sent) < MaxPackets
    /\ \E p \in Packets :
        /\ sent' = Append(sent, p)
        /\ dispatched' = IF InTable(p) THEN Append(dispatched, Len(sent) + 1) ELSE dispatched
    /\ hook' = "raw"
    /\ UNCHANGED <<ringVars, player, known, registries, tick, answers>>

\* The slot of this packet in a ring is finished.
Pushed(r, packets) == r.tail = Len(packets) /\ r.writing = "no"

RawHook ==
    /\ hook = "raw" /\ ~Pushed(raw, sent)
    /\ Raw!Push
    /\ hook' = IF raw.writing # "headed" THEN "raw"
               ELSE IF InTable(sent[Len(sent)]) THEN "low" ELSE "idle"
    /\ UNCHANGED <<sent, dispatched, low, lowReader, player, known, registries, tick, answers>>

LowHook ==
    /\ hook = "low" /\ ~Pushed(low, dispatched)
    /\ Low!Push
    /\ hook' = IF low.writing = "headed" THEN "idle" ELSE "low"
    /\ UNCHANGED <<sent, dispatched, raw, rawReader, player, known, registries, tick, answers>>

\* The player logs in or out.
PlayerChanges ==
    /\ player' \in Ids \ {player}
    /\ UNCHANGED <<sent, dispatched, hook, ringVars, known, registries, tick, answers>>

-----------------------------------------------------------------------------
(***************************************************************************)
(* The bot's thread: poll.                                                  *)
(***************************************************************************)

RefreshIds ==
    /\ tick = "ids"
    /\ known' \in {player, Nobody}
    /\ tick' = "low"
    /\ Low!StartDrain
    /\ UNCHANGED <<sent, dispatched, hook, raw, rawReader, player, registries, answers>>

DrainLow ==
    /\ tick = "low"
    /\ \/ /\ Low!ReadSlot \/ Low!ReadFails
          /\ UNCHANGED <<raw, rawReader, tick>>
       \/ /\ ~Low!Draining /\ Raw!StartDrain
          /\ tick' = "raw"
          /\ UNCHANGED <<low, lowReader>>
    /\ UNCHANGED <<sent, dispatched, hook, player, known, registries, answers>>

DrainRaw ==
    /\ tick = "raw"
    /\ \/ /\ Raw!ReadSlot \/ Raw!ReadFails
          /\ UNCHANGED tick
       \/ /\ ~Raw!Draining
          /\ tick' = "record"
          /\ UNCHANGED <<raw, rawReader>>
    /\ UNCHANGED <<sent, dispatched, hook, low, lowReader, player, known, registries, answers>>

\* The events in what a ring gave.  The opcode says what the payload means: of
\* a packet that was read torn it is the other packet's payload, or an id out
\* of bytes that are none.
Read(pair) ==
    IF pair[1] = 0 \/ pair[2] = 0 THEN {}
    ELSE IF sent[pair[1]].kind = sent[pair[2]].kind THEN {sent[pair[2]]}
    ELSE {p \in Packets : p.kind = sent[pair[1]].kind}

\* What the ring of the dispatch gave, by the numbers of all packets.
Number(i) == IF i = 0 THEN 0 ELSE dispatched[i]
LowGot == {<<Number(pair[1]), Number(pair[2])>> : pair \in lowReader.got}

Heard == UNION {Read(pair) : pair \in LowGot \cup rawReader.got}

\* A wrong version, to show that the properties below can fail.
HitsToo(kinds) == {p \in Heard : p.kind \in kinds \cup {"hits"}}

Events(kinds) == {p \in Heard : p.kind \in kinds}

AimedAtPlayer(p) == known = Nobody \/ p.of = known

\* A wrong version, to show that the properties below can fail.
RenewedLonger(registry, hits, ttl) ==
    [o \in DOMAIN registry |-> IF o \in hits THEN ttl + 1 ELSE registry[o]]

Renewed(registry, hits, ttl) ==
    [o \in DOMAIN registry |-> IF o \in hits THEN ttl ELSE registry[o]]

Record ==
    /\ tick = "record"
    /\ dead' = Renewed(dead, {p.of : p \in Events({"dies"})}, DeadTtl)
    /\ damaged' = Renewed(damaged, {p.of : p \in Events({"hits", "hpMeter"})}, DamageTtl)
    /\ attackers' =
          Renewed(attackers,
                  {p.by : p \in {a \in Events({"hits", "misses"}) : AimedAtPlayer(a)}},
                  AttackerTtl)
    /\ lowReader' = [lowReader EXCEPT !.got = {}]
    /\ rawReader' = [rawReader EXCEPT !.got = {}]
    /\ tick' = "frame"
    /\ UNCHANGED <<sent, dispatched, hook, low, raw, player, known, answers>>

\* target_recently_damaged before the tick's decision and in the middle of it.
AskForFrame ==
    /\ tick = "frame"
    /\ answers' = {o \in DOMAIN damaged : damaged[o] > 0}
    /\ tick' = "step"
    /\ UNCHANGED <<sent, dispatched, hook, ringVars, player, known, registries>>

\* A wrong version, to show that the properties below can fail.
AskForAttackers ==
    /\ tick = "step"
    /\ answers' = {o \in DOMAIN attackers : attackers[o] > 0}
    /\ tick' = "ids"
    /\ UNCHANGED <<sent, dispatched, hook, ringVars, player, known, registries>>

AskInStep ==
    /\ tick = "step"
    /\ answers' = {o \in DOMAIN damaged : damaged[o] > 0}
    /\ tick' = "ids"
    /\ UNCHANGED <<sent, dispatched, hook, ringVars, player, known, registries>>

Shorter(registry) ==
    [o \in DOMAIN registry |-> IF registry[o] = 0 THEN 0 ELSE registry[o] - 1]

Elapse ==
    /\ \E r \in {dead, damaged, attackers} : \E o \in DOMAIN r : r[o] > 0
    /\ dead' = Shorter(dead) /\ damaged' = Shorter(damaged)
    /\ attackers' = Shorter(attackers)
    /\ UNCHANGED <<sent, dispatched, hook, ringVars, player, known, tick, answers>>

-----------------------------------------------------------------------------
Poll == RefreshIds \/ DrainLow \/ DrainRaw \/ Record
Bot == Poll \/ AskForFrame \/ AskInStep
Hooks == RawHook \/ LowHook
ReadsLow == DrainLow /\ Low!ReadSlot
ReadsRaw == DrainRaw /\ Raw!ReadSlot

Next == Arrives \/ Hooks \/ PlayerChanges \/ Bot \/ Elapse

\* The engine ticks as long as the game runs, reads do not fail for ever, and
\* time goes on.
Spec ==
    /\ Init /\ [][Next]_vars
    /\ WF_vars(Hooks) /\ WF_vars(Bot) /\ WF_vars(Elapse)
    /\ SF_vars(ReadsLow) /\ SF_vars(ReadsRaw)
-----------------------------------------------------------------------------
Raced == lowReader.raced \/ rawReader.raced

\* Both readers stay behind the game, and what they give was sent; whole,
\* unless a slot was read while the game wrote it.
RingsSound ==
    /\ Low!ReaderBehind /\ Low!SlotsHold /\ Low!GotIsSent
    /\ Raw!ReaderBehind /\ Raw!SlotsHold /\ Raw!GotIsSent

\* The bot takes an object for dead or gone only if the server said so, after
\* whatever delay: a packet read too late, twice or in the wrong order never
\* makes up a death (a torn one may).
DeathWasSaid ==
    \A o \in Objects :
        dead[o] > 0 => Raced \/ \E n \in DOMAIN sent : sent[n] = [kind |-> "dies", of |-> o]

\* The two answers that one tick gets about damage agree, except that damage
\* may become too old in between: the second never names a target that the
\* first did not.
OnlyFades == tick = "step" /\ tick' = "ids" => answers' \subseteq answers
DamageOnlyFades == [][OnlyFades]_vars

\* Every packet is passed by the readers of the rings it is in, however the game
\* writes on.
SentIsPassed ==
    \A n \in 1 .. MaxPackets :
        /\ Len(sent) >= n ~> rawReader.head >= n
        /\ Len(dispatched) >= n ~> lowReader.head >= n

\* When the server has nothing more to say, the bot forgets what it heard: no
\* packet is heard again and again.
RegistriesForget ==
    <>[](\A r \in {dead, damaged, attackers} : \A o \in DOMAIN r : r[o] = 0)
================================================================================
