------------------------------- MODULE MCServerPackets -------------------------------
(***************************************************************************)
(* TLC's instances of a packet ring by itself, with a history of what its    *)
(* reader heard, and of the two rings from which the bot hears.  A behaviour *)
(* is of one of the two.                                                    *)
(***************************************************************************)
EXTENDS PacketRing, Sequences

CONSTANTS
    Objects, Kinds, LowSlots, RawSlots, ServerMax, DeadTtl, DamageTtl, AttackerTtl

VARIABLES
    part,      \* which module the behaviour is of
    heard,     \* history of the ring: the packets its reader got, in order
    skipped,   \* history of the ring: those a lapped reader gave up
    empty,     \* history of the ring: those that had no packet
    packets, dispatched, hook, low, lowReader, raw, rawReader, player, known, dead, damaged,
    attackers, tick, answers

history == <<heard, skipped, empty>>
serverVars == <<packets, dispatched, hook, low, lowReader, raw, rawReader, player, known, dead,
                damaged, attackers, tick, answers>>
mcVars == <<part, history, ringVars, serverVars>>

Server == INSTANCE ServerPackets WITH sent <- packets, MaxPackets <- ServerMax

ASSUME ServerAssumption == Server!PacketsAssumption

MCInit ==
    /\ part \in {"ring", "server"}
    /\ heard = <<>> /\ skipped = {} /\ empty = {}
    /\ RingInit /\ Server!Init
    /\ part # "server" => player = Server!Nobody

RingRest == <<part, serverVars>>
RingWrites ==
    /\ part = "ring"
    /\ \/ Push /\ UNCHANGED empty
       \/ WriteNothing /\ empty' = empty \cup {ring.tail}
    /\ UNCHANGED <<heard, skipped, RingRest>>
RingReads ==
    /\ part = "ring"
    /\ \/ /\ StartDrain
          /\ skipped' = skipped \cup (reader.head + 1 .. reader'.at)
          /\ UNCHANGED heard
       \/ /\ ReadSlot
          /\ heard' = IF reader'.got = reader.got THEN heard
                      ELSE Append(heard, CHOOSE pair \in reader'.got : pair \notin reader.got)
          /\ UNCHANGED skipped
       \/ ReadFails /\ UNCHANGED <<heard, skipped>>
    /\ UNCHANGED <<empty, RingRest>>

ServerNext == part = "server" /\ Server!Next /\ UNCHANGED <<part, history, ringVars>>

MCNext == RingWrites \/ RingReads \/ ServerNext

MCSpec ==
    /\ MCInit /\ [][MCNext]_mcVars
    /\ WF_Server!vars(part = "server" /\ Server!Bot)
    /\ WF_Server!vars(part = "server" /\ Server!Elapse)
    /\ WF_Server!vars(part = "server" /\ Server!Hooks)
    /\ SF_Server!vars(part = "server" /\ Server!ReadsLow)
    /\ SF_Server!vars(part = "server" /\ Server!ReadsRaw)

ServerTypeOK == part = "server" => Server!TypeOK

\* Without a race each packet is heard once and in the order of the server,
\* and one that the reader has passed was heard, was marked empty by the hook
\* or was given up because it was overwritten: nothing is lost because a
\* drain ended, failed, or the next one started.
HeardInOrder ==
    part = "ring" /\ ~reader.raced =>
        /\ \A i, j \in DOMAIN heard : i < j => heard[i][1] < heard[j][1]
        /\ \A n \in 1 .. reader.at :
              \/ \E i \in DOMAIN heard : heard[i] = <<n, n>>
              \/ n \in skipped /\ n + Slots <= ring.tail
              \/ n \in empty

\* The bot takes an object for dead or gone only if the server said so.
DeathWasSaid == part = "server" => Server!DeathWasSaid
\* Both readers of the two rings stay behind the game, and what they give was sent.
RingsSound == part = "server" => Server!RingsSound
\* The second answer of a tick about damage names no target that the first did not.
DamageOnlyFades == [][part = "server" => Server!OnlyFades]_mcVars
\* Every packet is passed by the readers of its rings, however the game writes on.
SentIsPassed == part = "server" => Server!SentIsPassed
\* When the server has nothing more to say, the bot forgets what it heard.
RegistriesForget == part = "server" => Server!RegistriesForget

-------------------------------------------------------------------------------
\* What the run checks, by what it is about.
\* A reader that takes no lock gets what was sent, in order, each packet once,
\* except what it was too slow for; the same for the two rings of the bot.  Every
\* variable has its type.
RingIsHeard ==
    /\ RingTypeOK /\ ServerTypeOK
    /\ ReaderBehind /\ SlotsHold /\ GotIsSent /\ HeardInOrder /\ RingsSound
\* What the bot is told of deaths was said by the server.
AnswersWereSaid == DeathWasSaid
\* Packets are read and forgotten, and damage is not counted twice.
PacketsPass == DamageOnlyFades /\ SentIsPassed /\ RegistriesForget
===============================================================================
