------------------------------ MODULE DamageText ------------------------------
(***************************************************************************)
(* What the code that attack_damage_hook puts into the game does: for every    *)
(* hit of the player's own it shows "damage, total" over the monster, where    *)
(* the total goes on as long as the same monster is hit again within           *)
(* ACCUMULATOR_TIMEOUT_MS.  Two more entries, for whole areas, are built but    *)
(* never installed.                                                            *)
(***************************************************************************)
EXTENDS Integers, Sequences, SequencesExt

CONSTANTS
    Monsters,  \* identities of monsters, numbers other than 0
    SelfId,    \* SELF_CHAR_ID
    Ids,       \* the identities of the player at +0x0C and +0x14 of its object
    Others,    \* attackers that are not the player
    Damages,   \* what hits do; the server may send less than 0 for an area
    Timeout,   \* ACCUMULATOR_TIMEOUT_MS
    ClockSize, \* GetTickCount starts again at 0 here
    TotalSize, \* and the total here
    MaxHits,   \* bound: hits shown
    MaxTargets \* bound: targets of one packet for an area

DamageAssumption ==
    /\ ClockSize \in Nat \ {0} /\ Timeout \in 0 .. ClockSize - 1
    /\ TotalSize \in Nat \ {0} /\ Damages \subseteq Int /\ \A d \in Damages : d < TotalSize
    /\ 0 \notin Monsters /\ Others \cap (Ids \cup {SelfId}) = {}
    /\ MaxHits \in Nat /\ MaxTargets \in Nat \ {0}

VARIABLES
    now,     \* GetTickCount
    loaded,  \* the player's object is there
    last,    \* last_target, last_total, last_tick
    packet,  \* a packet for an area that is being parsed: who attacks, which
             \* target is next, and the cursor
    shown,   \* history: the hits that were shown, each with the time before it
    gap      \* history: the time since the last one

vars == <<now, loaded, last, packet, shown, gap>>

NoPacket == [by |-> 0, next |-> 0, cursor |-> 0]

TypeOK ==
    /\ now \in 0 .. ClockSize - 1 /\ loaded \in BOOLEAN
    /\ last \in [target : Monsters \cup {0}, total : 0 .. TotalSize - 1, tick : 0 .. ClockSize - 1]
    /\ packet.next \in 0 .. MaxTargets /\ packet.cursor \in 0 .. 3 * MaxTargets
    /\ Len(shown) <= MaxHits /\ gap \in 0 .. ClockSize - 1

Init ==
    /\ now \in 0 .. ClockSize - 1 /\ loaded \in BOOLEAN
    /\ last = [target |-> 0, total |-> 0, tick |-> 0]
    /\ packet = NoPacket /\ shown = <<>> /\ gap = 0

-------------------------------------------------------------------------------
(* Hits.                                                                       *)

\* A wrong version, to show that the properties below can fail.
AnyoneIsMe(attacker) == attacker = SelfId \/ ~loaded \/ attacker \in Ids

\* emit_attacker_filter.
IsMe(attacker) == attacker = SelfId \/ (loaded /\ attacker \in Ids)

Elapsed == (now - last.tick + ClockSize) % ClockSize

\* A wrong version, to show that the properties below can fail.
KeepsTick(target, damage) ==
    IF last.target = target /\ Elapsed <= Timeout
    THEN [last EXCEPT !.total = (last.total + damage) % TotalSize]
    ELSE [target |-> target, total |-> damage, tick |-> now]

\* A wrong version, to show that the properties below can fail.
Unwrapped(target, damage) ==
    IF last.target = target /\ Elapsed <= Timeout
    THEN [last EXCEPT !.total = last.total + damage, !.tick = now]
    ELSE [target |-> target, total |-> damage, tick |-> now]

\* emit_update_target_total.
Accumulated(target, damage) ==
    IF last.target = target /\ Elapsed <= Timeout
    THEN [last EXCEPT !.total = (last.total + damage) % TotalSize, !.tick = now]
    ELSE [target |-> target, total |-> damage, tick |-> now]

\* emit_update_total_and_display.
Shows(target, damage) ==
    LET a == Accumulated(target, damage)
    IN  /\ Len(shown) < MaxHits
        /\ last' = a
        /\ shown' = Append(shown, [target |-> target, damage |-> damage, gap |-> gap, total |-> a.total])
        /\ gap' = 0

\* emit_attack_entry: a packet for one target.
Attack(attacker, target, damage) ==
    /\ packet = NoPacket
    /\ IF IsMe(attacker) /\ target # 0 /\ damage # 0
       THEN Shows(target, damage)
       ELSE UNCHANGED <<last, shown, gap>>
    /\ UNCHANGED <<now, loaded, packet>>

AreaBegins(attacker) ==
    /\ packet = NoPacket
    /\ packet' = [by |-> attacker, next |-> 1, cursor |-> 0]
    /\ UNCHANGED <<now, loaded, last, shown, gap>>

\* A wrong version, to show that the properties below can fail.
ConsumesShown(attacker, hit, target, damage) ==
    packet.cursor + IF IsMe(attacker) /\ hit /\ target # 0 /\ damage > 0 THEN 3 ELSE 2

\* The game has read the target and whether it is hit; the damage is ours.
Consumes(attacker, hit, target, damage) == packet.cursor + 3

\* emit_magic_aoe_ext_damage_entry, for the next target of the packet.
AreaHit(hit, target, damage) ==
    /\ packet # NoPacket
    /\ IF IsMe(packet.by) /\ hit /\ target # 0 /\ damage > 0
       THEN Shows(target, damage)
       ELSE UNCHANGED <<last, shown, gap>>
    /\ packet' = [packet EXCEPT !.next = packet.next + 1,
                                !.cursor = Consumes(packet.by, hit, target, damage)]
    /\ packet.next < MaxTargets
    /\ UNCHANGED <<now, loaded>>

AreaEnds ==
    /\ packet # NoPacket /\ packet' = NoPacket
    /\ UNCHANGED <<now, loaded, last, shown, gap>>

-------------------------------------------------------------------------------
\* The clock goes on, and starts again; it goes round in 49 days, and nobody
\* waits that long for the next hit.
Elapse ==
    /\ gap < ClockSize - 1
    /\ now' = (now + 1) % ClockSize /\ gap' = gap + 1
    /\ UNCHANGED <<loaded, last, packet, shown>>

ObjectChanges ==
    /\ loaded' = ~loaded
    /\ UNCHANGED <<now, last, packet, shown, gap>>

Attackers == Ids \cup Others \cup {SelfId}
Next ==
    \/ \E a \in Attackers : AreaBegins(a)
    \/ \E a \in Attackers, t \in Monsters \cup {0}, d \in Damages : d >= 0 /\ Attack(a, t, d)
    \/ \E h \in BOOLEAN, t \in Monsters \cup {0}, d \in Damages : AreaHit(h, t, d)
    \/ AreaEnds \/ Elapse \/ ObjectChanges

Spec == Init /\ [][Next]_vars

-------------------------------------------------------------------------------
\* The total that is shown is the sum of the hits on the same monster, back to
\* the last pause longer than the timeout: whenever the clock starts again.
Since(n) ==
    {i \in 1 .. n :
        \A j \in i .. n :
            shown[j].target = shown[n].target /\ (j > i => shown[j].gap <= Timeout)}
TotalIsTheChain ==
    \A n \in 1 .. Len(shown) :
        LET hits == [i \in 1 .. n |-> IF i \in Since(n) THEN shown[i].damage ELSE 0]
        IN  shown[n].total = FoldSeq(LAMBDA x, y : x + y, 0, hits) % TotalSize

\* The same, hit by hit: a total goes on from the one before, or starts anew.
TotalGoesOn ==
    \A n \in 1 .. Len(shown) :
        LET goesOn == n > 1 /\ shown[n - 1].target = shown[n].target /\ shown[n].gap <= Timeout
        IN  shown[n].total = IF goesOn THEN (shown[n - 1].total + shown[n].damage) % TotalSize
                             ELSE shown[n].damage

\* Every hit is parsed to its end, whoever's it is and whether it is shown.
Aligned == packet # NoPacket => packet.cursor = 3 * (packet.next - 1)

\* What makes the two inductive: a hit is added to the one that was shown last, and
\* the clock tells the time since then.
TextTypes ==
    /\ now \in 0 .. ClockSize - 1 /\ gap \in 0 .. ClockSize - 1 /\ loaded \in BOOLEAN
    /\ last \in [target : Monsters \cup {0}, total : 0 .. TotalSize - 1, tick : 0 .. ClockSize - 1]
    /\ packet \in [by : Attackers \cup {0}, next : 0 .. MaxTargets, cursor : 0 .. 3 * MaxTargets]
    /\ shown \in Seq([target : Monsters, damage : Damages, gap : 0 .. ClockSize - 1, total : 0 .. TotalSize - 1])
    /\ Len(shown) <= MaxHits
LastIsShown ==
    IF shown = <<>> THEN last.target = 0
    ELSE /\ last.target = shown[Len(shown)].target /\ last.total = shown[Len(shown)].total
         /\ now = (last.tick + gap) % ClockSize
TextInvariant ==
    /\ TextTypes /\ TotalGoesOn /\ LastIsShown
    /\ packet = NoPacket \/ (packet.next > 0 /\ Aligned)

\* Nobody else's hit is shown: there is no hit but by one of the player's names,
\* the object's only as long as there is an object.
OwnHitsOnly ==
    \A a \in Others, t \in Monsters \cup {0}, d \in Damages :
        d >= 0 /\ Attack(a, t, d) => shown' = shown
===============================================================================
