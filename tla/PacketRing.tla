------------------------------ MODULE PacketRing ------------------------------
(***************************************************************************)
(* The ring through which code injected into the game hands packets to the  *)
(* launcher (aux/server_packet_hook.rs has two, aux/notification/           *)
(* packet_hook.rs a third).  The game's thread claims a slot by moving the  *)
(* tail and only then fills it; the launcher reads the game's memory from   *)
(* its own process, without a lock.                                        *)
(*                                                                         *)
(* Packets are numbered in the order in which the game claims their slots:  *)
(* a slot keeps, for its first bytes and for its payload, the number of the *)
(* packet they are from.  0 is what the launcher zeroed at the start.       *)
(***************************************************************************)
EXTENDS Integers, TLAPS

CONSTANTS
    Slots,  \* RING_SLOTS
    MaxPackets    \* bound: packets that the game hands over

ASSUME RingAssumption == Slots \in Nat \ {0} /\ MaxPackets \in Nat

VARIABLES
    ring,   \* in the game: tail, the slots, what of the last one is written
    reader  \* in the launcher: the stored head, and a drain under way:
            \* local_head, the tail it saw, what it has got; raced is history:
            \* it has read a slot that was being written or written again

ringVars == <<ring, reader>>

Numbers == 0 .. MaxPackets
Slot == [opcode : Numbers, body : Numbers, valid : BOOLEAN]

RingTypeOK ==
    /\ ring \in [tail : Numbers,
                 slots : [0 .. Slots - 1 -> Slot],
                 writing : {"no", "claimed", "headed"}]
    /\ reader \in [head : Numbers, at : Numbers, seen : Numbers,
                   got : SUBSET (Numbers \X Numbers), raced : BOOLEAN]

Zeroed == [opcode |-> 0, body |-> 0, valid |-> FALSE]

RingInit ==
    /\ ring = [tail |-> 0, slots |-> [i \in 0 .. Slots - 1 |-> Zeroed],
               writing |-> "no"]
    /\ reader = [head |-> 0, at |-> 0, seen |-> 0, got |-> {}, raced |-> FALSE]

Index(position) == position % Slots

-----------------------------------------------------------------------------
(***************************************************************************)
(* The injected code, for one packet.                                       *)
(***************************************************************************)

Claim ==
    /\ ring.writing = "no" /\ ring.tail < MaxPackets
    /\ ring' = [ring EXCEPT !.tail = @ + 1, !.writing = "claimed"]
    /\ UNCHANGED reader

\* A wrong version, to show that the properties below can fail.
NextClaimed == Index(ring.tail)

\* The slot of the packet that was claimed last.
Claimed == Index(ring.tail - 1)

WriteHeader ==
    /\ ring.writing = "claimed"
    /\ ring' = [ring EXCEPT
                  !.slots[Claimed] = [opcode |-> ring.tail, body |-> @.body, valid |-> TRUE],
                  !.writing = "headed"]
    /\ UNCHANGED reader

\* A wrong version, to show that the properties below can fail.
NothingOverOld ==
    /\ ring.writing = "claimed"
    /\ ring' = [ring EXCEPT !.slots[Claimed].opcode = 0, !.writing = "no"]
    /\ UNCHANGED reader

\* The raw hook marks a slot that has no packet.
WriteNothing ==
    /\ ring.writing = "claimed"
    /\ ring' = [ring EXCEPT
                  !.slots[Claimed] = [opcode |-> 0, body |-> @.body, valid |-> FALSE],
                  !.writing = "no"]
    /\ UNCHANGED reader

WritePayload ==
    /\ ring.writing = "headed"
    /\ ring' = [ring EXCEPT !.slots[Claimed] = [@ EXCEPT !.body = ring.tail],
                            !.writing = "no"]
    /\ UNCHANGED reader

Push == Claim \/ WriteHeader \/ WritePayload

-----------------------------------------------------------------------------
(***************************************************************************)
(* drain.                                                                   *)
(***************************************************************************)

Draining == reader.at # reader.seen

\* A wrong version, to show that the properties below can fail.
AlwaysOldest == ring.tail - Slots

\* A reader that is behind by more than the ring starts at the oldest slot.
CaughtUp == IF ring.tail - reader.head > Slots THEN ring.tail - Slots ELSE reader.head

StartDrain ==
    /\ ~Draining
    /\ reader' = [reader EXCEPT !.at = CaughtUp, !.seen = ring.tail, !.got = {}]
    /\ UNCHANGED ring

\* The slot of position p is not, or no longer, the one of packet p + 1.
Racing(p) ==
    \/ ring.tail > p + Slots
    \/ ring.tail = p + 1 /\ ring.writing # "no"

\* A wrong version, to show that the properties below can fail.
HeadForgotten(p) == reader.head

Stored(p) == IF p = reader.seen THEN p ELSE reader.head

\* A wrong version, to show that the properties below can fail.
ReadSlotTwice ==
    /\ Draining
    /\ reader' = [reader EXCEPT !.at = reader.at + 2, !.head = Stored(reader.at + 2)]
    /\ UNCHANGED ring

ReadSlot ==
    /\ Draining
    /\ LET p == reader.at
           slot == ring.slots[Index(p)]
       IN reader' = [reader EXCEPT
             !.at = p + 1,
             !.head = Stored(p + 1),
             !.got = IF slot.valid THEN @ \cup {<<slot.opcode, slot.body>>} ELSE @,
             !.raced = @ \/ Racing(p)]
    /\ UNCHANGED ring

\* A read that fails ends the drain; the next one starts at that slot.
ReadFails ==
    /\ Draining
    /\ reader' = [reader EXCEPT !.head = reader.at, !.seen = reader.at]
    /\ UNCHANGED ring

Drain == StartDrain \/ ReadSlot \/ ReadFails

RingNext == Push \/ WriteNothing \/ Drain

RingSpec == RingInit /\ [][RingNext]_ringVars

-----------------------------------------------------------------------------
(***************************************************************************)
(* What the reader may rely on.                                             *)
(***************************************************************************)

\* The reader is never ahead of the game: head <= at <= seen <= tail.
ReaderBehind ==
    /\ reader.head <= reader.at /\ reader.at <= reader.seen
    /\ reader.seen <= ring.tail

\* What is in a slot: the newest packet claimed for it, in full, unless the
\* game is writing it; then the packet one round earlier, or the two mixed.
SlotsHold ==
    \A p \in 0 .. MaxPackets - 1 :
        LET slot == ring.slots[Index(p)]
            settled == ring.tail > p + 1 \/ ring.writing = "no"
        IN p < ring.tail /\ ring.tail <= p + Slots /\ settled /\ slot.valid
              => slot.opcode = p + 1 /\ slot.body = p + 1

\* What a drain gives belongs to packets that the game handed over, and comes
\* in whole packets unless a slot was read while it was written.
GotIsSent ==
    \A pair \in reader.got :
        /\ pair[1] <= ring.tail /\ pair[2] <= ring.tail
        /\ ~reader.raced => pair[1] = pair[2] /\ pair[1] # 0
-----------------------------------------------------------------------------
(***************************************************************************)
(* What is proved, for rings of every size and any number of packets.       *)
(***************************************************************************)

\* A packet is claimed before it is written.
WritesClaimed == ring.writing # "no" => ring.tail # 0
\* Nothing in a slot is from a packet that the game has not claimed yet.
SlotsFromPast ==
    \A i \in 0 .. Slots - 1 : ring.slots[i].opcode <= ring.tail /\ ring.slots[i].body <= ring.tail
\* The first bytes stand when the payload is written.
HeaderFirst == ring.writing = "headed" => ring.slots[Claimed].opcode = ring.tail

RingInvariant ==
    RingTypeOK /\ ReaderBehind /\ WritesClaimed /\ SlotsFromPast /\ HeaderFirst /\ SlotsHold /\ GotIsSent

\* Packets less than a round apart have different slots.
LEMMA SlotsDiffer ==
    ASSUME NEW p \in Nat, NEW q \in Nat, p < q, q < p + Slots
    PROVE  Index(p) # Index(q)
  <1>0. Slots \in Nat \ {0}
    BY RingAssumption
  <1>1. /\ p = (Slots * (p \div Slots)) + (p % Slots) /\ p \div Slots \in Int
        /\ q = (Slots * (q \div Slots)) + (q % Slots) /\ q \div Slots \in Int
    BY <1>0
  <1> SUFFICES ASSUME p % Slots = q % Slots PROVE FALSE
    BY DEF Index
  <1>2. PICK k \in Int : q - p = Slots * k
    <2>1. q - p = Slots * ((q \div Slots) - (p \div Slots))
      BY <1>0, <1>1
    <2> QED
      BY <1>1, <2>1
  <1>3. CASE k <= 0
    BY <1>0, <1>2, <1>3
  <1>4. CASE k >= 1
    BY <1>0, <1>2, <1>4
  <1> QED
    BY <1>2, <1>3, <1>4

LEMMA IndexInRing == ASSUME NEW p \in Nat PROVE Index(p) \in 0 .. Slots - 1
  BY RingAssumption DEF Index

LEMMA RingBegins == ASSUME RingInit PROVE RingInvariant
  <1> USE RingAssumption DEF RingInit
  <1>1. RingTypeOK
    BY DEF RingTypeOK, Slot, Numbers, Zeroed
  <1>2. ReaderBehind /\ WritesClaimed /\ SlotsFromPast /\ HeaderFirst
    BY DEF ReaderBehind, WritesClaimed, SlotsFromPast, HeaderFirst, Zeroed
  <1>3. SlotsHold /\ GotIsSent
    BY DEF SlotsHold, GotIsSent
  <1> QED
    BY <1>1, <1>2, <1>3 DEF RingInvariant

\* What the types say of the parts.
LEMMA Parts ==
    ASSUME RingTypeOK
    PROVE  /\ ring.tail \in Numbers /\ ring.writing \in {"no", "claimed", "headed"}
           /\ ring.slots \in [0 .. Slots - 1 -> Slot]
           /\ reader.head \in Numbers /\ reader.at \in Numbers /\ reader.seen \in Numbers
           /\ reader.got \subseteq Numbers \X Numbers /\ reader.raced \in BOOLEAN
           /\ Numbers \subseteq Nat /\ Slots \in Nat \ {0}
  BY RingAssumption DEF RingTypeOK, Numbers

LEMMA ClaimKeeps == ASSUME RingInvariant, Claim PROVE RingInvariant'
  <1> USE RingAssumption, Parts DEF RingInvariant
  <1>0. /\ ring.writing = "no" /\ ring.tail < MaxPackets /\ reader' = reader
        /\ ring' = [tail |-> ring.tail + 1, slots |-> ring.slots, writing |-> "claimed"]
    BY DEF Claim, RingTypeOK
  <1>1. RingTypeOK'
    BY <1>0 DEF RingTypeOK, Numbers
  <1>2. ReaderBehind' /\ WritesClaimed' /\ SlotsFromPast' /\ HeaderFirst'
    <2>1. ReaderBehind' /\ WritesClaimed' /\ HeaderFirst'
      BY <1>0 DEF ReaderBehind, WritesClaimed, HeaderFirst
    <2>2. SlotsFromPast'
      BY <1>0 DEF SlotsFromPast, Slot
    <2> QED
      BY <2>1, <2>2
  <1>3. SlotsHold'
    <2> SUFFICES ASSUME NEW p \in 0 .. MaxPackets - 1,
                        p < ring.tail', ring.tail' <= p + Slots,
                        ring.tail' > p + 1 \/ ring'.writing = "no", ring.slots[Index(p)].valid
                 PROVE  ring.slots[Index(p)].opcode = p + 1 /\ ring.slots[Index(p)].body = p + 1
      BY <1>0 DEF SlotsHold, Index
    <2>1. p < ring.tail /\ ring.tail <= p + Slots
      BY <1>0
    <2> QED
      BY <1>0, <2>1 DEF SlotsHold
  <1>4. GotIsSent'
    BY <1>0 DEF GotIsSent
  <1> QED
    BY <1>1, <1>2, <1>3, <1>4
\* What a write into the slot of the last packet leaves alone: the others that
\* are no more than a round old.
LEMMA OthersStand ==
    ASSUME RingInvariant, NEW p \in 0 .. MaxPackets - 1, NEW slot \in Slot,
           p + 1 < ring.tail, ring.tail <= p + Slots
    PROVE  /\ [ring.slots EXCEPT ![Claimed] = slot][Index(p)] = ring.slots[Index(p)]
           /\ ring.slots[Index(p)].valid =>
                 ring.slots[Index(p)].opcode = p + 1 /\ ring.slots[Index(p)].body = p + 1
  <1> USE RingAssumption, Parts DEF RingInvariant
  <1>1. Index(p) # Claimed
    BY SlotsDiffer DEF Claimed
  <1>2. Index(p) \in 0 .. Slots - 1
    <2>1. p \in Nat
      OBVIOUS
    <2> QED
      BY <2>1, IndexInRing
  <1> QED
    BY <1>1, <1>2 DEF SlotsHold

\* A write replaces the slot of the last packet, by something not of the future.
LEMMA WriteKeeps ==
    ASSUME RingInvariant, ring.writing # "no", NEW slot \in Slot, NEW w \in {"headed", "no"},
           slot.opcode <= ring.tail, slot.body <= ring.tail,
           w = "headed" => slot.opcode = ring.tail,
           w = "no" /\ slot.valid => slot.opcode = ring.tail /\ slot.body = ring.tail,
           ring' = [tail |-> ring.tail, slots |-> [ring.slots EXCEPT ![Claimed] = slot], writing |-> w],
           reader' = reader
    PROVE  RingInvariant'
  <1> USE RingAssumption, Parts DEF RingInvariant
  <1>0. ring.tail - 1 \in Nat /\ Claimed \in 0 .. Slots - 1
    <2>1. ring.tail - 1 \in Nat
      BY DEF WritesClaimed
    <2> QED
      BY <2>1, IndexInRing DEF Claimed
  <1>1. ring'.slots \in [0 .. Slots - 1 -> Slot] /\ ring'.slots[Claimed] = slot
    BY <1>0
  <1>2. RingTypeOK'
    BY <1>1 DEF RingTypeOK
  <1>3. ReaderBehind' /\ WritesClaimed' /\ SlotsFromPast' /\ HeaderFirst'
    <2>1. ReaderBehind' /\ WritesClaimed'
      BY DEF ReaderBehind, WritesClaimed
    <2>2. SlotsFromPast'
      BY <1>0, <1>1 DEF SlotsFromPast
    <2>3. Claimed' = Claimed
      BY DEF Claimed, Index
    <2>4. HeaderFirst'
      BY <1>1, <2>3 DEF HeaderFirst
    <2> QED
      BY <2>1, <2>2, <2>4
  <1>4. SlotsHold'
    <2> SUFFICES ASSUME NEW p \in 0 .. MaxPackets - 1, p < ring.tail, ring.tail <= p + Slots,
                        ring.tail > p + 1 \/ w = "no", ring'.slots[Index(p)].valid
                 PROVE  ring'.slots[Index(p)].opcode = p + 1 /\ ring'.slots[Index(p)].body = p + 1
      BY DEF SlotsHold, Index
    <2>1. CASE p + 1 < ring.tail
      BY <2>1, OthersStand
    <2>2. CASE p + 1 = ring.tail
      <3>1. Index(p) = Claimed
        BY <2>2 DEF Claimed
      <3> QED
        BY <1>1, <2>2, <3>1
    <2> QED
      BY <2>1, <2>2
  <1>5. GotIsSent'
    BY DEF GotIsSent
  <1> QED
    BY <1>2, <1>3, <1>4, <1>5

LEMMA WritesKeep ==
    ASSUME RingInvariant, WriteHeader \/ WriteNothing \/ WritePayload
    PROVE  RingInvariant'
  <1> USE RingAssumption, Parts DEF RingInvariant
  <1>0. /\ Claimed \in 0 .. Slots - 1 /\ ring.slots[Claimed] \in Slot
        /\ ring.slots[Claimed].body <= ring.tail /\ ring.slots[Claimed].opcode <= ring.tail
    <2>1. ring.tail - 1 \in Nat
      BY DEF WritesClaimed, WriteHeader, WriteNothing, WritePayload
    <2>2. Claimed \in 0 .. Slots - 1
      BY <2>1, IndexInRing DEF Claimed
    <2> QED
      BY <2>2 DEF SlotsFromPast
  <1> DEFINE old == ring.slots[Claimed]
  <1>1. CASE WriteHeader
    <2> DEFINE slot == [opcode |-> ring.tail, body |-> old.body, valid |-> TRUE]
    <2>1. slot \in Slot
      BY <1>0 DEF Slot
    <2>2. slot.opcode = ring.tail /\ slot.opcode <= ring.tail /\ slot.body <= ring.tail
      BY <1>0
    <2>3. ring.writing # "no" /\ reader' = reader
      BY <1>1 DEF WriteHeader
    <2>4. ring' = [tail |-> ring.tail, slots |-> [ring.slots EXCEPT ![Claimed] = slot],
                   writing |-> "headed"]
      BY <1>0, <1>1 DEF WriteHeader, RingTypeOK
    <2> HIDE DEF slot, old
    <2> QED
      BY <2>1, <2>2, <2>3, <2>4, WriteKeeps
  <1>2. CASE WriteNothing
    <2> DEFINE slot == [opcode |-> 0, body |-> old.body, valid |-> FALSE]
    <2>1. slot \in Slot
      BY <1>0 DEF Slot, Numbers
    <2>2. slot.opcode <= ring.tail /\ slot.body <= ring.tail /\ ~slot.valid
      BY <1>0 DEF Numbers
    <2>3. ring.writing # "no" /\ reader' = reader
      BY <1>2 DEF WriteNothing
    <2>4. ring' = [tail |-> ring.tail, slots |-> [ring.slots EXCEPT ![Claimed] = slot],
                   writing |-> "no"]
      BY <1>0, <1>2 DEF WriteNothing, RingTypeOK
    <2> HIDE DEF slot, old
    <2> QED
      BY <2>1, <2>2, <2>3, <2>4, WriteKeeps
  <1>3. CASE WritePayload
    <2> DEFINE slot == [opcode |-> old.opcode, body |-> ring.tail, valid |-> old.valid]
    <2>1. [old EXCEPT !.body = ring.tail] = slot /\ slot \in Slot
      BY <1>0 DEF Slot
    <2>2. ring.writing # "no" /\ reader' = reader
      BY <1>3 DEF WritePayload
    <2>3. ring' = [tail |-> ring.tail, slots |-> [ring.slots EXCEPT ![Claimed] = slot],
                   writing |-> "no"]
      BY <1>0, <1>3, <2>1 DEF WritePayload, RingTypeOK
    <2>4. old.opcode = ring.tail
      BY <1>3 DEF WritePayload, HeaderFirst
    <2> QED
      BY <1>0, <2>1, <2>2, <2>3, <2>4, WriteKeeps
  <1> QED
    BY <1>1, <1>2, <1>3
\* A drain only moves the reader, and never past the game.
LEMMA ReaderMoves ==
    ASSUME RingInvariant, ring' = ring, RingTypeOK', ReaderBehind', GotIsSent'
    PROVE  RingInvariant'
  <1>1. WritesClaimed' /\ SlotsFromPast' /\ HeaderFirst' /\ SlotsHold'
    BY DEF RingInvariant, WritesClaimed, SlotsFromPast, HeaderFirst, SlotsHold, Claimed, Index
  <1> QED
    BY <1>1 DEF RingInvariant

LEMMA StartKeeps == ASSUME RingInvariant, StartDrain PROVE RingInvariant'
  <1> USE RingAssumption, Parts DEF RingInvariant
  <1>0. /\ ring' = ring
        /\ reader' = [head |-> reader.head, at |-> CaughtUp, seen |-> ring.tail, got |-> {},
                      raced |-> reader.raced]
    BY DEF StartDrain, RingTypeOK
  <1>1. CaughtUp \in Numbers /\ reader.head <= CaughtUp /\ CaughtUp <= ring.tail
    BY DEF CaughtUp, ReaderBehind, Numbers
  <1>2. RingTypeOK' /\ ReaderBehind' /\ GotIsSent'
    BY <1>0, <1>1 DEF RingTypeOK, ReaderBehind, GotIsSent
  <1> QED
    BY <1>0, <1>2, ReaderMoves

LEMMA FailKeeps == ASSUME RingInvariant, ReadFails PROVE RingInvariant'
  <1> USE RingAssumption, Parts DEF RingInvariant
  <1>0. /\ ring' = ring
        /\ reader' = [head |-> reader.at, at |-> reader.at, seen |-> reader.at, got |-> reader.got,
                      raced |-> reader.raced]
    BY DEF ReadFails, RingTypeOK
  <1>1. RingTypeOK' /\ ReaderBehind' /\ GotIsSent'
    BY <1>0 DEF RingTypeOK, ReaderBehind, GotIsSent
  <1> QED
    BY <1>0, <1>1, ReaderMoves

\* A slot that the game is not writing and has not written again holds the
\* packet that the reader looks for.
LEMMA ReadKeeps == ASSUME RingInvariant, ReadSlot PROVE RingInvariant'
  <1> USE RingAssumption, Parts DEF RingInvariant
  <1> DEFINE p == reader.at
  <1> DEFINE slot == ring.slots[Index(p)]
  <1> DEFINE pair == <<slot.opcode, slot.body>>
  <1>0. p \in 0 .. MaxPackets - 1 /\ p < ring.tail /\ p + 1 <= reader.seen
    BY DEF ReadSlot, Draining, ReaderBehind, Numbers
  <1>1. slot \in Slot /\ slot.opcode <= ring.tail /\ slot.body <= ring.tail
    BY <1>0, IndexInRing DEF SlotsFromPast
  <1>2. /\ ring' = ring /\ DOMAIN reader' = DOMAIN reader
        /\ reader'.at = p + 1 /\ reader'.head = Stored(p + 1) /\ reader'.seen = reader.seen
        /\ reader'.got = IF slot.valid THEN reader.got \cup {pair} ELSE reader.got
        /\ reader'.raced = (reader.raced \/ Racing(p))
    BY DEF ReadSlot, RingTypeOK
  <1>3. ReaderBehind'
    BY <1>0, <1>2 DEF ReaderBehind, Stored
  <1>4. RingTypeOK'
    <2>1. reader'.at \in Numbers /\ reader'.head \in Numbers /\ reader'.seen \in Numbers
      BY <1>0, <1>2 DEF Stored, Numbers
    <2>2. reader'.got \subseteq Numbers \X Numbers
      BY <1>1, <1>2 DEF Slot
    <2>3. reader'.raced \in BOOLEAN
      BY <1>2
    <2>4. PICK got, raced :
             reader' = [head |-> Stored(p + 1), at |-> p + 1, seen |-> reader.seen,
                        got |-> got, raced |-> raced]
      BY DEF ReadSlot, RingTypeOK
    <2> QED
      BY <1>2, <2>1, <2>2, <2>3, <2>4 DEF RingTypeOK
  <1>5. GotIsSent'
    <2>1. ASSUME slot.valid, ~Racing(p) PROVE slot.opcode = p + 1 /\ slot.body = p + 1
      BY <1>0, <2>1 DEF SlotsHold, Racing
    <2>2. ASSUME NEW q \in reader'.got, q \in reader.got
          PROVE  q[1] <= ring.tail /\ q[2] <= ring.tail
                 /\ (~reader'.raced => q[1] = q[2] /\ q[1] # 0)
      BY <1>2, <2>2 DEF GotIsSent
    <2>3. ASSUME slot.valid
          PROVE  pair[1] <= ring.tail /\ pair[2] <= ring.tail
                 /\ (~reader'.raced => pair[1] = pair[2] /\ pair[1] # 0)
      <3>1. ~reader'.raced => ~Racing(p)
        BY <1>2
      <3>2. p + 1 # 0
        BY <1>0
      <3>3. pair[1] = slot.opcode /\ pair[2] = slot.body
        OBVIOUS
      <3> QED
        BY <1>1, <2>1, <2>3, <3>1, <3>2, <3>3
    <2>4. ASSUME NEW q \in reader'.got PROVE q \in reader.got \/ (slot.valid /\ q = pair)
      BY <1>2, <2>4
    <2> QED
      BY <1>2, <2>2, <2>3, <2>4 DEF GotIsSent
  <1> QED
    BY <1>2, <1>3, <1>4, <1>5, ReaderMoves

LEMMA RingKeeps == ASSUME RingInvariant, [RingNext]_ringVars PROVE RingInvariant'
  <1>1. CASE UNCHANGED ringVars
    BY <1>1 DEF ringVars, RingInvariant, RingTypeOK, ReaderBehind, WritesClaimed, SlotsFromPast,
       HeaderFirst, SlotsHold, GotIsSent, Claimed, Index
  <1>2. CASE RingNext
    BY <1>2, ClaimKeeps, WritesKeep, StartKeeps, ReadKeeps, FailKeeps DEF RingNext, Push, Drain
  <1> QED
    BY <1>1, <1>2

\* What a drain gave may be taken away at any time.
LEMMA TakenKeeps ==
    ASSUME RingInvariant, ring' = ring, reader' = [reader EXCEPT !.got = {}] PROVE RingInvariant'
  <1> USE RingAssumption, Parts DEF RingInvariant
  <1>1. reader' = [head |-> reader.head, at |-> reader.at, seen |-> reader.seen, got |-> {},
                   raced |-> reader.raced]
    BY DEF RingTypeOK
  <1>2. RingTypeOK' /\ ReaderBehind' /\ GotIsSent'
    BY <1>1 DEF RingTypeOK, ReaderBehind, GotIsSent
  <1> QED
    BY <1>2, ReaderMoves

\* A reader that met a slot under way is never sure again.
LEMMA RaceStands ==
    ASSUME RingTypeOK, [RingNext]_ringVars, reader.raced PROVE reader'.raced
  <1>1. CASE reader' = reader
    BY <1>1
  <1>2. CASE StartDrain \/ ReadFails
    BY <1>2 DEF StartDrain, ReadFails, RingTypeOK
  <1>3. CASE ReadSlot
    BY <1>3 DEF ReadSlot, RingTypeOK
  <1> QED
    BY <1>1, <1>2, <1>3 DEF RingNext, ringVars, Push, Claim, WriteHeader, WritePayload, WriteNothing, Drain

\* Whatever the size of the ring: the reader stays behind the game, a slot that
\* is not being written holds its packet in full, and so does what a drain gives
\* when it met no such slot.
THEOREM RingIsSound == RingSpec => [](RingTypeOK /\ ReaderBehind /\ SlotsHold /\ GotIsSent)
  <1>1. RingInvariant => RingTypeOK /\ ReaderBehind /\ SlotsHold /\ GotIsSent
    BY DEF RingInvariant
  <1> QED
    BY <1>1, RingBegins, RingKeeps, PTL DEF RingSpec
===============================================================================
