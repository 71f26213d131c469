------------------------------- MODULE RunFeet -------------------------------
(***************************************************************************)
(* The code in the client that shows the two steps of a run, which SmoothRun  *)
(* put into the slots 98 and 99 (smooth_run_hook.rs): whenever the client      *)
(* looks up the frames of an action, the answer for a walk of somebody in      *)
(* haste is the left or the right step.  Which of them it is stands in a       *)
(* table of 64 entries, found by bits of the address and marked with its low    *)
(* half; it changes when the animation starts again.                          *)
(***************************************************************************)
EXTENDS Naturals

CONSTANTS Entities,   \* the creatures
          Addresses,  \* where they may be: of each address the entry of the table,
                      \* (address >> 3) & 0x3F, and the low 16 bits
          Steps,      \* of each: the slots of 98 and 99 that its sprite has
          LastFrame   \* of an animation

WalkFirst == 0        \* the actions told apart: the walk without a weapon,
WalkArmed == 4        \* one of the others of smooth_run's list,
Attack == 1           \* and one that is no walk
Original == 0          \* the slot that was asked for
Nobody == 0
NoStep == 2

FeetAssumption ==
    /\ LastFrame \in Nat \ {0} /\ Entities \subseteq Nat \ {Nobody}
    /\ Steps \in [Entities -> SUBSET {98, 99}]
    /\ Addresses \subseteq [Entities -> [slot : Nat, tag : Nat]]
    /\ \A a \in Addresses : \A e, f \in Entities : a[e].tag = a[f].tag => a[e].slot = a[f].slot

VARIABLES address,  \* of each creature
          table,    \* of each entry: tag_lo16, prev_frame, foot_toggle
          frame,    \* where the animation of each creature is, entity+0x17
          haste,    \* who is in haste, entity+0x29
          answer,   \* of the last look-up: for whom, and the slot shown
          shown,    \* history: the foot that each creature was last given,
          again     \* and whether its animation has started again since

vars == <<address, table, frame, haste, answer, shown, again>>

SlotOf(e) == address[e].slot
TagOf(e) == address[e].tag
Slots == {SlotOf(e) : e \in Entities}

Init ==
    /\ address \in Addresses
    /\ table = [s \in Slots |-> [tag |-> 0, prev |-> 0, foot |-> 0]]
    /\ frame = [e \in Entities |-> 0]
    /\ haste \in SUBSET Entities
    /\ answer = [who |-> Nobody, slot |-> Original]
    /\ shown = [e \in Entities |-> NoStep]
    /\ again = [e \in Entities |-> FALSE]

-----------------------------------------------------------------------------
(* The client.                                                             *)

Animates(e) ==
    /\ \E to \in {0, frame[e] + 1} \cap 0..LastFrame :
           /\ to # frame[e]
           /\ frame' = [frame EXCEPT ![e] = to]
           /\ again' = [again EXCEPT ![e] = @ \/ to < frame[e]]
    /\ UNCHANGED <<address, table, haste, answer, shown>>

Hastens(e) ==
    /\ haste' = (IF e \in haste THEN haste \ {e} ELSE haste \cup {e})
    /\ UNCHANGED <<address, table, frame, answer, shown, again>>

-----------------------------------------------------------------------------
(* The hook.                                                               *)

IsWalk(action) == action \in {WalkFirst, WalkArmed}
\* A sprite without a left step, another action, another caller than the function
\* that moves creatures, and somebody who is not in haste are shown what they were.
Replaced(e, action, moving) == 98 \in Steps[e] /\ IsWalk(action) /\ moving /\ e \in haste

\* A wrong version, to show that the properties below can fail.
EveryFrame(entry, now) == entry.prev # now
StartsAgain(entry, now) == now < entry.prev
Kept(entry, now) ==
    [entry EXCEPT !.foot = IF StartsAgain(entry, now) THEN 1 - @ ELSE @, !.prev = now]
New(e, action, now) == [tag |-> TagOf(e), prev |-> now, foot |-> IF action = WalkFirst THEN 0 ELSE 1]
EntryFor(e, action) ==
    LET entry == table[SlotOf(e)]
    IN  IF entry.tag = TagOf(e) THEN Kept(entry, frame[e]) ELSE New(e, action, frame[e])

\* A wrong version, to show that the properties below can fail.
EitherStep(e, foot) == IF foot = 1 THEN 99 ELSE 98
StepShown(e, foot) == IF foot = 1 /\ 99 \in Steps[e] THEN 99 ELSE 98

LooksUp(e, action, moving) ==
    IF Replaced(e, action, moving)
      THEN LET entry == EntryFor(e, action)
           IN  /\ table' = [table EXCEPT ![SlotOf(e)] = entry]
               /\ answer' = [who |-> e, slot |-> StepShown(e, entry.foot)]
               /\ shown' = [shown EXCEPT ![e] = entry.foot]
               /\ again' = [again EXCEPT ![e] = FALSE]
               /\ UNCHANGED <<address, frame, haste>>
      ELSE /\ answer' = [who |-> e, slot |-> Original]
           /\ UNCHANGED <<address, table, frame, haste, shown, again>>

Next ==
    \E e \in Entities :
        \/ Animates(e)
        \/ Hastens(e)
        \/ \E action \in {WalkFirst, WalkArmed, Attack}, moving \in BOOLEAN : LooksUp(e, action, moving)

Spec == Init /\ [][Next]_vars

-----------------------------------------------------------------------------
(* What holds.                                                             *)

TypeOK ==
    /\ address \in Addresses
    /\ table \in [Slots -> [tag : {0} \cup {TagOf(e) : e \in Entities}, prev : 0..LastFrame, foot : {0, 1}]]
    /\ frame \in [Entities -> 0..LastFrame] /\ haste \subseteq Entities
    /\ answer \in [who : Entities \cup {Nobody}, slot : {Original, 98, 99}]
    /\ shown \in [Entities -> {NoStep, 0, 1}] /\ again \in [Entities -> BOOLEAN]

\* The client is never sent to a slot that the sprite does not have.
SlotIsThere == answer.slot # Original => answer.slot \in Steps[answer.who]

\* Of a creature that has its entry of the table for itself the foot stays during an
\* animation, whatever it does in between and however often it is looked up; only
\* where the animation started again the other one follows ("Keep the selected foot
\* stable during the current animation", build_shellcode).  Creatures that share an
\* entry take it from each other, and start anew at every look-up.
FootIsSteady ==
    \A e \in Entities :
        /\ \A f \in Entities \ {e} : SlotOf(f) # SlotOf(e)
        /\ shown[e] # NoStep /\ shown'[e] # shown[e]
        => again[e]

\* What makes these inductive: a creature that has its entry for itself finds there
\* the foot that it was shown, and the frame as long as the animation goes on.
Alone(e) == \A f \in Entities \ {e} : SlotOf(f) # SlotOf(e)
FeetTypes ==
    /\ address \in Addresses
    /\ table \in [Slots -> [tag : Nat, prev : Nat, foot : {0, 1}]]
    /\ frame \in [Entities -> Nat]
    /\ shown \in [Entities -> {NoStep, 0, 1}] /\ again \in [Entities -> BOOLEAN]
FeetInvariant ==
    /\ FeetTypes /\ SlotIsThere
    /\ \A e \in Entities : Alone(e) /\ shown[e] # NoStep =>
           /\ table[SlotOf(e)].tag = TagOf(e) /\ table[SlotOf(e)].foot = shown[e]
           /\ ~again[e] => table[SlotOf(e)].prev =< frame[e]
=============================================================================
