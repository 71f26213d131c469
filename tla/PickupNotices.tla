----------------------------- MODULE PickupNotices -----------------------------
(***************************************************************************)
(* The notices of picked-up items, experience and gold (aux/notification):   *)
(* a hook in the game copies their packets into a ring, a thread of the      *)
(* launcher drains it every 30 ms into a queue of notices that age, and the  *)
(* overlay's own thread draws the last snapshot over the game's window.      *)
(* The ring, its Slots (RING_SLOTS) and its MaxPackets are PacketRing's.     *)
(***************************************************************************)
EXTENDS PacketRing, Sequences, SequencesExt

CONSTANTS
    FloatKinds, \* FloatKind
    ToastMax,  \* TOAST_MAX
    ToastTtl, FloatTtl, \* TOAST_TTL, FLOAT_TTL
    AmountMax  \* u32::MAX, where the amounts of a float saturate

ASSUME NoticesAssumption ==
    /\ "toast" \notin FloatKinds /\ "other" \notin FloatKinds
    /\ ToastMax \in Nat \ {0} /\ AmountMax \in Nat
    /\ ToastTtl \in Nat \ {0} /\ FloatTtl \in Nat \ {0}

VARIABLES
    sent,        \* the packets of the server that this hook copies
    enabled,     \* TOAST_ENABLED, FLOAT_ENABLED, set once at the start
    toasts,      \* the age of each toast, the oldest first
    floats,      \* per kind: is it shown, its age and amount
    poll,        \* where on_polling_tick is
    snapshot,    \* SNAPSHOT: does it have a notice
    overlay,     \* the overlay's thread: OVERLAY_RUNNING, what it has drawn,
                 \* overlay_visible
    inFront      \* the game's window is on the screen, in the foreground

notices == <<toasts, floats>>
noticeVars == <<sent, ring, reader, enabled, notices, poll, snapshot, overlay, inFront>>

Notices == {"toast"} \cup FloatKinds
\* ItemBoard or ShowDrop; the others (a name without an end, a ShowDrop of
\* another kind) are no notices.
Packets == Notices \cup {"other"}

NoFloat == [on |-> FALSE, age |-> 0, amount |-> 0]

Ages(ttl) == 0 .. ttl
Toasts == BoundedSeq(Ages(ToastTtl), ToastMax)
Floats == [FloatKinds -> [on : BOOLEAN, age : Ages(FloatTtl), amount : 0 .. AmountMax]]

NoticesTypeOK ==
    /\ sent \in Seq(Packets) /\ Len(sent) <= MaxPackets
    /\ RingTypeOK
    /\ enabled \subseteq {"toast", "float"}
    /\ toasts \in Toasts /\ floats \in Floats
    /\ poll \in {"drain", "dispatch"}
    /\ snapshot \in BOOLEAN
    /\ overlay \in [running : BOOLEAN, drawn : BOOLEAN, visible : BOOLEAN]
    /\ inFront \in BOOLEAN

NoticesInit ==
    /\ sent = <<>>
    /\ RingInit
    /\ enabled \in SUBSET {"toast", "float"}
    /\ toasts = <<>> /\ floats = [k \in FloatKinds |-> NoFloat]
    /\ poll = "drain" /\ snapshot = FALSE
    /\ overlay = [running |-> TRUE, drawn |-> FALSE, visible |-> FALSE]
    /\ inFront \in BOOLEAN

-----------------------------------------------------------------------------
\* The hook passes only the two sub-opcodes on and copies each packet whole.
Arrives ==
    /\ ring.writing = "no"
    /\ Claim
    /\ \E p \in Packets : sent' = Append(sent, p)
    /\ UNCHANGED <<enabled, notices, poll, snapshot, overlay, inFront>>

HookWrites ==
    /\ WriteHeader \/ WritePayload
    /\ UNCHANGED <<sent, enabled, notices, poll, snapshot, overlay, inFront>>

-----------------------------------------------------------------------------
(***************************************************************************)
(* The polling thread.                                                      *)
(***************************************************************************)

\* A wrong version, to show that the properties below can fail.
PushedOneTooMany(notice) ==
    IF notice = "toast"
    THEN /\ toasts' = Append(IF Len(toasts) > ToastMax THEN Tail(toasts) ELSE toasts, 0)
         /\ UNCHANGED floats
    ELSE UNCHANGED notices

PushedInFront(notice) ==
    IF notice = "toast"
    THEN /\ toasts' = <<0>> \o (IF Len(toasts) >= ToastMax THEN Tail(toasts) ELSE toasts)
         /\ UNCHANGED floats
    ELSE UNCHANGED notices

Pushed(notice) ==
    IF notice = "toast"
    THEN /\ toasts' = Append(IF Len(toasts) >= ToastMax THEN Tail(toasts) ELSE toasts, 0)
         /\ UNCHANGED floats
    ELSE /\ floats' = [floats EXCEPT ![notice] =
               [on |-> TRUE, age |-> 0,
                amount |-> IF @.amount < AmountMax THEN @.amount + 1 ELSE @.amount]]
         /\ UNCHANGED toasts

Switch(notice) == IF notice = "toast" THEN "toast" ELSE "float"

Received(notice) ==
    IF notice \in Notices /\ Switch(notice) \in enabled
    THEN Pushed(notice)
    ELSE UNCHANGED notices

\* A packet whose first bytes are another packet's is parsed as the one these
\* say, with whatever follows.
StartPoll ==
    /\ poll = "drain"
    /\ StartDrain
    /\ poll' = "dispatch"
    /\ UNCHANGED <<sent, enabled, notices, snapshot, overlay, inFront>>

ReadOne ==
    /\ poll = "dispatch"
    /\ \/ /\ ReadSlot
          /\ LET slot == ring.slots[Index(reader.at)]
             IN IF ~slot.valid THEN UNCHANGED notices
                ELSE IF slot.opcode = slot.body THEN Received(sent[slot.opcode])
                ELSE \E p \in Packets : Received(p)
       \/ ReadFails /\ UNCHANGED notices
    /\ UNCHANGED <<sent, enabled, poll, snapshot, overlay, inFront>>

\* A wrong version, to show that the properties below can fail.
NeverOld(float) == float.on

Alive(float) == float.on /\ float.age < FloatTtl
Fresh(age) == age < ToastTtl

\* Vec::retain, for the toasts.
Retained(seq) ==
    LET kept[n \in 0 .. Len(seq)] ==
            IF n = 0 THEN <<>>
            ELSE IF Fresh(seq[n]) THEN Append(kept[n - 1], seq[n]) ELSE kept[n - 1]
    IN kept[Len(seq)]

\* tick, then the snapshot for the overlay.
FinishPoll ==
    /\ poll = "dispatch" /\ ~Draining
    /\ toasts' = Retained(toasts)
    /\ floats' = [k \in FloatKinds |-> IF Alive(floats[k]) THEN floats[k] ELSE NoFloat]
    /\ snapshot' = (toasts' # <<>> \/ \E k \in FloatKinds : floats'[k].on)
    /\ poll' = "drain"
    /\ reader' = [reader EXCEPT !.got = {}]
    /\ UNCHANGED <<sent, ring, enabled, overlay, inFront>>

-----------------------------------------------------------------------------
(***************************************************************************)
(* The overlay's thread.                                                    *)
(***************************************************************************)

\* A wrong version, to show that the properties below can fail.
RenderInFrontOnly ==
    /\ overlay.running /\ inFront
    /\ overlay' = [overlay EXCEPT !.drawn = snapshot, !.visible = TRUE]
    /\ UNCHANGED <<sent, ring, reader, enabled, notices, poll, snapshot, inFront>>

Render ==
    /\ overlay.running
    /\ overlay' = IF inFront
                  THEN [overlay EXCEPT !.drawn = snapshot, !.visible = TRUE]
                  ELSE [overlay EXCEPT !.drawn = FALSE, !.visible = FALSE]
    /\ UNCHANGED <<sent, ring, reader, enabled, notices, poll, snapshot, inFront>>

\* WM_QUIT, or no window at all: nobody starts the thread again.
OverlayEnds ==
    /\ overlay.running
    /\ overlay' = [running |-> FALSE, drawn |-> FALSE, visible |-> FALSE]
    /\ UNCHANGED <<sent, ring, reader, enabled, notices, poll, snapshot, inFront>>

GameWindowChanges ==
    /\ inFront' = ~inFront
    /\ UNCHANGED <<sent, ring, reader, enabled, notices, poll, snapshot, overlay>>

-----------------------------------------------------------------------------
Ageing(age, ttl) == IF age < ttl THEN age + 1 ELSE age

NoticesAge ==
    /\ toasts' = [i \in DOMAIN toasts |-> Ageing(toasts[i], ToastTtl)]
    /\ floats' = [k \in FloatKinds |->
          IF floats[k].on
          THEN [floats[k] EXCEPT !.age = Ageing(@, FloatTtl)] ELSE floats[k]]
    /\ notices' # notices
    /\ UNCHANGED <<sent, ring, reader, enabled, poll, snapshot, overlay, inFront>>

ReadsWell == ReadOne /\ ReadSlot
Polling == StartPoll \/ ReadOne \/ FinishPoll
World == Arrives \/ HookWrites \/ GameWindowChanges \/ NoticesAge
NoticesNext == World \/ Polling \/ Render \/ OverlayEnds

\* Both threads run as long as the game does, and time goes on; a read does
\* not fail for ever.
NoticesSpec ==
    /\ NoticesInit /\ [][NoticesNext]_noticeVars
    /\ WF_noticeVars(Polling) /\ SF_noticeVars(ReadsWell)
    /\ WF_noticeVars(Render) /\ WF_noticeVars(NoticesAge)

-----------------------------------------------------------------------------
\* tick drops by age from a queue that drops its oldest when it is full: that
\* is the same only as long as toasts stand in the order of their ages.
ToastsInOrder ==
    \A i, j \in DOMAIN toasts : i < j => toasts[i] >= toasts[j]

\* A float counts no gain that the server did not announce; only a slot read
\* while it was written can be counted twice.
FloatsCountGains ==
    \A k \in FloatKinds :
        \/ reader.raced
        \/ floats[k].amount <= Cardinality({n \in DOMAIN sent : sent[n] = k})

\* When nothing more happens, nothing stays on the screen: the last notice is
\* taken away by a thread that only sees snapshots.
ScreenClears ==
    <>[](overlay.visible => ~overlay.drawn)

\* What is drawn goes when the game's window does.
OverlayFollowsGame == <>[]~inFront => <>[]~overlay.visible

\* What is shown is true: toasts in their order, floats that count gains.  Every
\* variable has its type.
NoticesAreTrue == NoticesTypeOK /\ ToastsInOrder /\ FloatsCountGains

\* What is shown goes with its cause.
ScreenFollowsGame == ScreenClears /\ OverlayFollowsGame
================================================================================
