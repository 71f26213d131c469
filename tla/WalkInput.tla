----------------------------- MODULE WalkInput -----------------------------
(***************************************************************************)
(* The simulated left mouse button that makes the character walk            *)
(* (aux/input_sim.rs): what the bot keeps of it, MOUSE_HELD and LAST_DOWN_AT, *)
(* the message queue of the game's window, and what the game believes.  A   *)
(* message can be refused, and the game can miss one it has accepted.       *)
(* HuntStep sees only MOUSE_HELD, as client.walking.                        *)
(***************************************************************************)
EXTENDS Naturals, Sequences

CONSTANTS Heartbeat,    \* LBUTTONDOWN_HEARTBEAT_MS, in ticks
          MaxQueue      \* bound on the messages the game has not looked at

ASSUME InputAssumption == Heartbeat \in Nat \ {0} /\ MaxQueue \in Nat \ {0}

VARIABLES
    held,       \* MOUSE_HELD
    downAge,    \* age of LAST_DOWN_AT, stops at Heartbeat, where None is too
    queue,      \* button messages posted and not looked at
    button,     \* the game takes the button for pressed
    call,       \* the call of the last tick
    beat,       \* flips in every tick, so that a repeated call is a step
    fault       \* since a button message was last accepted, one was refused or
                \* missed, or the player used the mouse

inputVars == <<held, downAge, queue, button, call, beat, fault>>

InputTypeOK ==
    /\ held \in BOOLEAN /\ button \in BOOLEAN
    /\ beat \in BOOLEAN /\ fault \in BOOLEAN
    /\ downAge \in 0..Heartbeat
    /\ queue \in Seq({"down", "up"}) /\ Len(queue) =< MaxQueue
    /\ call \in {"walk", "failed walk", "release", "none"}

InputInit ==
    /\ held = FALSE /\ downAge = Heartbeat /\ queue = <<>> /\ button = FALSE
    /\ call = "none" /\ beat = FALSE /\ fault = FALSE

-----------------------------------------------------------------------------
(* The bot.                                                                *)

\* The bot calls c in this tick.
Calls(c) == call' = c /\ beat' = ~beat

Aged == IF downAge < Heartbeat THEN downAge + 1 ELSE Heartbeat

\* PostMessageW
Posts(message) ==
    /\ Len(queue) < MaxQueue
    /\ queue' = Append(queue, message)
    /\ fault' = FALSE

\* No window, no client area, or the message is refused.
NotPosted == UNCHANGED queue /\ fault' = TRUE

\* Mutant of NeedDown: the heartbeat is missing.
NeedDownOnce == ~held

NeedDown == ~held \/ Aged = Heartbeat

\* click_hold_at_player_anchor_pixel: the button, when it has to be pressed, and
\* then the cursor.
WalkRefused ==
    /\ NeedDown
    /\ Calls("failed walk")
    /\ NotPosted /\ downAge' = Aged
    /\ UNCHANGED <<held, button>>

\* The message that moves the cursor is not kept; when it is refused the walk has
\* failed, with the button down.
CursorMoved == \E told \in {"walk", "failed walk"} : Calls(told)

WalkPresses ==
    /\ NeedDown
    /\ CursorMoved /\ held' = TRUE
    /\ Posts("down") /\ downAge' = 0
    /\ button' = button

WalkDrags ==
    /\ ~NeedDown
    /\ CursorMoved /\ downAge' = Aged
    /\ UNCHANGED <<held, queue, button, fault>>

\* Mutant of Release: MOUSE_HELD is left as it is.
ReleaseKeepsHeld ==
    /\ Calls("release")
    /\ IF held THEN /\ Posts("up") \/ NotPosted
                    /\ downAge' = Heartbeat
               ELSE downAge' = Aged /\ UNCHANGED <<queue, fault>>
    /\ UNCHANGED <<button, held>>

\* walk_release: it is forgotten that the button is held before the window is
\* looked up and the message is posted.
Release ==
    /\ Calls("release")
    /\ held' = FALSE
    /\ IF held THEN /\ Posts("up") \/ NotPosted
                    /\ downAge' = Heartbeat
               ELSE downAge' = Aged /\ UNCHANGED <<queue, fault>>
    /\ button' = button

Pause ==
    /\ Calls("none") /\ downAge' = Aged
    /\ UNCHANGED <<held, queue, button, fault>>

-----------------------------------------------------------------------------
(* The game, and the player at its window.                                 *)

Delivered ==
    /\ queue # <<>>
    /\ queue' = Tail(queue) /\ button' = (Head(queue) = "down")
    /\ UNCHANGED <<held, downAge, call, beat, fault>>

Missed ==
    /\ queue # <<>>
    /\ queue' = Tail(queue) /\ fault' = TRUE
    /\ UNCHANGED <<held, downAge, button, call, beat>>

\* The player's own click ends with the button up.
PlayerClicks ==
    /\ button' = FALSE /\ fault' = TRUE
    /\ UNCHANGED <<held, downAge, queue, call, beat>>

InputTick == WalkRefused \/ WalkPresses \/ WalkDrags \/ Release \/ Pause
Pump == Delivered \/ Missed

InputNext == InputTick \/ Pump \/ PlayerClicks

\* The tick thread goes on, and the game goes on looking at its messages.
InputSpec == InputInit /\ [][InputNext]_inputVars /\ WF_inputVars(InputTick) /\ WF_inputVars(Pump)

-----------------------------------------------------------------------------
(* Properties.                                                             *)

\* The button, once the game has looked at all that was posted.
Promised == IF queue = <<>> THEN button ELSE queue[Len(queue)] = "down"

\* As long as nothing goes wrong after it, the last message the game accepted
\* leaves its button as MOUSE_HELD says, whatever had gone wrong before.
HeldIsPromised == ~fault => (Promised <=> held)

\* A bot that keeps on walking has the button pressed in the end, whatever was
\* lost before and whatever the player did: the heartbeat presses it again
\* (LAST_DOWN_AT; without it the character would never walk).
WalkRecovers ==
    <>[][call' = "walk" /\ ~Missed /\ ~PlayerClicks]_inputVars => <>[]button
=============================================================================
