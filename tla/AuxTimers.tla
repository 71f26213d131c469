------------------------------- MODULE AuxTimers -------------------------------
(***************************************************************************)
(* The commands that the auxiliary gives by the clock (aux/runtime):          *)
(* timer_tick uses the rows of the timer page, shout_tick says the messages   *)
(* of the shout page in turn.  Each has a thread of its own that looks every  *)
(* half second; a command is a call into the game that takes its time, up to  *)
(* five seconds if it gets stuck, while the player goes on to press buttons   *)
(* and to edit the list.                                                     *)
(***************************************************************************)
EXTENDS Naturals, Sequences

CONSTANTS
    Every,      \* the interval of each row of the timer page, in ticks
    ShoutEvery, \* shout_interval_sec, in ticks
    Messages,   \* bound: the list of messages has 1 .. Messages of them
    TooLong,    \* messages that do not fit a page of shellcode
    Stuck,      \* THREAD_WAIT_MS, in ticks
    MaxClicks   \* bound: the restart button is pressed so often

Rows == DOMAIN Every

TimersAssumption ==
    /\ Every \in Seq(Nat)
    /\ ShoutEvery \in Nat \ {0} /\ Messages \in Nat \ {0} /\ TooLong \subseteq 1 .. Messages
    /\ Stuck \in Nat \ {0} /\ MaxClicks \in Nat

VARIABLES
    on,      \* the feature is on, and the player is seen to be in the world
    follows, \* which of the two threads the behaviour follows: they share nothing
    clicks,  \* timer_resets: per row, how often its restart button was pressed
    timer,   \* timer_tick: where it is, last_seen and, per row, the time since
             \* last_fire, or the interval if that is over or nothing was fired
    list,    \* length of shout_messages
    shout,   \* shout_tick: where it is, next_idx from 1, time since last_fire
    gap      \* history: time since a row was used or restarted, and since the
             \* start of the last shout

vars == <<on, follows, clicks, timer, list, shout, gap>>

TypeOK ==
    /\ on \in BOOLEAN /\ follows \in {"timer", "shout"}
    /\ clicks \in [Rows -> 0 .. MaxClicks]
    /\ timer \in [pc : {"sleep", "fires"}, row : Rows \cup {0}, waits : 0 .. Stuck,
                  seen : [Rows -> 0 .. MaxClicks], since : [Rows -> Nat]]
    /\ \A r \in Rows : timer.since[r] <= Every[r] /\ timer.seen[r] <= clicks[r]
    /\ list \in 1 .. Messages
    /\ shout \in [pc : {"sleep", "says"}, next : 1 .. Messages, says : 0 .. Messages,
                  waits : 0 .. Stuck, since : 0 .. ShoutEvery]
    /\ gap \in [row : [Rows -> Nat], shout : 0 .. ShoutEvery]

Init ==
    /\ on = TRUE /\ follows \in {"timer", "shout"}
    /\ clicks = [r \in Rows |-> 0]
    /\ timer = [pc |-> "sleep", row |-> 0, waits |-> 0, seen |-> clicks, since |-> Every]
    /\ list \in 1 .. Messages
    /\ shout = [pc |-> "sleep", next |-> 1, says |-> 0, waits |-> 0, since |-> ShoutEvery]
    /\ gap = [row |-> Every, shout |-> ShoutEvery]

-------------------------------------------------------------------------------
(* The player: the switches, leaving the world, the buttons and the list.  A  *)
(* read of the game that fails counts as one in which he has left.            *)

Switches ==
    /\ on' = ~on
    /\ UNCHANGED <<follows, clicks, timer, list, shout, gap>>

Restarts(r) ==
    /\ follows = "timer" /\ clicks[r] < MaxClicks
    /\ clicks' = [clicks EXCEPT ![r] = @ + 1]
    /\ gap' = [gap EXCEPT !.row[r] = 0]
    /\ UNCHANGED <<on, follows, timer, list, shout>>

EditsList ==
    /\ follows = "shout"
    /\ list' \in 1 .. Messages
    /\ UNCHANGED <<on, follows, clicks, timer, shout, gap>>

-------------------------------------------------------------------------------
(* timer_tick                                                                *)

\* A wrong version, to show that the properties below can fail.
EverRestarted == {r \in Rows : clicks[r] > 0}

\* The rows whose button was pressed since the last tick that was not turned
\* away; last_seen is set with it.
Restarted == {r \in Rows : clicks[r] # timer.seen[r]}

\* A wrong version, to show that the properties below can fail.
RestartFires == [r \in Rows |-> IF r \in Restarted THEN Every[r] ELSE timer.since[r]]

\* The restart of a row is noticed by the tick, not by the button.
SinceFire == [r \in Rows |-> IF r \in Restarted THEN 0 ELSE timer.since[r]]

\* pick_timer_action: the first row whose interval is over.
Due(since) == {r \in Rows : since[r] = Every[r]}
First(rows) == CHOOSE r \in rows : \A s \in rows : r <= s

TimerFinds ==
    /\ follows = "timer" /\ timer.pc = "sleep" /\ timer.waits = 0 /\ on
    /\ LET since == SinceFire
           due   == Due(since)
       IN  IF due = {}
           THEN /\ timer' = [timer EXCEPT !.waits = 1, !.seen = clicks, !.since = since]
                /\ UNCHANGED gap
           ELSE /\ timer' = [timer EXCEPT !.pc = "fires", !.row = First(due), !.seen = clicks,
                                          !.since = [since EXCEPT ![First(due)] = 0]]
                /\ gap' = [gap EXCEPT !.row[First(due)] = 0]
    /\ UNCHANGED <<on, follows, clicks, list, shout>>

TimerRests ==
    /\ follows = "timer" /\ timer.pc = "sleep" /\ timer.waits = 0 /\ ~on
    /\ timer' = [timer EXCEPT !.waits = 1]
    /\ UNCHANGED <<on, follows, clicks, list, shout, gap>>

\* What execute_buff_item returns is not looked at: a row whose command has
\* failed waits for its interval all the same.
TimerFired ==
    /\ timer.pc = "fires"
    /\ timer' = [timer EXCEPT !.pc = "sleep", !.row = 0, !.waits = 1]
    /\ UNCHANGED <<on, follows, clicks, list, shout, gap>>

-------------------------------------------------------------------------------
(* shout_tick                                                                *)

\* pick_shout_message: the list may be shorter than when the index was set.
Wrapped(i) == ((i - 1) % list) + 1

ShoutFinds ==
    /\ follows = "shout" /\ shout.pc = "sleep" /\ shout.waits = 0 /\ on
    /\ IF shout.since < ShoutEvery
       THEN shout' = [shout EXCEPT !.waits = 1] /\ UNCHANGED gap
       ELSE /\ shout' = [shout EXCEPT !.pc = "says", !.says = Wrapped(shout.next),
                                      !.next = Wrapped(Wrapped(shout.next) + 1)]
            /\ gap' = [gap EXCEPT !.shout = 0]
    /\ UNCHANGED <<on, follows, clicks, timer, list>>

ShoutRests ==
    /\ follows = "shout" /\ shout.pc = "sleep" /\ shout.waits = 0 /\ ~on
    /\ shout' = [shout EXCEPT !.waits = 1]
    /\ UNCHANGED <<on, follows, clicks, timer, list, gap>>

Silent == [shout EXCEPT !.pc = "sleep", !.says = 0, !.waits = 1, !.since = 0]

\* A wrong version, to show that the properties below can fail.
TriesAgain(said) == IF said THEN Silent
                    ELSE [Silent EXCEPT !.since = ShoutEvery, !.next = shout.says]

\* A message that was not sent is not tried again, and its turn is over.
After(said) == Silent

ShoutReturns(said) ==
    /\ shout.pc = "says" /\ (said => shout.says \notin TooLong)
    /\ shout' = After(said)
    /\ UNCHANGED <<on, follows, clicks, timer, list, gap>>

-------------------------------------------------------------------------------
(* Time, in ticks of half a second.                                           *)

Up(n, most) == IF n < most THEN n + 1 ELSE n

Elapse ==
    /\ \/ timer.pc = "sleep" /\ timer.waits = 1 /\ timer' = [timer EXCEPT !.waits = 0,
              !.since = [r \in Rows |-> Up(@[r], Every[r])]]
       \/ timer.pc = "fires" /\ timer.waits < Stuck /\ timer' = [timer EXCEPT !.waits = @ + 1,
              !.since = [r \in Rows |-> Up(@[r], Every[r])]]
       \/ follows = "shout" /\ UNCHANGED timer
    /\ \/ shout.pc = "sleep" /\ shout.waits = 1 /\ shout' = [shout EXCEPT !.waits = 0,
              !.since = Up(@, ShoutEvery)]
       \/ shout.pc = "says" /\ shout.waits < Stuck /\ shout' = [shout EXCEPT !.waits = @ + 1,
              !.since = Up(@, ShoutEvery)]
       \/ follows = "timer" /\ UNCHANGED shout
    /\ gap' = [row |-> [r \in Rows |-> Up(gap.row[r], Every[r])],
               shout |-> Up(gap.shout, ShoutEvery)]
    /\ UNCHANGED <<on, follows, clicks, list>>

TimerTick == TimerFinds \/ TimerRests \/ TimerFired
ShoutTick == ShoutFinds \/ ShoutRests \/ \E said \in BOOLEAN : ShoutReturns(said)
Player == Switches \/ EditsList \/ \E r \in Rows : Restarts(r)

Next == TimerTick \/ ShoutTick \/ Player \/ Elapse

\* The threads run, calls end and time passes.
Spec ==
    /\ Init /\ [][Next]_vars
    /\ WF_vars(TimerTick) /\ WF_vars(ShoutTick) /\ WF_vars(Elapse)

-------------------------------------------------------------------------------
\* Between two uses of a row, and between its restart and the next use, lies
\* its interval: also when the button is pressed while a command runs, while
\* the page is off or while the player is away, and however long calls take.
\* (A use whose tick had begun before the button was pressed is the old one.)
RowsSpaced == \A r \in Rows : TimerFinds /\ timer'.row = r => gap.row[r] = Every[r]

\* The same for the messages, one that could not be sent included.
ShoutsSpaced == ShoutFinds /\ shout'.pc = "says" => gap.shout = ShoutEvery

\* A row with an interval longer than the rows before it need, one tick each,
\* is used again and again, if no call gets stuck.
HasRoom(r) == \A s \in 1 .. r - 1 : Every[s] >= r
RowOn == follows = "timer" /\ on /\ (timer.pc = "fires" => timer.waits = 0)
RowTurn(r) == timer.pc = "fires" /\ timer.row = r
RowsFire == \A r \in Rows : HasRoom(r) /\ <>[]RowOn => []<>RowTurn(r)

\* Each message of a list that is no longer edited has its turn, also behind
\* one that can never be sent.
ShoutOn(n) == follows = "shout" /\ on /\ list = n
ShoutTurn(m) == shout.pc = "says" /\ shout.says = m
ShoutsInTurn == \A n \in 1 .. Messages : \A m \in 1 .. n : <>[]ShoutOn(n) => []<>ShoutTurn(m)
===============================================================================
