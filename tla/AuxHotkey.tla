------------------------------- MODULE AuxHotkey -------------------------------
(***************************************************************************)
(* The F1 to F4 keys (aux/hotkey).  A session starts three threads: a worker  *)
(* that uses the command of a key, a thread that has a keyboard hook and only *)
(* ends by a message, and one that posts it when the session is cancelled.    *)
(* The hook puts the key into a channel whose sender is a static, written     *)
(* anew by each session; the session ends when all three have.               *)
(***************************************************************************)
EXTENDS Naturals

CONSTANTS
    MaxSessions, \* bound: sessions of a behaviour
    MaxQueue,    \* bound: presses that wait in a channel
    Cooldown,    \* per key, in units of time
    Deadline     \* how long the poster waits for the thread of the hook

HotkeyAssumption ==
    /\ MaxSessions \in Nat /\ MaxQueue \in Nat \ {0}
    /\ Cooldown \in Nat \ {0} /\ Deadline \in Nat

VARIABLES
    session, \* how many were started; whether one runs, and is cancelled
    tx,      \* HOTKEY_TX: the session whose channel the hook writes to
    queue,   \* presses of a key in the channel of this session
    worker,  \* the worker, and the time since it used the key
    hook,    \* the thread of the hook
    poster,  \* the thread that posts WM_QUIT, and how long it has waited
    quit,    \* WM_QUIT: not posted, in the message queue, or lost before there
             \* was one or with the poster's patience
    late     \* history: uses that began after the session was cancelled, up to 2

vars == <<session, tx, queue, worker, hook, poster, quit, late>>

TypeOK ==
    /\ session \in [n : 0 .. MaxSessions, runs : BOOLEAN, cancel : BOOLEAN]
    /\ tx \in 0 .. session.n
    /\ queue \in 0 .. MaxQueue
    /\ worker \in [pc : {"ended", "loop", "waits", "got", "uses"}, since : 0 .. Cooldown]
    /\ hook \in {"ended", "starts", "known", "queue", "hooked"}
    /\ poster \in [pc : {"ended", "polls", "posts"}, waits : 0 .. Deadline]
    /\ quit \in {"no", "posted", "lost"} /\ late \in 0 .. 2

Init ==
    /\ session = [n |-> 0, runs |-> FALSE, cancel |-> FALSE]
    /\ tx = 0 /\ queue = 0
    /\ worker = [pc |-> "ended", since |-> Cooldown]
    /\ hook = "ended" /\ poster = [pc |-> "ended", waits |-> 0]
    /\ quit = "no" /\ late = 0

-------------------------------------------------------------------------------
(* The session.                                                               *)

\* A wrong version, to show that the properties below can fail.
TxOnce == IF tx = 0 THEN session'.n ELSE tx

NewTx == session'.n

Install ==
    /\ ~session.runs /\ session.n < MaxSessions
    /\ session' = [n |-> session.n + 1, runs |-> TRUE, cancel |-> FALSE]
    /\ tx' = NewTx /\ queue' = 0
    /\ worker' = [pc |-> "loop", since |-> Cooldown]
    /\ hook' = "starts"
    /\ poster' = [pc |-> "polls", waits |-> 0]
    /\ quit' = "no" /\ late' = 0

Cancel ==
    /\ session.runs /\ ~session.cancel
    /\ session' = [session EXCEPT !.cancel = TRUE]
    /\ UNCHANGED <<tx, queue, worker, hook, poster, quit, late>>

AllEnded == worker.pc = "ended" /\ hook = "ended" /\ poster.pc = "ended"

\* shutdown joins the threads of the session.
Joined ==
    /\ session.cancel /\ session.runs /\ AllEnded
    /\ session' = [session EXCEPT !.runs = FALSE]
    /\ UNCHANGED <<tx, queue, worker, hook, poster, quit, late>>

-------------------------------------------------------------------------------
(* The keys.  A key that is held comes again and again; the sender of a       *)
(* session whose worker has ended fails, and the key is eaten all the same.   *)

Press ==
    /\ hook = "hooked"
    /\ tx = session.n /\ worker.pc # "ended" /\ queue < MaxQueue
    /\ queue' = queue + 1
    /\ UNCHANGED <<session, tx, worker, hook, poster, quit, late>>

-------------------------------------------------------------------------------
(* The worker.                                                                *)

\* A wrong version, to show that the properties below can fail.
CancelWhenIdle == session.cancel /\ queue = 0

SeesCancel == session.cancel

WorkerChecks ==
    /\ worker.pc = "loop"
    /\ worker' = [worker EXCEPT !.pc = IF SeesCancel THEN "ended" ELSE "waits"]
    /\ UNCHANGED <<session, tx, queue, hook, poster, quit, late>>

\* recv_timeout: a press, or none for 50 ms.
WorkerReceives ==
    /\ worker.pc = "waits" /\ queue > 0
    /\ worker' = [worker EXCEPT !.pc = "got"]
    /\ queue' = queue - 1
    /\ UNCHANGED <<session, tx, hook, poster, quit, late>>

WorkerTimesOut ==
    /\ worker.pc = "waits" /\ queue = 0
    /\ worker' = [worker EXCEPT !.pc = "loop"]
    /\ UNCHANGED <<session, tx, queue, hook, poster, quit, late>>

\* The key was used just now, or has no command.
WorkerDrops ==
    /\ worker.pc = "got"
    /\ worker' = [worker EXCEPT !.pc = "loop"]
    /\ UNCHANGED <<session, tx, queue, hook, poster, quit, late>>

WorkerUses ==
    /\ worker.pc = "got" /\ worker.since = Cooldown
    /\ worker' = [pc |-> "uses", since |-> 0]
    /\ late' = IF session.cancel /\ late < 2 THEN late + 1 ELSE late
    /\ UNCHANGED <<session, tx, queue, hook, poster, quit>>

\* The call into the game, at most five seconds.
WorkerReturns ==
    /\ worker.pc = "uses"
    /\ worker' = [worker EXCEPT !.pc = "loop"]
    /\ UNCHANGED <<session, tx, queue, hook, poster, quit, late>>

Worker == WorkerChecks \/ WorkerReceives \/ WorkerTimesOut \/ WorkerDrops \/ WorkerUses \/ WorkerReturns

-------------------------------------------------------------------------------
(* The thread of the hook.                                                    *)

\* Its id is stored before PeekMessage makes its message queue.
HookStep(from, to) ==
    /\ hook = from /\ hook' = to
    /\ UNCHANGED <<session, tx, queue, worker, poster, quit, late>>

SetHookFails == HookStep("queue", "ended")
\* GetMessage only returns for the message; the hook is called meanwhile.
HookQuits == quit = "posted" /\ HookStep("hooked", "ended")

HookThread ==
    \/ HookStep("starts", "known") \/ HookStep("known", "queue") \/ HookStep("queue", "hooked")
    \/ SetHookFails \/ HookQuits

-------------------------------------------------------------------------------
(* The poster.                                                                *)

PosterWakes ==
    /\ poster.pc = "polls" /\ session.cancel
    /\ poster' = [poster EXCEPT !.pc = "posts"]
    /\ UNCHANGED <<session, tx, queue, worker, hook, quit, late>>

\* A wrong version, to show that the properties below can fail.
NoPatience == TRUE

OutOfPatience == poster.waits = Deadline

Posts ==
    /\ poster.pc = "posts" /\ hook # "starts"
    /\ poster' = [poster EXCEPT !.pc = "ended"]
    /\ quit' = IF hook = "known" THEN "lost" ELSE "posted"
    /\ UNCHANGED <<session, tx, queue, worker, hook, late>>

GivesUp ==
    /\ poster.pc = "posts" /\ hook = "starts" /\ OutOfPatience
    /\ poster' = [poster EXCEPT !.pc = "ended"]
    /\ quit' = IF poster.waits = Deadline THEN "lost" ELSE quit
    /\ UNCHANGED <<session, tx, queue, worker, hook, late>>

Poster == PosterWakes \/ Posts \/ GivesUp

Elapse ==
    /\ \/ worker.since < Cooldown
       \/ poster.pc = "posts" /\ poster.waits < Deadline
    /\ worker' = [worker EXCEPT !.since = IF @ < Cooldown THEN @ + 1 ELSE @]
    /\ poster' = [poster EXCEPT !.waits =
                      IF poster.pc = "posts" /\ @ < Deadline THEN @ + 1 ELSE @]
    /\ UNCHANGED <<session, tx, queue, hook, quit, late>>

Next == Install \/ Cancel \/ Joined \/ Press \/ Worker \/ HookThread \/ Poster \/ Elapse

\* The threads run, calls return, time passes, and who shuts down joins.
Spec ==
    /\ Init /\ [][Next]_vars
    /\ WF_vars(Worker) /\ WF_vars(HookThread) /\ WF_vars(Poster) /\ WF_vars(Joined)
    /\ WF_vars(Elapse)

-------------------------------------------------------------------------------
\* The keys that a hook eats go to the worker of its own session, in each
\* session of a launcher.
HookFeedsWorker == hook = "hooked" => tx = session.n

\* Of the keys that were pressed and wait, at most the one in hand is used when
\* the session has been cancelled.
OneLateUse == late <= 1

\* A session that is cancelled comes to its end, although a key is held, if
\* the message was not posted before the hook's thread had a queue, and that
\* thread started within the poster's patience.
Ending == session.cancel /\ session.runs /\ quit # "lost"
SessionEnds == []<>~Ending
===============================================================================
