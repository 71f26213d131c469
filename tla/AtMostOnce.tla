------------------------------- MODULE AtMostOnce -------------------------------
(***************************************************************************)
(* What a thread of the launcher may expect of a call into the game: it      *)
(* takes effect at most once; it has taken effect when it is reported as     *)
(* done, unless the game is gone by then; and one that was reported as       *)
(* failed may still take effect afterwards.                                  *)
(***************************************************************************)
CONSTANTS Calls, Effects

VARIABLES
    call,   \* per call: "none", "asked", "done" or "failed"
    effect, \* per call: the effects that it has had
    alive   \* the game runs

vars == <<call, effect, alive>>

Init ==
    /\ call = [c \in Calls |-> "none"]
    /\ effect = [c \in Calls |-> {}]
    /\ alive = TRUE

Ask(c) ==
    /\ call[c] = "none"
    /\ call' = [call EXCEPT ![c] = "asked"]
    /\ UNCHANGED <<effect, alive>>

TakeEffect(c, e) ==
    /\ alive /\ effect[c] = {} /\ call[c] \in {"asked", "failed"}
    /\ effect' = [effect EXCEPT ![c] = {e}]
    /\ UNCHANGED <<call, alive>>

Answer(c) ==
    /\ call[c] = "asked"
    /\ \/ (effect[c] # {} \/ ~alive) /\ call' = [call EXCEPT ![c] = "done"]
       \/ call' = [call EXCEPT ![c] = "failed"]
    /\ UNCHANGED <<effect, alive>>

GameEnds == alive /\ alive' = FALSE /\ UNCHANGED <<call, effect>>

Next ==
    \/ \E c \in Calls :
          Ask(c) \/ Answer(c) \/ \E e \in Effects : TakeEffect(c, e)
    \/ GameEnds

Spec == Init /\ [][Next]_vars
===============================================================================
