------------------------------- MODULE RemoteCall -------------------------------
(***************************************************************************)
(* Calls into the game (aux/drink_hook): a thread of the launcher writes a    *)
(* few instructions into a page of the game, starts a thread there and waits *)
(* for it for five seconds.  Threads of the launcher do not exclude each     *)
(* other, the instructions read and write globals that the player also       *)
(* changes, and the page is freed whether or not its thread has ended.       *)
(***************************************************************************)
EXTENDS Naturals, Sequences, TLAPS

CONSTANTS
    Calls,      \* bound: the calls of a behaviour
    Requests,   \* what the threads of the launcher ask of the game
    Targets     \* what the two globals may hold

VARIABLES
    request,  \* per call: its request
    call,     \* per call: where run_remote_call is
    page,     \* per call: its page in the game
    thread,   \* per call: the remote thread, the instructions it has done
    saved,    \* per call: what it has pushed on its stack
    global,   \* [0x97C90C], "aim", and [0x97C910], "hover"
    alive,    \* the game runs
    effect,   \* history: what each call has had the game do
    chosen,   \* history: what the player chose last for each global
    touched   \* history: a global was chosen while a call had it saved

vars == <<request, call, page, thread, saved, global, alive, effect, chosen, touched>>

Globals == {"aim", "hover"}

\* What the builders assemble, as far as it touches something shared.
UseItem == <<"act", "ret">>         \* USE_ITEM, with the entry of the item
SendPacket == <<"act", "ret">>      \* SendPacketData, with its arguments
SkillPacket == SendPacket           \* a spell by its packet, at somebody or some place
ItemPacket == SendPacket            \* an item, one on another, one thrown away
TextPacket == SendPacket            \* with a string in the page: a shape, a message
AttackEntity == <<"save", "aim", "act", "restore", "ret">>
CastWithoutTarget == <<"save", "act", "restore", "ret">>
Programs == {UseItem, SendPacket, SkillPacket, ItemPacket, TextPacket, AttackEntity, CastWithoutTarget}

CallsAssumption ==
    /\ Requests \subseteq [thread : {"bot", "buff", "drink"}, code : Programs, target : Targets]
    /\ Requests # {} /\ Targets # {}
    \* Only the bot aims a skill at a creature.
    /\ \A r \in Requests : r.code = AttackEntity => r.thread = "bot"

Owner(c) == request[c].thread
Code(c) == request[c].code
Target(c) == request[c].target
GlobalOf(c) == IF Code(c) = AttackEntity THEN "aim" ELSE "hover"
Running(c) == thread[c] \in DOMAIN Code(c)
Op(c) == Code(c)[thread[c]]
\* The call has the global on its stack.
Holds(c) == Running(c) /\ \E i \in 1 .. thread[c] - 1 : Code(c)[i] = "save"
                       /\ \A j \in 1 .. thread[c] - 1 : Code(c)[j] # "restore"

TypeOK ==
    /\ request \in [Calls -> Requests]
    /\ call \in [Calls -> {"none", "write", "start", "wait", "late", "error", "done", "failed"}]
    /\ page \in [Calls -> {"none", "zeroed", "written", "freed"}]
    /\ thread \in [Calls -> 0 .. 6]
    /\ saved \in [Calls -> Targets] /\ global \in [Globals -> Targets]
    /\ alive \in BOOLEAN
    /\ effect \in [Calls -> SUBSET Targets] /\ chosen \in [Globals -> Targets]
    /\ touched \subseteq Globals

Init ==
    /\ request \in [Calls -> Requests]
    /\ call = [c \in Calls |-> "none"] /\ page = [c \in Calls |-> "none"]
    /\ thread = [c \in Calls |-> 0]
    /\ LET nothing == CHOOSE t \in Targets : TRUE
       IN  /\ saved = [c \in Calls |-> nothing]
           /\ global = [g \in Globals |-> nothing] /\ chosen = global
    /\ alive = TRUE /\ effect = [c \in Calls |-> {}] /\ touched = {}

Busy(c) == call[c] \in {"write", "start", "wait", "late", "error"}

GameVars == <<thread, saved, global, effect, chosen, touched>>

\* A wrong version, to show that the properties below can fail.
AnyTime(c) == call[c] = "none"

\* A thread of the launcher makes its calls one after the other.
MayBegin(c) == call[c] = "none" /\ \A d \in Calls : Owner(d) = Owner(c) => ~Busy(d)

\* A string that does not fit into the page fails before it is allocated.
Begin(c) ==
    /\ MayBegin(c)
    /\ \/ /\ alive
          /\ call' = [call EXCEPT ![c] = "write"]
          /\ page' = [page EXCEPT ![c] = "zeroed"]
       \/ call' = [call EXCEPT ![c] = "error"] /\ UNCHANGED page
    /\ UNCHANGED <<request, alive, GameVars>>

Write(c) ==
    /\ call[c] = "write"
    /\ \/ /\ alive
          /\ call' = [call EXCEPT ![c] = "start"]
          /\ page' = [page EXCEPT ![c] = "written"]
       \/ call' = [call EXCEPT ![c] = "error"] /\ UNCHANGED page
    /\ UNCHANGED <<request, alive, GameVars>>

Start(c) ==
    /\ call[c] = "start"
    /\ \/ /\ alive
          /\ call' = [call EXCEPT ![c] = "wait"]
          /\ thread' = [thread EXCEPT ![c] = 1]
       \/ call' = [call EXCEPT ![c] = "error"] /\ UNCHANGED thread
    /\ UNCHANGED <<request, page, saved, global, alive, effect, chosen, touched>>

Ended(c) == ~alive \/ thread[c] > Len(Code(c))

\* A wrong version, to show that the properties below can fail.
WaitsForIt(c) == FALSE

Expires(c) == call[c] = "wait" /\ ~Ended(c)

\* The wait ends with the thread or after five seconds; then, as after every
\* error, the page is freed.  The thread's exit code is only logged.
TimesOut(c) ==
    /\ Expires(c)
    /\ call' = [call EXCEPT ![c] = "late"]
    /\ UNCHANGED <<request, page, alive, GameVars>>

\* A wrong version, to show that the properties below can fail.
LateIsDone(c) == IF call[c] \in {"wait", "late"} THEN "done" ELSE "failed"

Result(c) == IF call[c] = "wait" THEN "done" ELSE "failed"

\* A wrong version, to show that the properties below can fail.
FreeAnyTime(c) == call[c] \in {"late", "error", "wait"}

MayFree(c) == call[c] \in {"late", "error"} \/ (call[c] = "wait" /\ Ended(c))

Free(c) ==
    /\ MayFree(c)
    /\ call' = [call EXCEPT ![c] = Result(c)]
    /\ page' = [page EXCEPT ![c] = IF @ = "none" THEN "none" ELSE "freed"]
    /\ UNCHANGED <<request, alive, GameVars>>

-------------------------------------------------------------------------------
(* The remote thread.                                                         *)

Advanced(c) == thread' = [thread EXCEPT ![c] = @ + 1]

Save(c) ==
    /\ Op(c) = "save"
    /\ saved' = [saved EXCEPT ![c] = global[GlobalOf(c)]]
    /\ Advanced(c) /\ UNCHANGED <<global, effect, touched>>

Aim(c) ==
    /\ Op(c) = "aim"
    /\ global' = [global EXCEPT !["aim"] = Target(c)]
    /\ Advanced(c) /\ UNCHANGED <<saved, effect, touched>>

\* A packet has its target in the code; a cast reads the global.
Act(c) ==
    /\ Op(c) = "act"
    /\ effect' = [effect EXCEPT ![c] =
                      @ \cup {IF Code(c) = AttackEntity THEN global["aim"] ELSE Target(c)}]
    /\ Advanced(c) /\ UNCHANGED <<saved, global, touched>>

\* A wrong version, to show that the properties below can fail.
KeptAim(c) == [global EXCEPT !["hover"] = IF GlobalOf(c) = "hover" THEN saved[c] ELSE @]

Restored(c) == [global EXCEPT ![GlobalOf(c)] = saved[c]]

Restore(c) ==
    /\ Op(c) = "restore"
    /\ global' = Restored(c)
    /\ Advanced(c) /\ UNCHANGED <<saved, effect, touched>>

Return(c) == Op(c) = "ret" /\ Advanced(c) /\ UNCHANGED <<saved, global, effect, touched>>

Executes(c) ==
    /\ alive /\ Running(c) /\ page[c] = "written"
    /\ Save(c) \/ Aim(c) \/ Act(c) \/ Restore(c) \/ Return(c)
    /\ UNCHANGED <<request, call, page, alive, chosen>>

\* Its page is gone: what it does next is undefined, and the game falls.
Falls(c) ==
    /\ alive /\ Running(c) /\ page[c] = "freed"
    /\ alive' = FALSE
    /\ UNCHANGED <<request, call, page, GameVars>>

PlayerChooses(g, t) ==
    /\ alive /\ t # chosen[g]
    /\ global' = [global EXCEPT ![g] = t]
    /\ chosen' = [chosen EXCEPT ![g] = t]
    /\ touched' = IF \E c \in Calls : GlobalOf(c) = g /\ Holds(c)
                  THEN touched \cup {g} ELSE touched \ {g}
    /\ UNCHANGED <<request, call, page, thread, saved, alive, effect>>

GameEnds == alive /\ alive' = FALSE /\ UNCHANGED <<request, call, page, GameVars>>

Caller(c) == Begin(c) \/ Write(c) \/ Start(c) \/ TimesOut(c) \/ Free(c)
Game(c) == Executes(c) \/ Falls(c)

Next ==
    \/ \E c \in Calls : Caller(c) \/ Game(c)
    \/ \E g \in Globals, t \in Targets : PlayerChooses(g, t)
    \/ GameEnds

Spec == Init /\ [][Next]_vars /\ \A c \in Calls : WF_vars(Write(c) \/ Start(c) \/ TimesOut(c) \/ Free(c))

-------------------------------------------------------------------------------
(* A refinement of what the callers expect of it.                             *)

Told == [c \in Calls |-> IF Busy(c) THEN "asked" ELSE call[c]]

Expected == INSTANCE AtMostOnce WITH Effects <- Targets, call <- Told

\* A call takes effect at most once, and has if it is reported as done while
\* the game runs.
CallsOnce == Expected!Spec

\* The launcher never takes the code from a thread that it has not waited
\* five seconds for: unless a call has been given up as late, a thread finds
\* its page until it returns.
RunsInItsPage ==
    \A c \in Calls : alive /\ Running(c) /\ page[c] = "freed" => call[c] = "failed"

\* A skill aimed by the launcher leaves the player's own target as it was:
\* when no call has it on its stack it is what the player chose last, unless
\* he chose in the middle of a call.
AimComesBack ==
    \A g \in Globals :
        (\A c \in Calls : GlobalOf(c) = g => ~Holds(c)) /\ g \notin touched
            => global[g] = chosen[g]

\* An attack goes to its target, unless the player has chosen meanwhile: no
\* other call of the launcher can turn it.
TurnedByPlayer(c) ==
    \/ effect'[c] = effect[c] \/ effect'[c] = {Target(c)} \/ "aim" \in touched
AttackKeepsTarget == \A c \in Calls : Code(c) = AttackEntity => TurnedByPlayer(c)

\* A call that a thread of the launcher has begun ends, whatever the game does.
CallsEnd == \A c \in Calls : []<>~Busy(c)
-------------------------------------------------------------------------------
(* What is proved, for any number of calls, requests and targets: RemoteCall   *)
(* implements AtMostOnce.                                                    *)

\* Where the instruction stands for which the call is made; each program has one.
ActAt(p) == IF p = UseItem THEN 1 ELSE IF p = CastWithoutTarget THEN 2 ELSE 3

\* No thread runs for a call that has not been started or could not be.
StartedRuns(c) == call[c] \in {"none", "write", "start", "error"} => thread[c] = 0
\* What is reported as done has ended, or its game has.
DoneEnded(c) == call[c] = "done" => Ended(c)
\* There is an effect when the thread is past the instruction for it.
EffectByAct(c) == (effect[c] = {}) <=> (thread[c] =< ActAt(Code(c)))
\* A page is freed at the end of its call.
FreedAtEnd(c) == page[c] = "freed" => call[c] \in {"done", "failed"}

CallFacts(c) == StartedRuns(c) /\ DoneEnded(c) /\ EffectByAct(c) /\ FreedAtEnd(c)
CallInvariant == TypeOK /\ \A c \in Calls : CallFacts(c)

\* The instruction for the effect stands in its place and nowhere else, and before
\* the end.
LEMMA OneAct ==
    ASSUME NEW p \in Programs
    PROVE  /\ Len(p) \in 2 .. 5 /\ DOMAIN p = 1 .. Len(p)
           /\ ActAt(p) \in 1 .. Len(p) - 1
           /\ \A i \in 1 .. Len(p) : p[i] = "act" <=> i = ActAt(p)
  <1> USE DEF ActAt
  <1>1. CASE p = <<"act", "ret">>
    BY <1>1 DEF UseItem
  <1>2. CASE p = <<"save", "act", "restore", "ret">>
    BY <1>2 DEF UseItem, CastWithoutTarget
  <1>3. CASE p = <<"save", "aim", "act", "restore", "ret">>
    BY <1>3 DEF UseItem, CastWithoutTarget
  <1> QED
    BY <1>1, <1>2, <1>3 DEF Programs, UseItem, SendPacket, SkillPacket, ItemPacket,
       TextPacket, AttackEntity, CastWithoutTarget
\* What a thread asks for is one of the programs, with one of the targets.
LEMMA OfCall ==
    ASSUME CallsAssumption, TypeOK, NEW c \in Calls
    PROVE  Code(c) \in Programs /\ Target(c) \in Targets /\ GlobalOf(c) \in Globals
  <1>1. request[c] \in [thread : {"bot", "buff", "drink"}, code : Programs, target : Targets]
    BY DEF TypeOK, CallsAssumption
  <1> QED
    BY <1>1 DEF Code, Target, GlobalOf, Globals

LEMMA CallsBegin == ASSUME CallsAssumption, Init PROVE CallInvariant
  <1>1. (CHOOSE t \in Targets : TRUE) \in Targets
    BY DEF CallsAssumption
  <1>2. TypeOK
    BY <1>1 DEF Init, TypeOK
  <1>3. ASSUME NEW c \in Calls PROVE CallFacts(c)
    <2>1. ActAt(Code(c)) \in Nat
      BY <1>2, OfCall, OneAct
    <2> QED
      BY <2>1 DEF Init, CallFacts, StartedRuns, DoneEnded, EffectByAct, FreedAtEnd
  <1> QED
    BY <1>2, <1>3 DEF CallInvariant

\* What a step does not touch stays as it was; the end of the game undoes nothing.
LEMMA Untouched ==
    ASSUME CallInvariant, NEW d \in Calls, request' = request,
           call'[d] = call[d], page'[d] = page[d], thread'[d] = thread[d],
           effect'[d] = effect[d], alive' => alive
    PROVE  CallFacts(d)'
  <1>1. CallFacts(d)
    BY DEF CallInvariant
  <1> QED
    BY <1>1 DEF CallFacts, StartedRuns, DoneEnded, EffectByAct, FreedAtEnd, Ended, Code

\* The threads of the launcher: each of their steps is about one call.
LEMMA CallerKeeps ==
    ASSUME CallsAssumption, CallInvariant, NEW c \in Calls, Caller(c)
    PROVE  CallInvariant'
  <1> USE DEF CallInvariant, TypeOK, GameVars
  <1>1. TypeOK' /\ request' = request /\ alive' = alive /\ effect' = effect
    <2>1. CASE Begin(c)
      BY <2>1 DEF Begin
    <2>2. CASE Write(c)
      BY <2>2 DEF Write
    <2>3. CASE Start(c)
      BY <2>3 DEF Start
    <2>4. CASE TimesOut(c)
      BY <2>4 DEF TimesOut
    <2>5. CASE Free(c)
      BY <2>5 DEF Free, Result
    <2> QED
      BY <2>1, <2>2, <2>3, <2>4, <2>5 DEF Caller
  <1>2. ASSUME NEW d \in Calls, d # c PROVE CallFacts(d)'
    <2>1. call'[d] = call[d] /\ page'[d] = page[d] /\ thread'[d] = thread[d]
      BY <1>2 DEF Caller, Begin, Write, Start, TimesOut, Free
    <2> QED
      BY <1>1, <2>1, Untouched
  <1>3. CallFacts(c)'
    <2> USE DEF CallFacts, StartedRuns, DoneEnded, EffectByAct, FreedAtEnd, Ended, Code
    <2>0. CallFacts(c) /\ ActAt(Code(c)) \in Nat \ {0}
      BY OfCall, OneAct
    <2>1. CASE Begin(c)
      BY <2>0, <2>1 DEF Begin, MayBegin
    <2>2. CASE Write(c)
      BY <2>0, <2>2 DEF Write
    <2>3. CASE Start(c)
      BY <2>0, <2>3 DEF Start
    <2>4. CASE TimesOut(c)
      BY <2>0, <2>4 DEF TimesOut, Expires
    <2>5. CASE Free(c)
      BY <2>0, <2>5 DEF Free, MayFree, Result
    <2> QED
      BY <2>1, <2>2, <2>3, <2>4, <2>5 DEF Caller
  <1> QED
    BY <1>1, <1>2, <1>3

\* A thread in the game goes on by one instruction; only the one for the effect
\* has an effect, and it is in its place.
LEMMA GameKeeps ==
    ASSUME CallsAssumption, CallInvariant, NEW c \in Calls, Executes(c)
    PROVE  CallInvariant'
  <1> USE DEF CallInvariant, TypeOK, Advanced
  <1>0. /\ Code(c) \in Programs /\ Target(c) \in Targets /\ GlobalOf(c) \in Globals
        /\ Len(Code(c)) \in 2 .. 5 /\ DOMAIN Code(c) = 1 .. Len(Code(c))
        /\ ActAt(Code(c)) \in 1 .. Len(Code(c)) - 1
        /\ \A i \in 1 .. Len(Code(c)) : Code(c)[i] = "act" <=> i = ActAt(Code(c))
    BY OfCall, OneAct
  <1>1. /\ alive /\ thread[c] \in 1 .. Len(Code(c)) /\ page[c] = "written"
        /\ request' = request /\ call' = call /\ page' = page
        /\ alive' = alive /\ chosen' = chosen
        /\ thread' = [thread EXCEPT ![c] = @ + 1]
    BY <1>0 DEF Executes, Running, Save, Aim, Act, Restore, Return
  <1>2. CASE Act(c)
    <2>1. PICK t \in Targets : effect' = [effect EXCEPT ![c] = @ \cup {t}]
      BY <1>0, <1>2 DEF Act, Globals
    <2>2. TypeOK'
      <3>1. thread' \in [Calls -> 0 .. 6]
        BY <1>0, <1>1
      <3>2. effect' \in [Calls -> SUBSET Targets]
        BY <2>1
      <3>3. saved' = saved /\ global' = global /\ touched' = touched
        BY <1>2 DEF Act
      <3> QED
        BY <1>1, <3>1, <3>2, <3>3
    <2>3. thread[c] = ActAt(Code(c))
      BY <1>0, <1>1, <1>2 DEF Act, Op
    <2>4. CallFacts(c)'
      BY <1>0, <1>1, <2>1, <2>3 DEF CallFacts, StartedRuns, DoneEnded, EffectByAct,
         FreedAtEnd, Ended, Code
    <2>5. ASSUME NEW d \in Calls, d # c PROVE CallFacts(d)'
      BY <1>1, <2>1, <2>5, Untouched
    <2> QED
      BY <2>2, <2>4, <2>5
  <1>3. CASE Save(c) \/ Aim(c) \/ Restore(c) \/ Return(c)
    <2>1. Op(c) # "act" /\ effect' = effect /\ touched' = touched
      BY <1>3 DEF Save, Aim, Restore, Return
    <2>2. TypeOK'
      <3>1. thread' \in [Calls -> 0 .. 6]
        BY <1>0, <1>1
      <3>2. saved' \in [Calls -> Targets] /\ global' \in [Globals -> Targets]
        BY <1>0, <1>3 DEF Save, Aim, Restore, Restored, Return, Globals
      <3> QED
        BY <1>1, <2>1, <3>1, <3>2
    <2>3. thread[c] # ActAt(Code(c))
      BY <1>0, <1>1, <2>1 DEF Op
    <2>4. CallFacts(c)'
      BY <1>0, <1>1, <2>1, <2>3 DEF CallFacts, StartedRuns, DoneEnded, EffectByAct,
         FreedAtEnd, Ended, Code
    <2>5. ASSUME NEW d \in Calls, d # c PROVE CallFacts(d)'
      BY <1>1, <2>1, <2>5, Untouched
    <2> QED
      BY <2>2, <2>4, <2>5
  <1> QED
    BY <1>2, <1>3 DEF Executes

\* The end of the game, by itself or by a thread whose page is gone, and the
\* choices of the player change nothing that the invariant is about.
LEMMA OthersKeep ==
    ASSUME CallsAssumption, CallInvariant,
           \/ GameEnds
           \/ \E c \in Calls : Falls(c)
           \/ \E g \in Globals, t \in Targets : PlayerChooses(g, t)
           \/ UNCHANGED vars
    PROVE  CallInvariant'
  <1> USE DEF CallInvariant, TypeOK, GameVars, vars
  <1>1. /\ request' = request /\ call' = call /\ page' = page /\ thread' = thread
        /\ effect' = effect /\ saved' = saved /\ (alive' => alive)
    BY DEF GameEnds, Falls, PlayerChooses
  <1>2. /\ alive' \in BOOLEAN /\ global' \in [Globals -> Targets]
        /\ chosen' \in [Globals -> Targets] /\ touched' \subseteq Globals
    BY DEF GameEnds, Falls, PlayerChooses
  <1>3. ASSUME NEW d \in Calls PROVE CallFacts(d)'
    BY <1>1, Untouched
  <1> QED
    BY <1>1, <1>2, <1>3

LEMMA CallsKeep == ASSUME CallsAssumption, CallInvariant, [Next]_vars PROVE CallInvariant'
  BY CallerKeeps, GameKeeps, OthersKeep DEF Next, Game

LEMMA CallsHold == ASSUME CallsAssumption PROVE Spec => []CallInvariant
  BY CallsBegin, CallsKeep, PTL DEF Spec

\* Type correctness, for any number of calls.
THEOREM CallsTyped == ASSUME CallsAssumption PROVE Spec => []TypeOK
  <1>1. CallInvariant => TypeOK
    BY DEF CallInvariant
  <1> QED
    BY <1>1, CallsHold, PTL

LEMMA PageOfThread == ASSUME CallsAssumption, CallInvariant PROVE RunsInItsPage
  <1>1. ASSUME NEW c \in Calls, alive, Running(c), page[c] = "freed"
        PROVE  call[c] = "failed"
    <2>1. CallFacts(c) /\ TypeOK
      BY DEF CallInvariant
    <2>2. thread[c] \in 1 .. Len(Code(c)) /\ Len(Code(c)) \in Nat
      BY <1>1, <2>1, OfCall, OneAct DEF Running
    <2>3. ~Ended(c)
      BY <1>1, <2>2 DEF Ended
    <2> QED
      BY <1>1, <2>1, <2>3 DEF CallFacts, DoneEnded, FreedAtEnd
  <1> QED
    BY <1>1 DEF RunsInItsPage

\* The launcher frees the code under a running thread only after it has given
\* the call up.
THEOREM PagesStay == ASSUME CallsAssumption PROVE Spec => []RunsInItsPage
  BY PageOfThread, CallsHold, PTL

\* Every step is one that the callers expect, or none that they see: the request
\* and the answer are the caller's, and the only instruction they know of is
\* the one for the effect.
LEMMA CallerAsExpected ==
    ASSUME CallsAssumption, CallInvariant, CallInvariant', NEW c \in Calls, Caller(c)
    PROVE  [Expected!Next]_Expected!vars
  <1>0. call \in [Calls -> {"none", "write", "start", "wait", "late", "error", "done", "failed"}]
    BY DEF CallInvariant, TypeOK
  <1>1. CASE Begin(c)
    <2>1. effect' = effect /\ alive' = alive
      BY <1>1 DEF Begin, GameVars
    <2>2. PICK s \in {"write", "error"} : call' = [call EXCEPT ![c] = s]
      BY <1>1 DEF Begin
    <2>3. call[c] = "none"
      BY <1>1 DEF Begin, MayBegin
    <2>4. Told[c] = "none" /\ Told' = [Told EXCEPT ![c] = "asked"]
      BY <1>0, <2>2, <2>3 DEF Told, Busy
    <2>5. Expected!Ask(c)
      BY <2>1, <2>4 DEF Expected!Ask
    <2> QED
      BY <2>5 DEF Expected!Next
  <1>2. CASE Write(c) \/ Start(c) \/ TimesOut(c)
    <2>1. effect' = effect /\ alive' = alive
      BY <1>2 DEF Write, Start, TimesOut, GameVars
    <2>2. PICK s \in {"start", "wait", "late", "error"} : call' = [call EXCEPT ![c] = s]
      BY <1>2 DEF Write, Start, TimesOut
    <2>3. call[c] \in {"write", "start", "wait"}
      BY <1>2 DEF Write, Start, TimesOut, Expires
    <2>4. Told' = Told
      BY <1>0, <2>2, <2>3 DEF Told, Busy
    <2> QED
      BY <2>1, <2>4 DEF Expected!vars
  <1>3. CASE Free(c)
    <2>1. effect' = effect /\ alive' = alive
      BY <1>3 DEF Free, GameVars
    <2>2. call' = [call EXCEPT ![c] = Result(c)] /\ call[c] \in {"wait", "late", "error"}
      BY <1>3 DEF Free, MayFree
    <2>3. Told[c] = "asked" /\ Told' = [Told EXCEPT ![c] = Result(c)]
      BY <1>0, <2>2 DEF Told, Busy, Result
    <2>4. CASE call[c] = "wait"
      <3>1. Ended(c) /\ Result(c) = "done"
        BY <1>3, <2>4 DEF Free, MayFree, Result
      <3>2. ActAt(Code(c)) \in 1 .. Len(Code(c)) - 1 /\ Len(Code(c)) \in Nat
        BY OfCall, OneAct DEF CallInvariant
      <3>3. thread[c] \in Nat
        BY DEF CallInvariant, TypeOK
      <3>4. effect[c] # {} \/ ~alive
        BY <3>1, <3>2, <3>3 DEF CallInvariant, CallFacts, EffectByAct, Ended
      <3>5. Expected!Answer(c)
        BY <2>1, <2>3, <3>1, <3>4 DEF Expected!Answer
      <3> QED
        BY <3>5 DEF Expected!Next
    <2>5. CASE call[c] # "wait"
      <3>1. Expected!Answer(c)
        BY <2>1, <2>3, <2>5 DEF Expected!Answer, Result
      <3> QED
        BY <3>1 DEF Expected!Next
    <2> QED
      BY <2>4, <2>5
  <1> QED
    BY <1>1, <1>2, <1>3 DEF Caller

LEMMA GameAsExpected ==
    ASSUME CallsAssumption, CallInvariant, NEW c \in Calls, Executes(c)
    PROVE  [Expected!Next]_Expected!vars
  <1>1. Told' = Told /\ alive' = alive /\ alive /\ Running(c)
    BY DEF Executes, Told, Busy
  <1>2. CASE Save(c) \/ Aim(c) \/ Restore(c) \/ Return(c)
    <2>1. effect' = effect
      BY <1>2 DEF Save, Aim, Restore, Return
    <2> QED
      BY <1>1, <2>1 DEF Expected!vars
  <1>3. CASE Act(c)
    <2>0. /\ Code(c) \in Programs /\ Target(c) \in Targets
          /\ Len(Code(c)) \in 2 .. 5 /\ DOMAIN Code(c) = 1 .. Len(Code(c))
          /\ ActAt(Code(c)) \in 1 .. Len(Code(c)) - 1
          /\ \A i \in 1 .. Len(Code(c)) : Code(c)[i] = "act" <=> i = ActAt(Code(c))
      BY OfCall, OneAct DEF CallInvariant
    <2>1. CallFacts(c) /\ TypeOK
      BY DEF CallInvariant
    <2>2. thread[c] \in 1 .. Len(Code(c)) /\ thread[c] = ActAt(Code(c))
      BY <1>1, <1>3, <2>0 DEF Act, Op, Running
    <2>3. effect[c] = {}
      BY <2>0, <2>1, <2>2 DEF CallFacts, EffectByAct
    <2>4. PICK t \in Targets : effect' = [effect EXCEPT ![c] = {t}]
      <3>1. PICK t : effect' = [effect EXCEPT ![c] = @ \cup {t}]
                     /\ t = IF Code(c) = AttackEntity THEN global["aim"] ELSE Target(c)
        BY <1>3 DEF Act
      <3>2. global["aim"] \in Targets
        BY <2>1 DEF TypeOK, Globals
      <3>3. t \in Targets
        BY <2>0, <3>1, <3>2
      <3>4. effect' = [effect EXCEPT ![c] = {t}]
        <4>1. effect[c] \cup {t} = {t}
          BY <2>3
        <4> QED
          BY <3>1, <4>1
      <3> QED
        BY <3>3, <3>4
    <2>5. call[c] \in {"wait", "late", "failed"}
      BY <1>1, <2>0, <2>1, <2>2 DEF CallFacts, StartedRuns, DoneEnded, Ended, TypeOK
    <2>6. Told[c] \in {"asked", "failed"}
      BY <2>5 DEF Told, Busy
    <2>7. Expected!TakeEffect(c, t)
      BY <1>1, <2>3, <2>4, <2>6 DEF Expected!TakeEffect
    <2> QED
      BY <2>7 DEF Expected!Next
  <1> QED
    BY <1>2, <1>3 DEF Executes

LEMMA OthersAsExpected ==
    ASSUME \/ GameEnds
           \/ \E c \in Calls : Falls(c)
           \/ \E g \in Globals, t \in Targets : PlayerChooses(g, t)
           \/ UNCHANGED vars
    PROVE  [Expected!Next]_Expected!vars
  <1>1. call' = call /\ effect' = effect
    BY DEF GameEnds, Falls, PlayerChooses, GameVars, vars
  <1>2. Told' = Told
    BY <1>1 DEF Told, Busy
  <1>3. CASE GameEnds \/ \E c \in Calls : Falls(c)
    <2>1. Expected!GameEnds
      BY <1>1, <1>2, <1>3 DEF GameEnds, Falls, Expected!GameEnds
    <2> QED
      BY <2>1 DEF Expected!Next
  <1>4. CASE UNCHANGED vars \/ \E g \in Globals, t \in Targets : PlayerChooses(g, t)
    <2>1. alive' = alive
      BY <1>4 DEF PlayerChooses, vars
    <2> QED
      BY <1>1, <1>2, <2>1 DEF Expected!vars
  <1> QED
    BY <1>3, <1>4

LEMMA ExpectedBegins == ASSUME CallsAssumption, Init PROVE Expected!Init
  <1>1. call = [c \in Calls |-> "none"]
    BY DEF Init
  <1>2. Told = [c \in Calls |-> "none"]
    BY <1>1 DEF Told, Busy
  <1>3. effect = [c \in Calls |-> {}] /\ alive = TRUE
    BY Zenon DEF Init
  <1> QED
    BY <1>2, <1>3, Zenon DEF Expected!Init

LEMMA StepsExpected ==
    ASSUME CallsAssumption, CallInvariant, [Next]_vars PROVE [Expected!Next]_Expected!vars
  <1>1. CallInvariant'
    BY CallsKeep
  <1> QED
    BY <1>1, CallerAsExpected, GameAsExpected, OthersAsExpected DEF Next, Game

\* The calls into the game are what their callers expect: each takes effect at
\* most once, and has when it is reported as done in a game that still runs.
THEOREM CallsAsExpected == ASSUME CallsAssumption PROVE Spec => CallsOnce
  BY ExpectedBegins, StepsExpected, CallsHold, PTL DEF Spec, CallsOnce, Expected!Spec
-------------------------------------------------------------------------------
(* The globals.  Only attacks write one, calls of one thread come one after the *)
(* other, and a thread whose page is gone executes nothing more: between a      *)
(* save and its restore nobody but the player writes the same global.           *)

\* The instructions between a save and its restore, the restore included.
Midway(p, n) == (p = AttackEntity /\ n \in 2 .. 4) \/ (p = CastWithoutTarget /\ n \in 2 .. 3)

Attacking(c) == Code(c) = AttackEntity /\ thread[c] \in 2 .. 4
\* An attack that stays where it is, its page freed under it.
Frozen == \E c \in Calls : Attacking(c) /\ page[c] = "freed"

\* A page that can be executed belongs to a call that has not been answered.
PageHeld(c) ==
    /\ page[c] = "written" => call[c] \in {"start", "wait", "late", "error"}
    /\ call[c] = "start" => page[c] = "written"
    /\ thread[c] # 0 => page[c] \in {"written", "freed"}
OneAtATime == \A c, d \in Calls : c # d /\ Owner(c) = Owner(d) => ~(Busy(c) /\ Busy(d))
HoverKnown ==
    "hover" \notin touched =>
        /\ global["hover"] = chosen["hover"]
        /\ \A c \in Calls : Code(c) = CastWithoutTarget /\ thread[c] \in 2 .. 3
                               => saved[c] = chosen["hover"]
AimKnown ==
    "aim" \notin touched =>
        /\ \A c \in Calls : Attacking(c) /\ page[c] = "written" =>
              /\ thread[c] \in {3, 4} => global["aim"] = Target(c)
              /\ Frozen \/ saved[c] = chosen["aim"]
        /\ (\E c \in Calls : Attacking(c)) \/ global["aim"] = chosen["aim"]

Orderly == (\A c \in Calls : PageHeld(c)) /\ OneAtATime
GlobalsKnown == HoverKnown /\ AimKnown
SharedInvariant == CallInvariant /\ Orderly /\ GlobalsKnown

LEMMA MidwayHolds ==
    ASSUME NEW p \in Programs, NEW n \in 0 .. 6
    PROVE  (/\ n \in DOMAIN p
            /\ \E i \in 1 .. n - 1 : p[i] = "save"
            /\ \A j \in 1 .. n - 1 : p[j] # "restore")
              <=> Midway(p, n)
  <1>1. CASE p = <<"act", "ret">>
    BY <1>1 DEF Midway, AttackEntity, CastWithoutTarget
  <1>2. CASE p = <<"save", "act", "restore", "ret">>
    <2>1. /\ DOMAIN p = 1 .. 4 /\ p[1] = "save" /\ p[2] = "act" /\ p[3] = "restore"
          /\ p # AttackEntity /\ p = CastWithoutTarget
      BY <1>2 DEF AttackEntity, CastWithoutTarget
    <2> QED
      BY <2>1 DEF Midway
  <1>3. CASE p = <<"save", "aim", "act", "restore", "ret">>
    <2>1. /\ DOMAIN p = 1 .. 5 /\ p[1] = "save" /\ p[2] = "aim" /\ p[3] = "act"
          /\ p[4] = "restore" /\ p = AttackEntity /\ p # CastWithoutTarget
      BY <1>3 DEF AttackEntity, CastWithoutTarget
    <2> QED
      BY <2>1 DEF Midway
  <1> QED
    BY <1>1, <1>2, <1>3 DEF Programs, UseItem, SendPacket, SkillPacket, ItemPacket,
       TextPacket, AttackEntity, CastWithoutTarget

LEMMA HoldsMidway ==
    ASSUME CallsAssumption, TypeOK, NEW c \in Calls
    PROVE  Holds(c) <=> Midway(Code(c), thread[c])
  <1>1. Code(c) \in Programs /\ thread[c] \in 0 .. 6
    BY OfCall DEF TypeOK
  <1> QED
    BY <1>1, MidwayHolds DEF Holds, Running

\* Where each instruction that touches a global stands.
LEMMA OpsAt ==
    ASSUME CallsAssumption, TypeOK, NEW c \in Calls, Running(c)
    PROVE  /\ Op(c) = "save" => thread[c] = 1 /\ Code(c) \in {AttackEntity, CastWithoutTarget}
           /\ Op(c) = "aim" => thread[c] = 2 /\ Code(c) = AttackEntity
           /\ Op(c) = "act" /\ Code(c) = AttackEntity => thread[c] = 3
           /\ Op(c) = "act" /\ Code(c) = CastWithoutTarget => thread[c] = 2
           /\ Op(c) = "restore" => \/ thread[c] = 4 /\ Code(c) = AttackEntity
                                   \/ thread[c] = 3 /\ Code(c) = CastWithoutTarget
           /\ Op(c) = "ret" => ~Midway(Code(c), thread[c]) /\ ~Midway(Code(c), thread[c] + 1)
           /\ thread[c] \in 1 .. 5
  <1>1. Code(c) \in Programs
    BY OfCall
  <1>2. CASE Code(c) = <<"act", "ret">>
    BY <1>2 DEF Running, Op, Midway, AttackEntity, CastWithoutTarget
  <1>3. CASE Code(c) = <<"save", "act", "restore", "ret">>
    BY <1>3 DEF Running, Op, Midway, AttackEntity, CastWithoutTarget
  <1>4. CASE Code(c) = <<"save", "aim", "act", "restore", "ret">>
    BY <1>4 DEF Running, Op, Midway, AttackEntity, CastWithoutTarget
  <1> QED
    BY <1>1, <1>2, <1>3, <1>4 DEF Programs, UseItem, SendPacket, SkillPacket, ItemPacket,
       TextPacket, AttackEntity, CastWithoutTarget

LEMMA ProgramsDiffer == AttackEntity # CastWithoutTarget
  BY DEF AttackEntity, CastWithoutTarget

LEMMA SharedBegins == ASSUME CallsAssumption, Init PROVE SharedInvariant
  <1>1. CallInvariant
    BY CallsBegin
  <1>2. Orderly
    BY DEF Init, Orderly, PageHeld, OneAtATime, Busy
  <1>3. chosen = global /\ \A c \in Calls : thread[c] = 0
    BY DEF Init
  <1>4. GlobalsKnown
    BY <1>3 DEF GlobalsKnown, HoverKnown, AimKnown, Attacking, Globals
  <1> QED
    BY <1>1, <1>2, <1>4 DEF SharedInvariant

\* What a thread of the launcher does for one call leaves the others' pages alone,
\* and no two calls of one thread are busy at once.
LEMMA CallerOrderly ==
    ASSUME CallsAssumption, CallInvariant, Orderly, NEW c \in Calls, Caller(c)
    PROVE  Orderly'
  <1> USE DEF CallInvariant, TypeOK
  <1>0. CallFacts(c) /\ PageHeld(c) /\ request' = request
    BY DEF Orderly, Caller, Begin, Write, Start, TimesOut, Free
  <1>1. ASSUME NEW d \in Calls, d # c PROVE PageHeld(d)'
    <2>1. call'[d] = call[d] /\ page'[d] = page[d] /\ thread'[d] = thread[d]
      BY <1>1 DEF Caller, Begin, Write, Start, TimesOut, Free, GameVars
    <2> QED
      BY <2>1 DEF Orderly, PageHeld
  <1>2. PageHeld(c)'
    <2> USE <1>0 DEF PageHeld, CallFacts, StartedRuns, FreedAtEnd
    <2>1. CASE Begin(c)
      BY <2>1 DEF Begin, MayBegin, GameVars
    <2>2. CASE Write(c)
      BY <2>2 DEF Write, GameVars
    <2>3. CASE Start(c)
      BY <2>3 DEF Start
    <2>4. CASE TimesOut(c)
      BY <2>4 DEF TimesOut, Expires, GameVars
    <2>5. CASE Free(c)
      BY <2>5 DEF Free, MayFree, Result, GameVars
    <2> QED
      BY <2>1, <2>2, <2>3, <2>4, <2>5 DEF Caller
  <1>3. OneAtATime'
    <2>1. CASE Begin(c)
      <3>1. \A d \in Calls : Owner(d) = Owner(c) => ~Busy(d)
        BY <2>1 DEF Begin, MayBegin
      <3>2. \A d \in Calls : d # c => (Busy(d)' <=> Busy(d))
        BY <2>1 DEF Begin, Busy
      <3> QED
        BY <1>0, <3>1, <3>2 DEF Orderly, OneAtATime, Owner
    <2>2. CASE ~Begin(c)
      <3>1. Busy(c) /\ \A d \in Calls : d # c => (Busy(d)' <=> Busy(d))
        BY <2>2 DEF Caller, Write, Start, TimesOut, Expires, Free, MayFree, Busy
      <3> QED
        BY <1>0, <3>1 DEF Orderly, OneAtATime, Owner
    <2> QED
      BY <2>1, <2>2
  <1> QED
    BY <1>1, <1>2, <1>3 DEF Orderly

\* It starts a thread before the first instruction, and a page that it frees under
\* an attack leaves the attack where it is.
LEMMA CallerGlobals ==
    ASSUME CallsAssumption, CallInvariant, GlobalsKnown, NEW c \in Calls, Caller(c)
    PROVE  GlobalsKnown'
  <1> USE DEF CallInvariant, TypeOK
  <1>1. /\ request' = request /\ saved' = saved /\ global' = global /\ chosen' = chosen
        /\ touched' = touched
    BY DEF Caller, Begin, Write, Start, TimesOut, Free, GameVars
  <1>2. ASSUME NEW d \in Calls
        PROVE  thread'[d] = thread[d] \/ (thread[d] = 0 /\ thread'[d] = 1)
    BY DEF Caller, Begin, Write, Start, TimesOut, Free, GameVars, CallFacts, StartedRuns
  <1>3. ASSUME NEW d \in Calls, page[d] = "freed" \/ page'[d] = "written", thread[d] # 0
        PROVE  page'[d] = page[d]
    BY <1>3 DEF Caller, Begin, Write, Start, TimesOut, Expires, Free, MayBegin, MayFree, GameVars,
       CallFacts, FreedAtEnd, StartedRuns
  <1>4. HoverKnown'
    <2>1. ASSUME NEW d \in Calls, Code(d)' = CastWithoutTarget, thread'[d] \in 2 .. 3
          PROVE  Code(d) = CastWithoutTarget /\ thread[d] \in 2 .. 3
      BY <1>1, <1>2, <2>1 DEF Code
    <2> QED
      BY <1>1, <2>1 DEF GlobalsKnown, HoverKnown
  <1>5. AimKnown'
    <2>1. \A d \in Calls : Attacking(d)' <=> Attacking(d)
      BY <1>1, <1>2 DEF Attacking, Code
    <2>2. Frozen => Frozen'
      BY <1>3, <2>1 DEF Frozen, Attacking
    <2>3. ASSUME NEW d \in Calls, Attacking(d), page'[d] = "written"
          PROVE  page[d] = "written" /\ thread'[d] = thread[d]
      BY <1>2, <1>3, <2>3 DEF Attacking
    <2>4. \A d \in Calls : Target(d)' = Target(d)
      BY <1>1 DEF Target
    <2> QED
      BY <1>1, <2>1, <2>2, <2>3, <2>4 DEF GlobalsKnown, AimKnown
  <1> QED
    BY <1>4, <1>5 DEF GlobalsKnown

\* While an attack can still be executed, no other can.
LEMMA AttacksAlone ==
    ASSUME CallsAssumption, CallInvariant, Orderly, NEW c \in Calls, NEW d \in Calls, c # d,
           Code(c) = AttackEntity, thread[c] # 0, page[c] = "written",
           Code(d) = AttackEntity, thread[d] # 0, page[d] = "written"
    PROVE  FALSE
  <1>1. CallFacts(c) /\ CallFacts(d) /\ PageHeld(c) /\ PageHeld(d) /\ TypeOK
    BY DEF CallInvariant, Orderly
  <1>2. Busy(c) /\ Busy(d)
    BY <1>1 DEF CallFacts, StartedRuns, PageHeld, Busy
  <1>3. Owner(c) = Owner(d)
    BY <1>1 DEF Owner, Code, CallsAssumption, TypeOK
  <1> QED
    BY <1>2, <1>3 DEF Orderly, OneAtATime

LEMMA GameShares ==
    ASSUME CallsAssumption, SharedInvariant, NEW c \in Calls, Executes(c)
    PROVE  Orderly' /\ GlobalsKnown'
  <1> USE DEF SharedInvariant, CallInvariant
  <1>1. /\ request' = request /\ call' = call /\ page' = page /\ chosen' = chosen
        /\ touched' = touched /\ page[c] = "written" /\ Running(c)
        /\ thread' = [thread EXCEPT ![c] = @ + 1]
        /\ saved' = [saved EXCEPT ![c] = IF Op(c) = "save" THEN global[GlobalOf(c)] ELSE @]
        /\ global' = IF Op(c) = "aim" THEN [global EXCEPT !["aim"] = Target(c)]
                     ELSE IF Op(c) = "restore" THEN [global EXCEPT ![GlobalOf(c)] = saved[c]]
                     ELSE global
    <2>1. Executes(c) /\ TypeOK
      OBVIOUS
    <2>2. saved = [saved EXCEPT ![c] = saved[c]]
      BY <2>1 DEF TypeOK
    <2>3. CASE Save(c)
      BY <2>1, <2>3 DEF Executes, Save, Advanced
    <2>4. CASE Aim(c)
      BY <2>1, <2>2, <2>4 DEF Executes, Aim, Advanced
    <2>5. CASE Act(c)
      BY <2>1, <2>2, <2>5 DEF Executes, Act, Advanced
    <2>6. CASE Restore(c)
      BY <2>1, <2>2, <2>6 DEF Executes, Restore, Restored, Advanced
    <2>7. CASE Return(c)
      BY <2>1, <2>2, <2>7 DEF Executes, Return, Advanced
    <2> QED
      BY <2>1, <2>3, <2>4, <2>5, <2>6, <2>7 DEF Executes
  <1>2. /\ thread[c] \in 1 .. 5 /\ thread'[c] = thread[c] + 1
        /\ \A d \in Calls : d # c => thread'[d] = thread[d] /\ saved'[d] = saved[d]
        /\ saved'[c] = IF Op(c) = "save" THEN global[GlobalOf(c)] ELSE saved[c]
        /\ global \in [Globals -> Targets]
    <2>1. thread[c] \in 1 .. 5
      BY <1>1, OpsAt
    <2> QED
      BY <1>1, <2>1 DEF TypeOK
  <1>3. \A d \in Calls : Code(d)' = Code(d) /\ Target(d)' = Target(d)
    BY <1>1 DEF Code, Target
  <1>4. Orderly'
    <2>1. ASSUME NEW d \in Calls PROVE PageHeld(d)'
      BY <1>1, <1>2 DEF Orderly, PageHeld
    <2>2. OneAtATime'
      BY <1>1 DEF Orderly, OneAtATime, Owner, Busy
    <2> QED
      BY <2>1, <2>2 DEF Orderly
  <1>5. \A d \in Calls : d # c => (Attacking(d)' <=> Attacking(d))
    BY <1>2, <1>3 DEF Attacking
  <1>6. CASE Code(c) = AttackEntity
    <2>1. /\ GlobalOf(c) = "aim" /\ global'["hover"] = global["hover"]
          /\ Op(c) = "save" => thread[c] = 1
          /\ Op(c) = "aim" => thread[c] = 2
          /\ Op(c) = "act" => thread[c] = 3
          /\ Op(c) = "restore" => thread[c] = 4
          /\ Op(c) = "ret" => ~(thread[c] \in 2 .. 4) /\ ~(thread'[c] \in 2 .. 4)
          /\ Op(c) \in {"save", "aim", "act", "restore", "ret"}
      <3>1. GlobalOf(c) = "aim"
        BY <1>6 DEF GlobalOf
      <3>2. Op(c) \in {"save", "aim", "act", "restore", "ret"}
        BY DEF Executes, Save, Aim, Act, Restore, Return
      <3> QED
        BY <1>1, <1>2, <1>6, <3>1, <3>2, OpsAt, ProgramsDiffer DEF Midway, Globals
    <2>2. HoverKnown'
      BY <1>1, <1>2, <1>3, <1>6, <2>1, ProgramsDiffer DEF GlobalsKnown, HoverKnown
    <2>3. ASSUME NEW d \in Calls, d # c, Attacking(d) PROVE page[d] = "freed"
      <3>1. page[d] \in {"written", "freed"} /\ thread[d] # 0 /\ Code(d) = AttackEntity
        BY <2>3 DEF Orderly, PageHeld, Attacking
      <3>2. thread[c] # 0
        BY <1>2
      <3> QED
        BY <1>1, <1>6, <2>3, <3>1, <3>2, AttacksAlone
    <2>4. AimKnown'
      <3> SUFFICES ASSUME "aim" \notin touched
                   PROVE  /\ \A d \in Calls : (Attacking(d) /\ page[d] = "written")' =>
                                /\ thread'[d] \in {3, 4} => global'["aim"] = Target(d)
                                /\ Frozen' \/ saved'[d] = chosen["aim"]
                          /\ (\E d \in Calls : Attacking(d)') \/ global'["aim"] = chosen["aim"]
        BY <1>1, <1>3 DEF AimKnown
      <3>1. Frozen <=> Frozen'
        BY <1>1, <1>5 DEF Frozen
      <3>2. Attacking(c) <=> thread[c] \in 2 .. 4
        BY <1>6 DEF Attacking
      <3>3. Attacking(c)' <=> thread[c] \in 1 .. 3
        BY <1>2, <1>3, <1>6 DEF Attacking
      <3>4. (\E d \in Calls : d # c /\ Attacking(d)) <=> Frozen
        BY <1>1, <2>3 DEF Frozen
      <3>5. /\ thread[c] \in {3, 4} => global["aim"] = Target(c)
            /\ thread[c] \in 2 .. 4 => Frozen \/ saved[c] = chosen["aim"]
            /\ thread[c] \notin 2 .. 4 => Frozen \/ global["aim"] = chosen["aim"]
        <4>1. Attacking(c) =>
                 /\ thread[c] \in {3, 4} => global["aim"] = Target(c)
                 /\ Frozen \/ saved[c] = chosen["aim"]
          BY <1>1 DEF GlobalsKnown, AimKnown
        <4>2. (\E d \in Calls : Attacking(d)) \/ global["aim"] = chosen["aim"]
          BY DEF GlobalsKnown, AimKnown
        <4>3. thread[c] \notin 2 .. 4 => Frozen \/ global["aim"] = chosen["aim"]
          BY <3>2, <3>4, <4>2
        <4> QED
          BY <1>2, <3>2, <4>1, <4>3
      <3>6. ASSUME Attacking(c)'
            PROVE  /\ thread'[c] \in {3, 4} => global'["aim"] = Target(c)
                   /\ Frozen' \/ saved'[c] = chosen["aim"]
        BY <1>1, <1>2, <2>1, <3>1, <3>3, <3>5, <3>6 DEF Globals
      <3>7. ASSUME NEW d \in Calls, d # c, Attacking(d)', page[d] = "written" PROVE FALSE
        BY <1>5, <2>3, <3>7
      <3>8. (\E d \in Calls : Attacking(d)') \/ global'["aim"] = chosen["aim"]
        <4>1. CASE thread[c] \in 1 .. 3
          BY <3>3, <4>1
        <4>2. CASE Frozen
          BY <1>5, <3>4, <4>2
        <4>3. CASE thread[c] \notin 1 .. 3 /\ ~Frozen
          BY <1>1, <1>2, <2>1, <3>5, <4>3 DEF Globals
        <4> QED
          BY <4>1, <4>2, <4>3
      <3> QED
        BY <1>1, <3>6, <3>7, <3>8
    <2> QED
      BY <1>4, <2>2, <2>4 DEF GlobalsKnown
  <1>7. CASE Code(c) # AttackEntity
    <2>1. GlobalOf(c) = "hover" /\ global'["aim"] = global["aim"]
      <3>1. GlobalOf(c) = "hover" /\ Op(c) # "aim"
        BY <1>1, <1>7, OpsAt DEF GlobalOf
      <3> QED
        BY <1>1, <1>2, <3>1 DEF Globals
    <2>2. \A d \in Calls : Attacking(d)' <=> Attacking(d)
      BY <1>3, <1>5, <1>7 DEF Attacking
    <2>3. AimKnown'
      <3>1. Frozen' <=> Frozen
        BY <1>1, <2>2 DEF Frozen
      <3>2. \A d \in Calls : Attacking(d) => d # c
        BY <1>7 DEF Attacking
      <3> QED
        BY <1>1, <1>2, <1>3, <2>1, <2>2, <3>1, <3>2 DEF GlobalsKnown, AimKnown
    <2>4. HoverKnown'
      <3> SUFFICES ASSUME "hover" \notin touched
                   PROVE  /\ global'["hover"] = chosen["hover"]
                          /\ \A d \in Calls : Code(d) = CastWithoutTarget /\ thread'[d] \in 2 .. 3
                                                 => saved'[d] = chosen["hover"]
        BY <1>1, <1>3 DEF HoverKnown
      <3>1. /\ global["hover"] = chosen["hover"]
            /\ \A d \in Calls : Code(d) = CastWithoutTarget /\ thread[d] \in 2 .. 3
                                   => saved[d] = chosen["hover"]
        BY DEF GlobalsKnown, HoverKnown
      <3>2. Op(c) = "restore" => saved[c] = chosen["hover"]
        BY <1>1, <1>7, <3>1, OpsAt
      <3>3. global'["hover"] = chosen["hover"]
        BY <1>1, <1>2, <1>7, <2>1, <3>1, <3>2, OpsAt DEF Globals
      <3>4. Code(c) = CastWithoutTarget /\ thread'[c] \in 2 .. 3 => saved'[c] = chosen["hover"]
        <4>1. Code(c) = CastWithoutTarget /\ thread[c] = 1 => Op(c) = "save"
          BY DEF Op, CastWithoutTarget
        <4> QED
          BY <1>2, <2>1, <3>1, <4>1
      <3> QED
        BY <1>2, <3>1, <3>3, <3>4
    <2> QED
      BY <1>4, <2>3, <2>4 DEF GlobalsKnown
  <1> QED
    BY <1>6, <1>7

\* A choice of the player in the middle of a call is remembered as such; one
\* between calls is the global's new value.
LEMMA PlayerShares ==
    ASSUME CallsAssumption, SharedInvariant, NEW g \in Globals, NEW t \in Targets,
           PlayerChooses(g, t)
    PROVE  GlobalsKnown'
  <1> USE DEF SharedInvariant, CallInvariant
  <1>1. /\ request' = request /\ page' = page /\ thread' = thread /\ saved' = saved
        /\ global' = [global EXCEPT ![g] = t] /\ chosen' = [chosen EXCEPT ![g] = t]
        /\ touched' = IF \E c \in Calls : GlobalOf(c) = g /\ Holds(c)
                      THEN touched \cup {g} ELSE touched \ {g}
    BY DEF PlayerChooses
  <1>2. /\ global \in [Globals -> Targets] /\ chosen \in [Globals -> Targets]
        /\ \A h \in Globals : h # g => global'[h] = global[h] /\ chosen'[h] = chosen[h]
        /\ global'[g] = t /\ chosen'[g] = t
    BY <1>1 DEF TypeOK
  <1>3. /\ \A c \in Calls : Code(c)' = Code(c) /\ Target(c)' = Target(c)
        /\ \A c \in Calls : Attacking(c)' <=> Attacking(c)
        /\ Frozen' <=> Frozen
    BY <1>1 DEF Code, Target, Attacking, Frozen
  <1>4. \A c \in Calls : Code(c) = CastWithoutTarget /\ thread[c] \in 2 .. 3
                             => GlobalOf(c) = "hover" /\ Holds(c)
    BY HoldsMidway, ProgramsDiffer DEF GlobalOf, Midway
  <1>5. \A c \in Calls : Attacking(c) => GlobalOf(c) = "aim" /\ Holds(c)
    BY HoldsMidway DEF GlobalOf, Midway, Attacking
  <1>6. HoverKnown'
    <2>1. CASE g = "hover"
      <3>1. "hover" \notin touched' =>
              \A c \in Calls : ~(Code(c) = CastWithoutTarget /\ thread[c] \in 2 .. 3)
        BY <1>1, <1>4, <2>1
      <3> QED
        BY <1>1, <1>2, <1>3, <2>1, <3>1 DEF HoverKnown
    <2>2. CASE g # "hover"
      <3>1. "hover" \in touched' <=> "hover" \in touched
        BY <1>1, <2>2
      <3> QED
        BY <1>1, <1>2, <1>3, <2>2, <3>1 DEF GlobalsKnown, HoverKnown, Globals
    <2> QED
      BY <2>1, <2>2
  <1>7. AimKnown'
    <2>1. CASE g = "aim"
      <3>1. "aim" \notin touched' => \A c \in Calls : ~Attacking(c)
        BY <1>1, <1>5, <2>1
      <3> QED
        BY <1>1, <1>2, <1>3, <2>1, <3>1 DEF AimKnown
    <2>2. CASE g # "aim"
      <3>1. "aim" \in touched' <=> "aim" \in touched
        BY <1>1, <2>2
      <3> QED
        BY <1>1, <1>2, <1>3, <2>2, <3>1 DEF GlobalsKnown, AimKnown, Globals
    <2> QED
      BY <2>1, <2>2
  <1> QED
    BY <1>6, <1>7 DEF GlobalsKnown

LEMMA SharedKeeps ==
    ASSUME CallsAssumption, SharedInvariant, [Next]_vars PROVE SharedInvariant'
  <1>1. CallInvariant'
    BY CallsKeep DEF SharedInvariant
  <1>2. CASE \E c \in Calls : Caller(c)
    BY <1>1, <1>2, CallerOrderly, CallerGlobals DEF SharedInvariant
  <1>3. CASE \E c \in Calls : Executes(c)
    BY <1>1, <1>3, GameShares DEF SharedInvariant
  <1>4. CASE \E g \in Globals, t \in Targets : PlayerChooses(g, t)
    <2>1. request' = request /\ call' = call /\ page' = page /\ thread' = thread
      BY <1>4 DEF PlayerChooses
    <2>2. Orderly'
      BY <2>1 DEF SharedInvariant, Orderly, PageHeld, OneAtATime, Owner, Busy
    <2> QED
      BY <1>1, <1>4, <2>2, PlayerShares DEF SharedInvariant
  <1>5. CASE GameEnds \/ (\E c \in Calls : Falls(c)) \/ UNCHANGED vars
    <2>1. /\ request' = request /\ call' = call /\ page' = page /\ thread' = thread
          /\ saved' = saved /\ global' = global /\ chosen' = chosen /\ touched' = touched
      BY <1>5 DEF GameEnds, Falls, GameVars, vars
    <2>2. Orderly'
      BY <2>1 DEF SharedInvariant, Orderly, PageHeld, OneAtATime, Owner, Busy
    <2>3. GlobalsKnown'
      BY <2>1 DEF SharedInvariant, GlobalsKnown, HoverKnown, AimKnown, Frozen, Attacking, Code,
         Target
    <2> QED
      BY <1>1, <2>2, <2>3 DEF SharedInvariant
  <1> QED
    BY <1>2, <1>3, <1>4, <1>5 DEF Next, Game

LEMMA SharedHolds == ASSUME CallsAssumption PROVE Spec => []SharedInvariant
  BY SharedBegins, SharedKeeps, PTL DEF Spec

LEMMA AimsRestored == ASSUME CallsAssumption, SharedInvariant PROVE AimComesBack
  <1> USE DEF SharedInvariant, CallInvariant
  <1> SUFFICES ASSUME NEW g \in Globals, \A c \in Calls : GlobalOf(c) = g => ~Holds(c),
                      g \notin touched
               PROVE  global[g] = chosen[g]
    BY DEF AimComesBack
  <1>1. CASE g = "hover"
    BY <1>1 DEF GlobalsKnown, HoverKnown
  <1>2. CASE g = "aim"
    <2>1. \A c \in Calls : ~Attacking(c)
      BY <1>2, HoldsMidway DEF GlobalOf, Midway, Attacking
    <2> QED
      BY <1>2, <2>1 DEF GlobalsKnown, AimKnown
  <1> QED
    BY <1>1, <1>2 DEF Globals

\* The player's own targets come back after the calls that had set them, however
\* many threads of the launcher call at the same time and whatever they give up.
THEOREM AimsComeBack == ASSUME CallsAssumption PROVE Spec => []AimComesBack
  BY AimsRestored, SharedHolds, PTL

LEMMA AttacksAim ==
    ASSUME CallsAssumption, SharedInvariant, [Next]_vars PROVE AttackKeepsTarget
  <1> USE DEF SharedInvariant, CallInvariant
  <1> SUFFICES ASSUME NEW c \in Calls, Code(c) = AttackEntity PROVE TurnedByPlayer(c)
    BY DEF AttackKeepsTarget
  <1>1. effect'[c] = effect[c] \/ (Executes(c) /\ Act(c))
    <2>1. CASE \E d \in Calls : Caller(d) \/ Falls(d)
      BY <2>1 DEF Caller, Begin, Write, Start, TimesOut, Free, Falls, GameVars
    <2>2. CASE \E d \in Calls : Executes(d)
      <3>1. PICK d \in Calls : Executes(d)
        BY <2>2
      <3>2. CASE Act(d) /\ d # c
        <4>1. PICK e : effect' = [effect EXCEPT ![d] = e]
          BY <3>2 DEF Act
        <4> QED
          BY <3>2, <4>1 DEF TypeOK
      <3>3. CASE Act(d) /\ d = c
        BY <3>1, <3>3
      <3>4. CASE ~Act(d)
        BY <3>1, <3>4 DEF Executes, Save, Aim, Restore, Return
      <3> QED
        BY <3>2, <3>3, <3>4
    <2>3. CASE GameEnds \/ (\E g \in Globals, t \in Targets : PlayerChooses(g, t)) \/ UNCHANGED vars
      BY <2>3 DEF GameEnds, PlayerChooses, GameVars, vars
    <2> QED
      BY <2>1, <2>2, <2>3 DEF Next, Game
  <1>2. CASE Executes(c) /\ Act(c)
    <2>1. Running(c) /\ page[c] = "written" /\ Op(c) = "act"
      BY <1>2 DEF Executes, Act
    <2>2. thread[c] = 3
      BY <2>1, OpsAt
    <2>3. effect[c] = {}
      <3>1. CallFacts(c) /\ ActAt(Code(c)) = 3
        BY DEF ActAt, AttackEntity, UseItem, CastWithoutTarget
      <3> QED
        BY <2>2, <3>1 DEF CallFacts, EffectByAct
    <2>4. "aim" \in touched \/ global["aim"] = Target(c)
      BY <2>1, <2>2 DEF GlobalsKnown, AimKnown, Attacking
    <2>5. effect'[c] = effect[c] \cup {global["aim"]}
      BY <1>2 DEF Act, TypeOK
    <2> QED
      BY <2>3, <2>4, <2>5 DEF TurnedByPlayer
  <1> QED
    BY <1>1, <1>2 DEF TurnedByPlayer

\* An attack of the bot goes to the target that it was made for, unless the player
\* has chosen one meanwhile: no call of another thread, and none that was given up,
\* turns it.
THEOREM AttacksKeepTarget == ASSUME CallsAssumption PROVE Spec => [][AttackKeepsTarget]_vars
  BY AttacksAim, SharedHolds, PTL DEF Spec
===============================================================================
