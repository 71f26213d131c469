------------------------------ MODULE ClientPatch ------------------------------
(***************************************************************************)
(* A patch of the game's code while the game runs, done once by the second    *)
(* stage of the launcher, or as often as the player clicks on the             *)
(* miscellaneous page, loads settings or ends the session (lhx_window:         *)
(* on_misc_change, apply_misc_tab, sync_*, restore_all_misc_patches).  The     *)
(* game may become unwritable at any moment, and other programs patch it too. *)
(*                                                                         *)
(* A patch is a program: a sequence of instructions, most of which look at a   *)
(* place in the game and write to it, or do not, by what they find there.      *)
(* Loops over many places of one kind are written for two of them.            *)
(***************************************************************************)
EXTENDS Integers, Sequences, FiniteSets


\* What is at a place: the game's own bytes, ours, a jump that somebody else
\* put there, or other bytes.
Bytes == {"game", "ours", "jump", "other"}

\* An instruction, with all that a place can be looked at for: what is there
\* is overwritten by "gives" if it is in "takes", is fine if in "passes" (and
\* then copied if it "keeps"), leads on to instruction "to" if in "away";
\* anything else is a miss.  A miss
\* ends the program, unless misses are counted; if the place cannot be read
\* it "hangs": the program ends and leaves the game's threads as they are.
Nothing == [do |-> "site", at |-> 1, takes |-> {}, gives |-> "ours", passes |-> {},
            away |-> {}, to |-> 0, keeps |-> FALSE, counted |-> FALSE, hangs |-> FALSE]

Plain(what) == [Nothing EXCEPT !.do = what]
Alloc == Plain("alloc")       \* a page for code in the game
Code == Plain("code")         \* writes it
Freeze == Plain("freeze")     \* suspends the game's threads
Thaw == Plain("thaw")
Remember == Plain("remember") \* STATE becomes Some, with the copy
Forget == Plain("forget")     \* STATE.take()
SomeHit == Plain("some")      \* fails if no counted write succeeded
AllHit == Plain("all")        \* fails if a counted write failed

Need(s) == [Nothing EXCEPT !.at = s, !.passes = {"game"}]
NoJump(s) == [Nothing EXCEPT !.at = s, !.passes = {"game", "other"}]
Keep(s) == [NoJump(s) EXCEPT !.keeps = TRUE]
Unless(s, n) == [Nothing EXCEPT !.at = s, !.passes = {"game"}, !.away = Bytes \ {"game"}, !.to = n]
UnlessJump(s, n) ==
    [Nothing EXCEPT !.at = s, !.passes = {"game", "other"}, !.away = {"jump", "ours"}, !.to = n]
Adopt(s, n) == [Nothing EXCEPT !.at = s, !.passes = {"game"}, !.away = {"ours"}, !.to = n]
Put(s) == [Nothing EXCEPT !.at = s, !.takes = Bytes]
Must(s) == [Nothing EXCEPT !.at = s, !.takes = {"game"}, !.passes = {"ours"}]
Swap(s) == [Nothing EXCEPT !.at = s, !.takes = {"game"}, !.passes = Bytes \ {"game"}]
Try(s) == [Nothing EXCEPT !.at = s, !.takes = {"game"}, !.counted = TRUE]
Force(s) == [Put(s) EXCEPT !.counted = TRUE]
Unhook(s) == [Nothing EXCEPT !.at = s, !.takes = {"jump", "ours"}, !.gives = "game", !.passes = {"game"}]
Check(s) == [Nothing EXCEPT !.at = s, !.passes = {"ours"}, !.hangs = TRUE]
PutBack(s) == [Put(s) EXCEPT !.gives = "back"]

\* A wrong version, to show that the properties can fail.
RestoreAny(s) == [Put(s) EXCEPT !.gives = "game"]

\* restore_hook, restore, restore_fixed_hook: only what was ours is overwritten.
Restore(s) == [Nothing EXCEPT !.at = s, !.takes = {"ours"}, !.gives = "game", !.passes = {"game"}]

-------------------------------------------------------------------------------
(* Patches that the player switches on the miscellaneous page.               *)

\* PeekMessageA: the bytes found are run in the page, and put back blindly.
LowCpuOn == <<Keep(1), Alloc, Code, Put(1), Remember>>
LowCpuOff == <<Forget, PutBack(1)>>

\* A wrong version, to show that the properties can fail.
ClockForgotten == <<Forget, Restore(1)>>

ShowClockOn == <<Adopt(1, 3), Put(1), Remember>>
ShowClockOff == <<Restore(1), Forget>>

\* A wrong version, to show that the properties can fail.
AttackSitesFirst == <<Need(1), Need(2), Alloc, Put(1), Put(2), Code, Remember>>

AttackDamageOn == <<Need(1), Need(2), Alloc, Code, Put(1), Put(2), Remember>>

\* A wrong version, to show that the properties can fail.
AttackHalfRestored == <<Forget, Restore(2)>>

AttackDamageOff == <<Forget, Restore(2), Restore(1)>>

FeetOn == <<Need(1), Need(2), Need(3), Need(4), Alloc, Code,
            Put(1), Put(2), Put(3), Put(4), Remember>>
FeetOff == <<Forget, Restore(4), Restore(3), Restore(2), Restore(1)>>

\* Places 1: the name; 2: the hovered name and the overhead text, where only
\* what older versions left is undone; 3, 4: the drawing of the selected name.
NameHook == <<Need(1), Alloc, Code, Put(1)>>
SelectedHooks == <<Need(3), Need(4), Alloc, Code, Alloc, Code, Put(3), Put(4)>>
MonsterColorOn == NameHook \o <<Unhook(2), Unhook(3), Unhook(4)>> \o SelectedHooks \o <<Remember>>
MonsterColorOff == <<Forget, Restore(3), Restore(4), Unhook(2), Restore(1)>>

-------------------------------------------------------------------------------
(* Patches of the second stage of the launcher, made once.                   *)

\* wait_and_patch; place 1 is the mark that tells that the game is decrypted.
TimeGuard == <<Adopt(1, 3), Put(1), Freeze, Put(2), Check(1), Check(2), Thaw>>

\* connect and WSAConnect, each unless somebody has hooked it.
ConnectHook == <<Freeze, UnlessJump(1, 6), Alloc, Code, Put(1), UnlessJump(2, 10), Alloc, Code, Put(2), Thaw>>

\* The three places are tried, whatever becomes of the first.
LoginHooks == <<Alloc, Code, Freeze, Force(1), Force(2), Force(3), Thaw, AllHit>>

AcCheck == <<Swap(1), Swap(2)>>
CrtWatson == <<Swap(1)>>
ChatWidth == <<Swap(1)>>
ImgLimit == <<Swap(1), Swap(2)>>
PngLimit == <<Swap(1), Swap(2), Swap(3)>>
InventoryLimit == <<Swap(1)>>

\* Drawing, then blitting, which is left alone if it does not look right.
ImgHover == <<Need(1), Alloc, Code, Freeze, Put(1), Thaw,
              Unless(2, 13), Alloc, Code, Freeze, Force(2), Thaw>>

\* The parser, then those calls of the loader that are direct.
DynamicDialog == <<Need(1), Alloc, Code, Freeze, Put(1), Try(2), Try(3), SomeHit, Thaw, Remember>>

\* Three patches; what does not look right is skipped.
ServerIndex == <<Unless(1, 7), Alloc, Code, Freeze, Put(1), Thaw>>
SetupSlots == <<Unless(2, 13), Unless(3, 13), Alloc, Code, Put(2), Put(3)>>
SurfBounds == <<Swap(4)>>
EquipUi == ServerIndex \o SetupSlots \o SurfBounds

\* Phase by phase: the formats; calls and instructions that read the packet;
\* locals of the handlers; the two setters (3, 4) and getters (5, 6), unless
\* the first getter was patched before; callers; instructions found by a scan.
FormatStrings == <<Swap(1)>>
ReadD == <<Alloc, Code, Swap(2)>>
HandlerLocals == <<Swap(2)>>
CharSelect == <<Unless(5, 14), Alloc, Code, Put(3), Code, Put(4), Put(5), Put(6)>>
GetterCallers == <<Swap(2)>>
ReadsToDword == <<Swap(7)>>
WritesToDword == <<Swap(8)>>
HpMp == FormatStrings \o ReadD \o HandlerLocals \o CharSelect \o GetterCallers
            \o ReadsToDword \o WritesToDword

SmoothRunHook == <<Unless(1, 7), Alloc, Code, Freeze, Put(1), Thaw>>
NotificationHook == <<Need(1), Alloc, Code, Freeze, Put(1), Thaw, Remember>>

\* A wrong version, to show that the properties can fail.
ServerThawedEarly == <<Need(1), Need(2), Alloc, Code, Freeze, Put(1), Thaw, Put(2), Remember>>

ServerPacketHook == <<Need(1), Need(2), Alloc, Code, Freeze, Put(1), Put(2), Thaw, Remember>>
SendSpy == <<NoJump(1), Alloc, Code, Put(1)>>
MoveNoEncrypt == <<Must(1), Must(2)>>

-------------------------------------------------------------------------------
(* The patches, and the game while they run.                                *)

VARIABLES
    name,      \* the patch this is about
    site,      \* what is at each of its places
    coded,     \* the page that was allocated last holds its code
    frozen,    \* the game's threads are suspended
    state,     \* STATE: None, or the bytes that were copied
    run,       \* the program that runs, its next instruction, counted writes, the copy
    page,      \* the settings of the page; "shown" while a session is on
    writable,  \* the game can be read and written
    failed,    \* history: a program failed, or a write of it
    hung,      \* history: it failed where it leaves the threads as they are
    foreign,   \* history: places where others have been
    came       \* history: when: before, while a program ran, or after

vars == <<name, site, coded, frozen, state, run, page, writable, failed, hung, foreign, came>>

Once(on, sites, together) ==
    [on |-> on, off |-> <<>>, sites |-> sites, together |-> together, box |-> "none"]
Switched(on, off, sites, box) ==
    [on |-> on, off |-> off, sites |-> sites, together |-> {}, box |-> box]

\* The sites of "together" are written while the threads are suspended, so that
\* no thread of the game meets one without the others.
Patches ==
    [n \in {"lowCpu", "showClock", "attackDamage", "feet", "monsterColor", "timeGuard",
           "connect", "login", "acCheck", "crtWatson", "chatWidth", "imgLimit",
           "pngLimit", "inventory", "imgHover", "dynamicDialog", "equipUi", "hpMp",
           "smoothRun", "notification", "serverPacket", "sendSpy", "moveNoEncrypt"} |->
         CASE n = "lowCpu" -> Switched(LowCpuOn, LowCpuOff, 1, "other")
           [] n = "showClock" -> Switched(ShowClockOn, ShowClockOff, 1, "other")
           [] n = "attackDamage" -> Switched(AttackDamageOn, AttackDamageOff, 2, "damage")
           [] n = "feet" -> Switched(FeetOn, FeetOff, 4, "feet")
           [] n = "monsterColor" -> Switched(MonsterColorOn, MonsterColorOff, 4, "other")
           [] n = "timeGuard" -> Once(TimeGuard, 2, {})
           [] n = "connect" -> Once(ConnectHook, 2, {1, 2})
           [] n = "login" -> Once(LoginHooks, 3, {1, 2, 3})
           [] n = "acCheck" -> Once(AcCheck, 2, {})
           [] n = "crtWatson" -> Once(CrtWatson, 1, {})
           [] n = "chatWidth" -> Once(ChatWidth, 1, {})
           [] n = "imgLimit" -> Once(ImgLimit, 2, {})
           [] n = "pngLimit" -> Once(PngLimit, 3, {})
           [] n = "inventory" -> Once(InventoryLimit, 1, {})
           [] n = "imgHover" -> Once(ImgHover, 2, {})
           [] n = "dynamicDialog" -> Once(DynamicDialog, 3, {1, 2, 3})
           [] n = "equipUi" -> Once(EquipUi, 4, {})
           [] n = "hpMp" -> Once(HpMp, 8, {})
           [] n = "smoothRun" -> Once(SmoothRunHook, 1, {})
           [] n = "notification" -> Once(NotificationHook, 1, {})
           [] n = "serverPacket" -> Once(ServerPacketHook, 2, {1, 2})
           [] n = "sendSpy" -> Once(SendSpy, 1, {})
           [] n = "moveNoEncrypt" -> Once(MoveNoEncrypt, 2, {})]

Patch == Patches[name]
Places == 1 .. Patch.sites
OnPage == Patch.box # "none"

Boxes == {"head", "feet", "other"}
Wanted(p) ==
    p.shown /\ CASE Patch.box = "damage" -> p.head \/ p.feet
                 [] Patch.box = "feet" -> p.feet
                 [] OTHER -> p.other

Idle == [does |-> "none", next |-> 1, hits |-> 0, misses |-> 0, found |-> "game"]
Runs(what) == [Idle EXCEPT !.does = what]
NotShown == [b \in Boxes \cup {"shown"} |-> FALSE]

Program == IF run.does = "off" THEN Patch.off ELSE Patch.on
Op == Program[run.next]
Busy == run.does # "none"
installed == state # "none"

TypeOK ==
    /\ name \in DOMAIN Patches /\ site \in [Places -> Bytes \cup {"wild"}]
    /\ coded \in BOOLEAN /\ frozen \in BOOLEAN /\ state \in Bytes \cup {"none"}
    /\ run \in [does : {"none", "on", "off"}, next : 1 .. Len(Program), hits : 0 .. 3, misses : 0 .. 3,
                found : Bytes]
    /\ page \in [Boxes \cup {"shown"} -> BOOLEAN]
    /\ writable \in BOOLEAN /\ failed \in BOOLEAN /\ hung \in BOOLEAN
    /\ foreign \subseteq Places /\ came \in {"never", "before", "during", "after"}

Init ==
    /\ name \in DOMAIN Patches
    /\ \E f \in {{}} \cup {{s} : s \in Places}, b \in {"jump", "other"} :
          /\ foreign = f /\ came = IF f = {} THEN "never" ELSE "before"
          /\ site = [s \in Places |-> IF s \in f THEN b ELSE "game"]
    /\ coded = TRUE /\ frozen = FALSE /\ state = "none"
    /\ run = IF OnPage THEN Idle ELSE Runs("on")
    /\ page = NotShown /\ writable = TRUE /\ failed = FALSE /\ hung = FALSE

-------------------------------------------------------------------------------
(* The page, the session, the game.                                           *)

\* sync_*: what is wanted is compared with STATE.
Sync(p) ==
    /\ page' = p
    /\ run' = IF Wanted(p) = installed THEN run ELSE Runs(IF installed THEN "off" ELSE "on")

\* A wrong version, to show that the properties below can fail.
HeadFirst(p) == IF p.head /\ p.feet THEN [p EXCEPT !.feet = FALSE] ELSE p

\* The two places for the damage exclude each other: the new one wins.
Exclusive(p) ==
    IF p.head /\ p.feet
    THEN [p EXCEPT !.head = ~page.head, !.feet = page.head]
    ELSE p

Click(b) ==
    /\ ~Busy /\ OnPage /\ page.shown
    /\ Sync(Exclusive([page EXCEPT ![b] = ~page[b]]))
    /\ UNCHANGED <<name, site, coded, frozen, state, writable, failed, hung, foreign, came>>

Load(p) ==
    /\ ~Busy /\ OnPage /\ p.shown
    /\ Sync(p)
    /\ UNCHANGED <<name, site, coded, frozen, state, writable, failed, hung, foreign, came>>

SessionEnds ==
    /\ ~Busy /\ page.shown
    /\ Sync(NotShown)
    /\ UNCHANGED <<name, site, coded, frozen, state, writable, failed, hung, foreign, came>>

WritableChanges ==
    /\ writable' = ~writable
    /\ UNCHANGED <<name, site, coded, frozen, state, run, page, failed, hung, foreign, came>>

\* Another program takes a place, for good.
Intrudes(s) ==
    /\ foreign = {} /\ foreign' = {s}
    /\ came' = IF Busy THEN "during" ELSE IF installed THEN "after" ELSE "before"
    /\ \E b \in {"jump", "other"} : site' = [site EXCEPT ![s] = b]
    /\ UNCHANGED <<name, coded, frozen, state, run, page, writable, failed, hung>>

-------------------------------------------------------------------------------
(* The instructions.                                                          *)

Goes(to, r) == run' = IF to > Len(Program) THEN Idle ELSE [r EXCEPT !.next = to]
GoesOn == Goes(run.next + 1, run)

\* A wrong version, to show that the properties below can fail.
FailsFrozen ==
    /\ run' = Idle /\ failed' = TRUE
    /\ UNCHANGED <<name, site, coded, frozen, state, page, writable, hung, foreign, came>>

\* Failing ends a program and lets the threads go on.
Fails ==
    /\ run' = Idle /\ frozen' = FALSE /\ failed' = TRUE
    /\ UNCHANGED <<name, site, coded, state, page, writable, hung, foreign, came>>

Same == UNCHANGED <<name, page, writable, failed, hung, foreign, came>>

IsDo(what) == Busy /\ Op.do = what

\* A wrong version, to show that the properties below can fail.
GivenAsShipped == IF Op.gives = "ours" THEN IF coded THEN "ours" ELSE "wild" ELSE "game"

\* What a jump of ours leads to is code, if the page was written before.
\* The bytes to put back are those that were copied, whatever is there now.
Given ==
    CASE Op.gives = "ours" -> IF coded THEN "ours" ELSE "wild"
      [] Op.gives = "back" -> run.found
      [] OTHER -> "game"

Writes ==
    /\ IsDo("site") /\ writable /\ site[Op.at] \in Op.takes
    /\ site' = [site EXCEPT ![Op.at] = Given]
    /\ Goes(run.next + 1, IF Op.counted THEN [run EXCEPT !.hits = run.hits + 1] ELSE run)
    /\ Same /\ UNCHANGED <<coded, frozen, state>>

Passes ==
    /\ IsDo("site") /\ writable /\ site[Op.at] \in Op.passes \ Op.takes
    /\ Goes(run.next + 1, IF Op.keeps THEN [run EXCEPT !.found = site[Op.at]] ELSE run)
    /\ Same /\ UNCHANGED <<site, coded, frozen, state>>

LeadsAway ==
    /\ IsDo("site") /\ writable /\ site[Op.at] \in Op.away
    /\ Goes(Op.to, run)
    /\ Same /\ UNCHANGED <<site, coded, frozen, state>>

Misses ==
    /\ IsDo("site")
    /\ writable => site[Op.at] \notin Op.takes \cup Op.passes \cup Op.away
    /\ \/ /\ Op.counted
          /\ Goes(run.next + 1, [run EXCEPT !.misses = run.misses + 1])
          /\ failed' = TRUE
          /\ UNCHANGED <<name, page, writable, hung, foreign, came, site, coded, frozen, state>>
       \/ ~Op.counted /\ (writable \/ ~Op.hangs) /\ Fails

Hangs ==
    /\ IsDo("site") /\ ~writable /\ Op.hangs
    /\ run' = Idle /\ failed' = TRUE /\ hung' = TRUE
    /\ UNCHANGED <<name, site, coded, frozen, state, page, writable, foreign, came>>

Page ==
    \/ /\ IsDo("alloc") /\ writable /\ coded' = FALSE /\ GoesOn
       /\ Same /\ UNCHANGED <<site, frozen, state>>
    \/ /\ IsDo("code") /\ writable /\ coded' = TRUE /\ GoesOn
       /\ Same /\ UNCHANGED <<site, frozen, state>>
    \/ (IsDo("alloc") \/ IsDo("code")) /\ ~writable /\ Fails

Threads ==
    /\ IsDo("freeze") \/ IsDo("thaw")
    /\ frozen' = (Op.do = "freeze") /\ GoesOn
    /\ Same /\ UNCHANGED <<site, coded, state>>

State ==
    /\ \/ IsDo("remember") /\ state' = run.found /\ GoesOn
       \/ IsDo("forget") /\ state' = "none" /\ Goes(run.next + 1, [run EXCEPT !.found = state])
    /\ Same /\ UNCHANGED <<site, coded, frozen>>

Counts ==
    LET well == IF Op.do = "some" THEN run.hits > 0 ELSE run.misses = 0
    IN  /\ IsDo("some") \/ IsDo("all")
        /\ IF well THEN GoesOn /\ Same /\ UNCHANGED <<site, coded, frozen, state>> ELSE Fails

Runner ==
    \/ Writes \/ Passes \/ LeadsAway \/ Misses \/ Hangs
    \/ Page \/ Threads \/ State \/ Counts

Next ==
    \/ Runner \/ SessionEnds \/ WritableChanges
    \/ \E b \in Boxes : Click(b)
    \/ \E p \in [Boxes \cup {"shown"} -> BOOLEAN] : Load(p)
    \/ \E s \in Places : Intrudes(s)

Spec == Init /\ [][Next]_vars

-------------------------------------------------------------------------------
\* The game never jumps into a page that its code has not been written to.
JumpsLand == \A s \in Places : site[s] # "wild"

\* The game's threads run again after every patch, with one exception: the
\* check of the first patch, wait_and_patch, could not read the game.
ThreadsGoOn == ~Busy => (frozen <=> hung)

\* No thread of the game meets a part of what is to be patched together,
\* unless somebody else was there before or a write failed.
MetTogether ==
    LET ours == {s \in Patch.together : site[s] = "ours"}
    IN  frozen \/ failed \/ foreign # {} \/ ours \in {{}, Patch.together}

\* What others have written stays, but for jumps at the places that an older
\* version of the launcher used, for places they take between the look at them
\* and the write, for what is run in the page in place of the game's own bytes,
\* and for the patches that do not look: PeekMessageA when it is put back, the
\* second word of the time guard, the login, and what follows the first getter.
\* But those who were in PeekMessageA before it was patched come back.
Careless == {"lowCpu", "timeGuard", "login", "hpMp"}
Relocating == {"connect", "sendSpy"}
OthersStay ==
    /\ \A s \in Places :
          site[s] \in {"jump", "other"} /\ site'[s] # site[s] =>
              \/ name \in Careless \/ came = "during"
              \/ name \in Relocating /\ site[s] = "other"
              \/ name = "monsterColor" /\ s # 1 /\ site[s] = "jump"
    /\ name = "lowCpu" /\ came = "before" => site'[1] # "game"

\* The code of the game is what the page says unless something has failed or
\* somebody interfered: from then on most patches can be neither repaired nor
\* taken back.
Aim == {Patch.on[o].at : o \in {o \in 1 .. Len(Patch.on) : Patch.on[o].takes # {} /\ Patch.on[o].gives = "ours"}}
Whole == \A s \in Aim : site[s] = "ours"
Clean == \A s \in Places : site[s] # "ours"
Undisturbed == ~failed /\ foreign = {}
Wants == IF OnPage THEN Wanted(page) ELSE TRUE
MatchesPage == ~Busy /\ Undisturbed => IF Wants THEN Whole ELSE Clean

\* The clock knows what it is even then, so that another click repairs it.
ClockKnows == name = "showClock" /\ ~Busy /\ foreign = {} => (installed <=> Whole)

\* The last click counts: a box that was clicked on is on, and never are both
\* places for the damage on but after a load.
ClickCounts ==
    \A b \in Boxes : Click(b) =>
        /\ ~page[b] => page'[b]
        /\ ~(page'.head /\ page'.feet)
===============================================================================
