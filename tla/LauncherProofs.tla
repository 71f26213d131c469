---------------------------- MODULE LauncherProofs ----------------------------
(***************************************************************************)
(* What the launcher's threads and processes guarantee for every number of   *)
(* places, objects, games and packages, every list of features, and every     *)
(* conversation through the proxy.                                            *)
(***************************************************************************)
EXTENDS MCLauncher, Integers, FiniteSetTheorems, TLAPS

-----------------------------------------------------------------------------
(* Stage 2.                                                                *)

\* The file hook's thread suspends the game only between its two steps.
FileHolds == Stage!Lives /\ "file" \in s9 => s4 = "writes"
\* While the game is packed nobody has got further than to look.
OnlyLooks ==
    s1 = "packed" => /\ s3.at \in {"connects", "spawns", "waits", "failed"}
                     /\ s4 \in {"none", "polls", "ended"}

\* The file hook's thread is started after the first hook is there.
NotYet == s3.at \in {"connects", "spawns"} => s4 = "none"

StageInvariant ==
    /\ Stage!TypeOK /\ NotYet /\ FileHolds /\ OnlyLooks
    /\ Stage!GameGoesOn /\ Stage!NotWhilePacked


MainSteps == {"connects", "spawns", "waits", "freezes", "writes", "checks", "features",
              "bot", "home", "stays", "stops"} \cup Stage!Exits
MainType == [at : MainSteps, next : 1 .. Len(Extras) + 1]
StagePast == [faults : 0 .. MaxFaults, torn : BOOLEAN, raced : BOOLEAN, gaveUp : BOOLEAN]
TextType == [page : {"simplified", "other"}, holds : BOOLEAN, tooltip : {"polls", "samples", "ended"}]
ThreadsOK ==
    /\ s4 \in {"none", "polls", "freezes", "writes", "ended"}
    /\ s5 \in {"none", "polls", "ended"} /\ s6 \in {"none", "waits", "ended"}
    /\ s7 \in {"none", "listens", "ended"}

StageParts ==
    /\ s1 \in {"packed", "plain", "world", "gone"} /\ s2 \in Wishes
    /\ s3 \in MainType /\ ThreadsOK /\ s8 \in BOOLEAN /\ s11 \in TextType
    /\ s9 \subseteq {"main", "file"} /\ s10 \subseteq Stage!Names /\ s12 \in StagePast

LEMMA StageTypes == (Stage!TypeOK <=> StageParts) /\ (Stage!TypeOK' <=> StageParts')
  BY DEF Stage!TypeOK, StageParts, MainType, MainSteps, ThreadsOK, StagePast, TextType

LEMMA NamesAre ==
    /\ {"connect", "time", "file", "late", "tooltip"} \subseteq Stage!Names
    /\ \A i \in 1 .. Len(Extras) : Extras[i].name \in Stage!Names
  BY DEF Stage!Names

LEMMA StageBegins == ASSUME Stage!Stage2Assumption, Stage!Init PROVE StageInvariant
  <1>1. s2 \in Wishes
    BY DEF Stage!Init
  <1>2. s3 \in MainType
    BY DEF Stage!Stage2Assumption, Stage!Init, MainType, MainSteps
  <1>3. s11 \in TextType
    BY DEF Stage!Init, TextType
  <1>4. s12 \in StagePast
    BY DEF Stage!Stage2Assumption, Stage!Init, StagePast
  <1>5. Stage!TypeOK
    BY <1>1, <1>2, <1>3, <1>4, StageTypes DEF StageParts, Stage!Init, ThreadsOK
  <1> QED
    BY <1>5 DEF Stage!Init, StageInvariant, NotYet, FileHolds, OnlyLooks, Stage!GameGoesOn, Stage!NotWhilePacked,
       Stage!Lives, Stage!Exits

\* The next step of the main thread, a failure, and the end of the process keep the types.
LEMMA StageGoes == ASSUME s3 \in MainType, NEW at \in MainSteps, Stage!Goes(at) PROVE s3' \in MainType
  BY DEF Stage!Goes, MainType

LEMMA StageFault ==
    ASSUME Stage!Stage2Assumption, s12 \in StagePast, Stage!MayFail
    PROVE  /\ Stage!Fault \in StagePast /\ [Stage!Fault EXCEPT !.torn = TRUE] \in StagePast
  <1>1. CASE s1 = "gone"
    BY <1>1 DEF Stage!Fault, StagePast
  <1>2. CASE s1 # "gone" /\ s12.faults < MaxFaults
    <2>1. s12.faults + 1 \in 0 .. MaxFaults
      BY <1>2 DEF StagePast, Stage!Stage2Assumption
    <2> QED
      BY <1>2, <2>1 DEF Stage!Fault, StagePast
  <1> QED
    BY <1>1, <1>2 DEF Stage!MayFail

LEMMA StageLeaves ==
    ASSUME s3 \in MainType, NEW how \in Stage!Exits, NEW then \in StagePast, Stage!Leaves(how, then)
    PROVE  s3' \in MainType /\ ThreadsOK' /\ s12' \in StagePast
  <1>1. s3' \in MainType
    BY StageGoes DEF Stage!Leaves, MainSteps
  <1>2. ThreadsOK'
    BY DEF Stage!Leaves, ThreadsOK
  <1>3. s12' \in StagePast
    BY DEF Stage!Leaves, StagePast
  <1> QED
    BY <1>1, <1>2, <1>3

LEMMA StageMainTypes ==
    ASSUME Stage!Stage2Assumption, Stage!TypeOK, Stage!Main PROVE Stage!TypeOK'
  <1> USE StageTypes DEF StageParts, Stage!Rest, Stage!Threads
  <1>0. /\ s1' = s1 /\ s2' = s2 /\ s11' = s11
    BY DEF Stage!Main, Stage!Connects, Stage!Spawns, Stage!Waits, Stage!Freezes, Stage!Writes, Stage!Checks,
       Stage!Installs, Stage!Installed, Stage!StartsBot, Stage!StaysOrNot, Stage!Stays, Stage!Stops
  <1>1. ASSUME NEW f \in BOOLEAN, Stage!Connects(f) PROVE Stage!TypeOK'
    BY <1>0, <1>1, StageGoes, StageFault, StageLeaves, NamesAre DEF Stage!Connects, MainSteps, ThreadsOK, Stage!Exits
  <1>2. CASE Stage!Spawns \/ Stage!Freezes \/ Stage!StaysOrNot \/ Stage!Installed \/ Stage!Stays
    <2>1. s3' \in MainType
      BY <1>2, StageGoes DEF Stage!Spawns, Stage!Freezes, Stage!StaysOrNot, Stage!Installed, Stage!Stays, MainSteps
    <2>2. ThreadsOK' /\ s8' = s8 /\ s9' \subseteq {"main", "file"} /\ s10' = s10 /\ s12' = s12
      BY <1>2 DEF Stage!Spawns, Stage!Freezes, Stage!StaysOrNot, Stage!Installed, Stage!Stays, ThreadsOK
    <2> QED
      BY <1>0, <2>1, <2>2
  <1>3. CASE Stage!Waits \/ Stage!Stops
    BY <1>0, <1>3, StageGoes, StageLeaves, NamesAre DEF Stage!Waits, Stage!Stops, MainSteps, ThreadsOK, Stage!Exits
  <1>4. ASSUME NEW f \in BOOLEAN, Stage!Writes(f) \/ Stage!Checks(f) PROVE Stage!TypeOK'
    BY <1>0, <1>4, StageGoes, StageFault, StageLeaves
       DEF Stage!Writes, Stage!Checks, Stage!Thawed, MainSteps, ThreadsOK, Stage!Exits
  <1>5. ASSUME NEW f \in BOOLEAN, Stage!Installs(f) PROVE Stage!TypeOK'
    <2>1. [s3 EXCEPT !.next = @ + 1] \in MainType
      BY <1>5 DEF Stage!Installs, MainType, Stage!Stage2Assumption
    <2>2. s10' \subseteq Stage!Names /\ s8' = s8 /\ s9' = s9
      BY <1>5, NamesAre DEF Stage!Installs, Stage!Feature, MainType
    <2>3. CASE f /\ Stage!Wanted(Stage!Feature) /\ Stage!Feature.fatal
      BY <1>0, <1>5, <2>2, <2>3, StageFault, StageLeaves DEF Stage!Installs, Stage!Exits
    <2>4. CASE ~(f /\ Stage!Wanted(Stage!Feature) /\ Stage!Feature.fatal)
      BY <1>0, <1>5, <2>1, <2>2, <2>4, StageFault DEF Stage!Installs, ThreadsOK
    <2> QED
      BY <2>3, <2>4
  <1>6. ASSUME NEW f \in BOOLEAN, Stage!StartsBot(f) PROVE Stage!TypeOK'
    <2>1. s3' \in MainType
      BY <1>6, StageGoes DEF Stage!StartsBot, MainSteps
    <2>2. s8' \in BOOLEAN
      <3>1. CASE s8' = s8
        BY ONLY <3>1, StageTypes, Stage!TypeOK DEF StageParts
      <3>2. CASE s8' = ("bot" \in s2)
        BY ONLY <3>2
      <3> QED
        BY <1>6, <3>1, <3>2 DEF Stage!StartsBot
    <2> QED
      BY <1>0, <1>6, <2>1, <2>2, StageFault DEF Stage!StartsBot, ThreadsOK
  <1> QED
    BY <1>1, <1>2, <1>3, <1>4, <1>5, <1>6 DEF Stage!Main

LEMMA StageOthersTypes ==
    ASSUME Stage!Stage2Assumption, Stage!TypeOK, Stage!Next, ~Stage!Main PROVE Stage!TypeOK'
  <1> USE StageTypes DEF StageParts, Stage!Rest, Stage!Alone, Stage!TextsAlone, Stage!Threads
  <1>1. CASE Stage!File
    BY <1>1, StageFault, NamesAre DEF ThreadsOK, Stage!File, Stage!FilePolls, Stage!FileFreezes, Stage!FileWrites
  <1>2. ASSUME NEW f \in BOOLEAN, Stage!LatePatches(f) PROVE Stage!TypeOK'
    <2>1. [s12 EXCEPT !.gaveUp = TRUE] \in StagePast
      BY DEF StagePast
    <2> QED
      BY <1>2, <2>1, StageFault, NamesAre DEF ThreadsOK, Stage!LatePatches
  <1>3. CASE Stage!HoverPolls \/ Stage!HomeEnds \/ Stage!Game
    BY <1>3 DEF ThreadsOK, Stage!HoverPolls, Stage!HomeEnds, Stage!Game
  <1>4. CASE Stage!HoldsPage \/ Stage!StopsHolding \/ Stage!SeesPage \/ Stage!GivesUp
    <2>1. s11' \in TextType
      BY <1>4 DEF Stage!HoldsPage, Stage!StopsHolding, Stage!SeesPage, Stage!GivesUp, TextType
    <2> QED
      BY <1>4, <2>1 DEF ThreadsOK, Stage!HoldsPage, Stage!StopsHolding, Stage!SeesPage, Stage!GivesUp
  <1>5. ASSUME NEW f \in BOOLEAN, Stage!Samples(f) PROVE Stage!TypeOK'
    <2>1. s11' \in TextType
      BY <1>5 DEF Stage!Samples, TextType
    <2> QED
      BY <1>5, <2>1, StageFault, NamesAre DEF ThreadsOK, Stage!Samples
  <1>6. CASE Stage!SetsPage
    <2>1. s2 \in Wishes => Pages[s2] \subseteq {"simplified", "other"}
      BY DEF Stage!Stage2Assumption
    <2> QED
      BY <1>6, <2>1 DEF ThreadsOK, Stage!SetsPage, TextType
  <1> QED
    BY <1>1, <1>2, <1>3, <1>4, <1>5, <1>6 DEF Stage!Next, Stage!Late, Stage!Texts

LEMMA StageWent == ASSUME s3 \in MainType, NEW at \in MainSteps, Stage!Goes(at) PROVE s3'.at = at
  BY DEF Stage!Goes, MainType

\* What is said of the game's threads and of its code, without the types.
StageSafe == NotYet /\ FileHolds /\ OnlyLooks /\ Stage!GameGoesOn /\ Stage!NotWhilePacked

\* The process may end if it has let go of the game, or says that it has not.
LEMMA StageLeft ==
    ASSUME StageInvariant, s3.at \notin Stage!Exits, s1' = s1, s10' = s10, s9' \subseteq s9,
           NEW how \in Stage!Exits, NEW then \in StagePast, Stage!Leaves(how, then),
           s1 = "packed" => how = "failed",
           ~then.torn => "main" \notin s9'
    PROVE  StageSafe'
  <1>1. s3 \in MainType /\ s9 \subseteq {"main", "file"}
    BY StageTypes DEF StageInvariant, StageParts
  <1>2. s3'.at = how /\ s4' = "ended"
    BY <1>1 DEF Stage!Leaves, Stage!Goes, MainType
  <1>3. s12'.torn = then.torn /\ ("file" \in s9 => s12'.raced)
    BY DEF Stage!Leaves, StagePast
  <1>4. Stage!GameGoesOn'
    BY <1>1, <1>2, <1>3 DEF Stage!GameGoesOn, Stage!Lives
  <1> QED
    BY <1>2, <1>4 DEF StageSafe, StageInvariant, NotYet, FileHolds, OnlyLooks, Stage!NotWhilePacked, Stage!Lives, Stage!Exits

LEMMA StageFaultIs ==
    ASSUME s12 \in StagePast PROVE Stage!Fault.torn = s12.torn /\ [Stage!Fault EXCEPT !.torn = TRUE].torn
  BY DEF Stage!Fault, StagePast

\* The process goes on: what it has installed it has installed in a game that is unpacked.
LEMMA StageWentOn ==
    ASSUME StageInvariant, s1' = s1, NEW at \in MainSteps \ Stage!Exits, s3'.at = at, s4' = s4,
           s1 = "packed" => at \in {"connects", "spawns", "waits"} /\ s10' \subseteq s10 \cup {"connect"},
           "file" \in s9' => "file" \in s9, s3.at \notin Stage!Exits,
           at \in {"connects", "spawns"} => s4 = "none",
           at \notin {"writes", "checks"} => "main" \notin s9'
    PROVE  StageSafe'
  BY DEF StageSafe, StageInvariant, NotYet, FileHolds, OnlyLooks, Stage!GameGoesOn, Stage!NotWhilePacked, Stage!Lives

LEMMA StageMainKeeps ==
    ASSUME Stage!Stage2Assumption, StageInvariant, Stage!Main PROVE StageSafe'
  <1>0. /\ s3 \in MainType /\ s12 \in StagePast /\ s3.at \in MainSteps
        /\ (s3.at \notin Stage!Exits /\ s3.at \notin {"writes", "checks"} => "main" \notin s9)
        /\ (s1 = "packed" => s3.at \in {"connects", "spawns", "waits", "failed"})
        /\ (s3.at \in {"connects", "spawns"} => s4 = "none")
    BY StageTypes DEF StageParts, StageInvariant, NotYet, OnlyLooks, Stage!GameGoesOn, Stage!Lives, MainType
  <1>f. Stage!MayFail => Stage!Fault \in StagePast /\ [Stage!Fault EXCEPT !.torn = TRUE] \in StagePast
    BY <1>0, StageFault
  <1>t. [Stage!Fault EXCEPT !.torn = TRUE].torn
    BY <1>0, StageFaultIs
  <1> DEFINE Here(at) == s3'.at = at /\ at \in MainSteps
  <1>g. \A at \in MainSteps : Stage!Goes(at) => s3'.at = at
    BY <1>0, StageWent
  <1>1. ASSUME NEW f \in BOOLEAN, Stage!Connects(f) PROVE StageSafe'
    <2>1. s3.at = "connects" /\ s1' = s1 /\ s9' = s9
      BY <1>1 DEF Stage!Connects, Stage!Rest
    <2>2. CASE f /\ "connect" \in s2
      <3>1. Stage!MayFail /\ Stage!Leaves("failed", Stage!Fault) /\ s10' = s10
        BY <1>1, <2>2 DEF Stage!Connects
      <3> QED
        BY <1>0, <1>f, <2>1, <3>1, StageLeft DEF Stage!Exits
    <2>3. CASE ~(f /\ "connect" \in s2)
      <3>1. s3'.at = "spawns" /\ s4' = s4 /\ s10' \subseteq s10 \cup {"connect"}
        BY <1>1, <1>g, <2>3 DEF Stage!Connects, Stage!Threads, MainSteps
      <3> QED
        BY <1>0, <2>1, <3>1, StageWentOn DEF MainSteps, Stage!Exits
    <2> QED
      BY <2>2, <2>3
  <1>2. CASE Stage!Spawns
    <2>1. s3.at = "spawns" /\ s3'.at = "waits" /\ s4' \in {"polls", "none"}
      BY <1>2, <1>g DEF Stage!Spawns, MainSteps
    <2> QED
      BY <1>0, <1>2, <2>1 DEF Stage!Spawns, Stage!Rest, StageSafe, StageInvariant, NotYet, FileHolds, OnlyLooks,
         Stage!GameGoesOn, Stage!NotWhilePacked, Stage!Lives, Stage!Exits
  <1>3. CASE Stage!Waits
    <2>1. s3.at = "waits" /\ s1' = s1 /\ s9' = s9
      BY <1>3 DEF Stage!Waits, Stage!Rest
    <2>2. CASE Stage!Decrypted
      <3>1. s3'.at = "freezes" /\ s4' = s4 /\ s1 # "packed"
        BY <1>3, <1>g, <2>2 DEF Stage!Waits, Stage!Threads, MainSteps, Stage!Decrypted
      <3> QED
        BY <1>0, <2>1, <3>1, StageWentOn DEF MainSteps, Stage!Exits
    <2>3. CASE ~Stage!Decrypted
      BY <1>0, <1>3, <2>1, <2>3, StageLeft DEF Stage!Waits, Stage!Exits
    <2> QED
      BY <2>2, <2>3
  <1>4. CASE Stage!Freezes
    <2>1. /\ s3.at = "freezes" /\ s3'.at = "writes" /\ s1' = s1 /\ s4' = s4 /\ s10' = s10
          /\ s9' = s9 \cup {"main"}
      BY <1>4, <1>g DEF Stage!Freezes, Stage!Rest, Stage!Threads, MainSteps
    <2> QED
      BY <1>0, <2>1, StageWentOn DEF MainSteps, Stage!Exits
  <1>5. ASSUME NEW f \in BOOLEAN, Stage!Writes(f) \/ Stage!Checks(f) PROVE StageSafe'
    <2>1. s3.at \in {"writes", "checks"} /\ s1' = s1 /\ s10' = s10 /\ s9' \subseteq s9
      BY <1>5 DEF Stage!Writes, Stage!Checks, Stage!Rest, Stage!Thawed
    <2>2. CASE Stage!Writes(f) /\ f
      BY <1>0, <1>f, <2>1, <2>2, StageLeft DEF Stage!Writes, Stage!Exits, Stage!Thawed
    <2>3. CASE Stage!Checks(f) /\ f
      BY <1>0, <1>f, <1>t, <2>1, <2>3, StageLeft DEF Stage!Checks, Stage!Exits
    <2>4. CASE ~f
      <3>1. /\ s3'.at \in {"checks", "features"} /\ s4' = s4
            /\ (s3'.at = "features" => "main" \notin s9')
        BY <1>5, <1>g, <2>4 DEF Stage!Writes, Stage!Checks, Stage!Threads, MainSteps, Stage!Thawed
      <3> QED
        BY <1>0, <2>1, <3>1, StageWentOn DEF MainSteps, Stage!Exits
    <2> QED
      BY <1>5, <2>2, <2>3, <2>4
  <1>6. ASSUME NEW f \in BOOLEAN, Stage!Installs(f) PROVE StageSafe'
    <2>1. s3.at = "features" /\ s9' = s9 /\ s1' = s1
      BY <1>6 DEF Stage!Installs, Stage!Rest
    <2>2. CASE f /\ Stage!Wanted(Stage!Feature) /\ Stage!Feature.fatal
      <3>1. Stage!MayFail /\ Stage!Leaves("failed", Stage!Fault) /\ s10' = s10
        BY <1>6, <2>2 DEF Stage!Installs
      <3> QED
        BY <1>0, <1>f, <2>1, <3>1, StageLeft DEF Stage!Exits
    <2>3. CASE ~(f /\ Stage!Wanted(Stage!Feature) /\ Stage!Feature.fatal)
      <3>1. s3'.at = "features" /\ s4' = s4
        BY <1>0, <1>6, <2>1, <2>3 DEF Stage!Installs, Stage!Threads, MainType
      <3> QED
        BY <1>0, <2>1, <3>1, StageWentOn DEF MainSteps, Stage!Exits
    <2> QED
      BY <2>2, <2>3
  <1>7. CASE Stage!Installed \/ Stage!StaysOrNot \/ Stage!Stays \/ \E f \in BOOLEAN : Stage!StartsBot(f)
    <2>1. /\ s3.at \in {"features", "home", "stays", "bot"} /\ s3'.at \in {"bot", "stays", "stops", "home"}
          /\ s1' = s1 /\ s4' = s4 /\ s9' = s9 /\ s10' = s10
      BY <1>7, <1>g DEF Stage!Installed, Stage!StaysOrNot, Stage!Stays, Stage!StartsBot, Stage!Rest, Stage!Threads,
         MainSteps
    <2> QED
      BY <1>0, <2>1, StageWentOn DEF MainSteps, Stage!Exits
  <1>8. CASE Stage!Stops
    BY <1>0, <1>8, StageLeft DEF Stage!Stops, Stage!Rest, Stage!Exits
  <1> QED
    BY <1>1, <1>2, <1>3, <1>4, <1>5, <1>6, <1>7, <1>8 DEF Stage!Main

LEMMA StageKeeps ==
    ASSUME Stage!Stage2Assumption, StageInvariant, [Stage!Next]_(Stage!vars) PROVE StageInvariant'
  <1>1. CASE UNCHANGED Stage!vars
    BY <1>1 DEF Stage!vars, StageInvariant, Stage!TypeOK, NotYet, FileHolds, OnlyLooks, Stage!GameGoesOn,
       Stage!NotWhilePacked, Stage!Lives
  <1>2. CASE Stage!Next
    <2>1. Stage!TypeOK'
      BY <1>2, StageMainTypes, StageOthersTypes DEF StageInvariant
    <2>2. s3 \in MainType /\ s12 \in StagePast /\ s12' \in StagePast
      BY <2>1, StageTypes DEF StageParts, StageInvariant
    <2>3. CASE Stage!Main
      BY <2>1, <2>3, StageMainKeeps DEF StageSafe, StageInvariant
    <2> USE DEF StageInvariant, StageSafe, NotYet, FileHolds, OnlyLooks, Stage!GameGoesOn, Stage!NotWhilePacked,
                Stage!Lives, Stage!Exits, Stage!Rest, Stage!Threads
    <2>4. CASE Stage!File
      <3>1. s1' = s1 /\ s3' = s3 /\ s3.at \notin Stage!Exits
        BY <2>4 DEF Stage!File, Stage!FilePolls, Stage!FileFreezes, Stage!FileWrites, Stage!Alone
      <3>2. CASE Stage!FilePolls \/ Stage!FileFreezes
        BY <2>1, <2>2, <3>1, <3>2 DEF Stage!FilePolls, Stage!FileFreezes, Stage!Decrypted
      <3>3. ASSUME NEW f \in BOOLEAN, Stage!FileWrites(f) PROVE StageInvariant'
        BY <2>1, <2>2, <3>1, <3>3 DEF Stage!FileWrites
      <3> QED
        BY <2>4, <3>2, <3>3 DEF Stage!File
    <2>5. CASE Stage!Late \/ Stage!HoverPolls \/ Stage!HomeEnds \/ Stage!Game
      BY <2>1, <2>2, <2>5 DEF Stage!Late, Stage!LatePatches, Stage!HoverPolls, Stage!HomeEnds, Stage!Game,
         Stage!Fault, StagePast
    <2>6. CASE Stage!Texts \/ Stage!SetsPage
      BY <2>1, <2>2, <2>6 DEF Stage!Texts, Stage!HoldsPage, Stage!StopsHolding, Stage!SeesPage, Stage!GivesUp,
         Stage!Samples, Stage!SetsPage, Stage!TextsAlone, Stage!SampleIsOriginal, Stage!Decrypted, Stage!Fault,
         StagePast
    <2> QED
      BY <1>2, <2>3, <2>4, <2>5, <2>6 DEF Stage!Next
  <1> QED
    BY <1>1, <1>2
-----------------------------------------------------------------------------
(* The window.  s1 to s9 are page, shown, queue, running, launch, game,    *)
(* update, disk, past.                                                     *)

\* What the events in the queue do to the page and the window.
Kind(event) ==
    CASE event.is = "lock" -> IF event.to THEN "lock" ELSE "unlock"
      [] event.is = "visible" -> IF event.to THEN "show" ELSE "hide"
      [] OTHER -> event.is
Kinds == [i \in 1 .. Len(s3) |-> Kind(s3[i])]
Positions == 1 .. Len(s3)
Queued(kinds) == \E i \in Positions : Kinds[i] \in kinds
Lockers == {"prompt", "launch", "lock"}

Runners == {"creates", "schedules", "waits", "returns", "fails"}
Engaged(c) == s5[c] \in Runners \cup {"closes"}
Installs == s7.at \notin {"none", "pending"}
Active == Installs \/ \E c \in Clicks : Engaged(c)

\* Nothing goes on without a window, and before its page is ready the player can
\* only close it.
AtRest == s7.at \in {"none", "pending"} /\ \A c \in Clicks : s5[c] = "none"
QuietAtFirst ==
    /\ s1 = "gone" => AtRest /\ Len(s3) = 0
    /\ s1 = "blank" => AtRest /\ \A i \in Positions : Kinds[i] = "close"

\* The update is asked for once.
PromptedOnce ==
    \A i \in Positions : Kinds[i] = "prompt" =>
        s7.at = "pending" /\ s1 # "blank" /\ \A j \in Positions : Kinds[j] = "prompt" => j = i

\* What has hidden the window or locked the page ends with an event that shows it,
\* unlocks it or closes the process.
RunningRuns == s4 => \E c \in Clicks : s5[c] \in Runners
WillShow ==
    /\ s1 # "gone" /\ ~s2 => (\E c \in Clicks : Engaged(c)) \/ Queued({"show", "close"})
    /\ \A i \in Positions : Kinds[i] = "hide" =>
          (\E c \in Clicks : Engaged(c)) \/ \E j \in Positions : i < j /\ Kinds[j] \in {"show", "close"}
WillUnlock ==
    /\ s1 = "locked" => Active \/ Queued({"unlock", "close"})
    /\ \A i \in Positions : Kinds[i] = "lock" =>
          Active \/ \E j \in Positions : i < j /\ Kinds[j] \in {"unlock", "close"}

\* A player who is not hasty does not click between an event that is about to lock
\* the page and the end of what it locks it for.
OneOfAKind ==
    /\ \A i, j \in Positions : Kinds[i] \in Lockers /\ Kinds[j] \in Lockers => i = j
    /\ \A i, j \in Positions : Kinds[i] = "unlock" /\ Kinds[j] = "unlock" => i = j
    /\ \A i, j \in Positions : Kinds[i] \in Lockers /\ Kinds[j] = "unlock" => Kinds[i] = "lock" /\ i < j
LocksFit ==
    /\ s1 = "free" /\ Queued({"unlock"}) => Queued({"lock"})
    /\ s1 = "locked" => ~Queued(Lockers)
    /\ Active => ~Queued({"unlock"}) /\ (s1 = "locked" \/ Queued({"lock"}))
OneActive ==
    /\ Installs => \A c \in Clicks : ~Engaged(c)
    /\ \A c, d \in Clicks : Engaged(c) /\ Engaged(d) => c = d
    /\ \A c \in Clicks : s5[c] \in Runners => s4
Unhurried == ~s9.hasty => OneOfAKind /\ LocksFit /\ OneActive

\* A game that needs the process has a thread in it that waits.
GamesAreWaitedFor ==
    Proxy /\ ~s9.hasty /\ ~s9.orphan /\ s1 # "gone" => \A c \in Clicks : s6[c] = "runs" => s5[c] \in {"schedules", "waits"}

\* An update goes on from the recorded version, package by package.
Fresh == s8.recorded + 1
UpdateGoesOn ==
    /\ s7.at \in {"pending", "begins", "downloads", "extracts", "eats", "records"} => s8.recorded < s8.offered
    /\ s7.at \in {"downloads", "extracts"} =>
          /\ s7.from = s8.recorded /\ s7.version \in Fresh .. s8.offered
          /\ Fresh .. s7.version - 1 \subseteq s8.extracted
    /\ s7.at \in {"eats", "records"} => s8.last = s8.offered /\ Fresh .. s8.offered \subseteq s8.extracted
    /\ s7.at = "records" => 1 .. s8.offered \subseteq s8.eaten

WindowInvariant ==
    /\ Window!TypeOK /\ QuietAtFirst /\ PromptedOnce
    /\ RunningRuns /\ WillShow /\ WillUnlock
    /\ Unhurried /\ GamesAreWaitedFor /\ Window!ProxyStays
    /\ UpdateGoesOn /\ Window!RecordedIsEaten /\ Window!NoOldFiles

-----------------------------------------------------------------------------
WindowParts ==
    /\ s1 \in {"gone", "blank", "free", "locked"} /\ s2 \in BOOLEAN /\ s3 \in Seq(Window!Events)
    /\ s4 \in BOOLEAN
    /\ s5 \in [Clicks -> {"none", "queued", "closes"} \cup Runners]
    /\ s6 \in [Clicks -> {"none", "runs", "ended"}]

UpdateType ==
    [at : Window!Steps, from : 0 .. s8.offered, version : 0 .. s8.offered + 1, percent : 0 .. 100]
DiskType ==
    [offered : Offers, recorded : 0 .. s8.offered, last : 0 .. s8.offered,
     extracted : SUBSET (1 .. s8.offered), eaten : SUBSET (1 .. s8.offered)]
PastType ==
    [starts : 0 .. MaxStarts[s8.offered], closes : 0 .. MaxCloses, faults : 0 .. MaxFaults,
     hasty : BOOLEAN, orphan : BOOLEAN]
WindowRecords == s7 \in UpdateType /\ s8 \in DiskType /\ s8.eaten \subseteq s8.extracted /\ s9 \in PastType

LEMMA WindowTypes ==
    (Window!TypeOK <=> WindowParts /\ WindowRecords) /\ (Window!TypeOK' <=> WindowParts' /\ WindowRecords')
  BY DEF Window!TypeOK, WindowParts, WindowRecords, UpdateType, DiskType, PastType, Runners, Window!Target

LEMMA EventKinds ==
    /\ \A c \in Clicks : [is |-> "launch", c |-> c] \in Window!Events /\ Kind([is |-> "launch", c |-> c]) = "launch"
    /\ \A k \in {"prompt", "close"} : [is |-> k] \in Window!Events /\ Kind([is |-> k]) = k
    /\ \A b \in BOOLEAN :
          /\ [is |-> "lock", to |-> b] \in Window!Events /\ [is |-> "visible", to |-> b] \in Window!Events
          /\ Kind([is |-> "lock", to |-> b]) = IF b THEN "lock" ELSE "unlock"
          /\ Kind([is |-> "visible", to |-> b]) = IF b THEN "show" ELSE "hide"
  BY DEF Window!Events, Kind

LEMMA KindsAre ==
    ASSUME NEW e \in Window!Events
    PROVE  /\ Kind(e) \in {"prompt", "close", "launch", "lock", "unlock", "show", "hide"}
           /\ \A k \in {"prompt", "close", "launch"} : e.is = k <=> Kind(e) = k
           /\ e.is = "launch" => e.c \in Clicks
           /\ e.is = "lock" => e.to \in BOOLEAN /\ Kind(e) = IF e.to THEN "lock" ELSE "unlock"
           /\ e.is = "visible" => e.to \in BOOLEAN /\ Kind(e) = IF e.to THEN "show" ELSE "hide"
           /\ e = [is |-> "lock", to |-> TRUE] <=> Kind(e) = "lock"
  <1>1. CASE e \in [is : {"prompt", "close"}]
    <2>1. e.is \in {"prompt", "close"} /\ e # [is |-> "lock", to |-> TRUE]
      BY <1>1
    <2> QED
      BY <2>1 DEF Kind
  <1>2. CASE e \in [is : {"launch"}, c : Clicks]
    <2>1. e.is = "launch" /\ e.c \in Clicks /\ e # [is |-> "lock", to |-> TRUE]
      BY <1>2
    <2> QED
      BY <2>1 DEF Kind
  <1>3. CASE e \in [is : {"lock", "visible"}, to : BOOLEAN]
    <2>1. e.is \in {"lock", "visible"} /\ e.to \in BOOLEAN /\ e = [is |-> e.is, to |-> e.to]
      BY <1>3
    <2>2. CASE e.is = "lock" /\ e.to = TRUE
      BY <2>1, <2>2 DEF Kind
    <2>3. CASE e.is = "lock" /\ e.to = FALSE
      <3>1. Kind(e) = "unlock" /\ e # [is |-> "lock", to |-> TRUE]
        BY <2>3 DEF Kind
      <3> QED
        BY <2>3, <3>1
    <2>4. CASE e.is = "visible"
      <3>1. Kind(e) = (IF e.to THEN "show" ELSE "hide") /\ e # [is |-> "lock", to |-> TRUE]
        BY <2>4 DEF Kind
      <3> QED
        BY <2>1, <2>4, <3>1
    <2> QED
      BY <2>1, <2>2, <2>3, <2>4
  <1> QED
    BY <1>1, <1>2, <1>3 DEF Window!Events

\* What an event at the end, or the end of the first, does to the kinds.
Appended(k) ==
    /\ Len(s3') = Len(s3) + 1 /\ Kinds'[Len(s3) + 1] = k
    /\ \A i \in Positions : Kinds'[i] = Kinds[i]
Dropped(k) ==
    /\ Len(s3) > 0 /\ Kinds[1] = k /\ Len(s3') = Len(s3) - 1
    /\ \A i \in 1 .. Len(s3) - 1 : Kinds'[i] = Kinds[i + 1]
Turned(k) ==
    /\ Len(s3) > 0 /\ Kinds[1] = k /\ Len(s3') = Len(s3) /\ Kinds'[Len(s3)] = "lock"
    /\ \A i \in 1 .. Len(s3) - 1 : Kinds'[i] = Kinds[i + 1]

LEMMA QueueAppended ==
    ASSUME s3 \in Seq(Window!Events), NEW e \in Window!Events, s3' = Append(s3, e)
    PROVE  s3' \in Seq(Window!Events) /\ Appended(Kind(e))
  BY DEF Appended, Kinds, Positions

LEMMA QueueDropped ==
    ASSUME s3 \in Seq(Window!Events), s3 # <<>>, s3' = Tail(s3)
    PROVE  s3' \in Seq(Window!Events) /\ Dropped(Kind(Head(s3)))
  BY DEF Dropped, Kinds, Positions

LEMMA QueueTurned ==
    ASSUME s3 \in Seq(Window!Events), s3 # <<>>, s3' = Append(Tail(s3), [is |-> "lock", to |-> TRUE])
    PROVE  s3' \in Seq(Window!Events) /\ Turned(Kind(Head(s3)))
  <1>1. [is |-> "lock", to |-> TRUE] \in Window!Events /\ Kind([is |-> "lock", to |-> TRUE]) = "lock"
    BY EventKinds
  <1>2. /\ Tail(s3) \in Seq(Window!Events) /\ Len(Tail(s3)) = Len(s3) - 1 /\ Len(s3) > 0
        /\ \A i \in 1 .. Len(s3) - 1 : Tail(s3)[i] = s3[i + 1]
    OBVIOUS
  <1>3. /\ s3' \in Seq(Window!Events) /\ Len(s3') = Len(s3) /\ s3'[Len(s3)] = [is |-> "lock", to |-> TRUE]
        /\ \A i \in 1 .. Len(s3) - 1 : s3'[i] = s3[i + 1]
    BY <1>1, <1>2
  <1>4. Len(s3) \in Nat /\ Head(s3) = s3[1]
    OBVIOUS
  <1>5. \A i \in 1 .. Len(s3) : Kinds[i] = Kind(s3[i]) /\ Kinds'[i] = Kind(s3'[i])
    BY <1>3 DEF Kinds
  <1>6. \A i \in 1 .. Len(s3) - 1 : i \in 1 .. Len(s3) /\ i + 1 \in 1 .. Len(s3)
    BY <1>4
  <1>7. 1 \in 1 .. Len(s3) /\ Len(s3) \in 1 .. Len(s3)
    BY <1>2, <1>4
  <1> QED
    BY <1>1, <1>2, <1>3, <1>4, <1>5, <1>6, <1>7 DEF Turned

LEMMA KindsTyped ==
    ASSUME s3 \in Seq(Window!Events)
    PROVE  /\ Len(s3) \in Nat /\ (s3 = <<>> <=> Len(s3) = 0)
           /\ \A i \in Positions : Kinds[i] \in {"prompt", "close", "launch", "lock", "unlock", "show", "hide"}
           /\ s3 # <<>> => Kinds[1] = Kind(Head(s3)) /\ Head(s3) \in Window!Events
  <1>1. \A i \in Positions : s3[i] \in Window!Events /\ Kinds[i] = Kind(s3[i])
    BY DEF Positions, Kinds
  <1>2. Len(s3) \in Nat /\ (s3 = <<>> <=> Len(s3) = 0)
    OBVIOUS
  <1>3. s3 # <<>> => Kinds[1] = Kind(Head(s3)) /\ Head(s3) \in Window!Events
    BY DEF Kinds
  <1> QED
    BY <1>1, <1>2, <1>3, KindsAre

QueueInvariant == QuietAtFirst /\ PromptedOnce /\ RunningRuns /\ WillShow /\ WillUnlock
Locking == QueueInvariant /\ Unhurried

\* Steps that neither the queue nor the page sees.
SameThreads ==
    \A c \in Clicks : /\ s5'[c] \in Runners <=> s5[c] \in Runners
                      /\ s5'[c] = "closes" <=> s5[c] = "closes"
                      /\ s5'[c] = "none" <=> s5[c] = "none"
SameUpdate == (s7'.at = "none" <=> s7.at = "none") /\ (s7'.at = "pending" <=> s7.at = "pending")

LEMMA UnseenKeeps ==
    ASSUME WindowParts, Locking, s1' = s1, s2' = s2, s3' = s3, s4' = s4, s9'.hasty = s9.hasty,
           SameThreads, SameUpdate
    PROVE  Locking'
  <1>1. Kinds' = Kinds /\ Positions' = Positions
    BY DEF Kinds, Positions
  <1>2. \A c \in Clicks : Engaged(c)' <=> Engaged(c)
    BY DEF SameThreads, Engaged
  <1>3. (Installs' <=> Installs) /\ (Active' <=> Active) /\ (AtRest' <=> AtRest)
    BY <1>2 DEF SameUpdate, SameThreads, Installs, Active, AtRest
  <1>4. QuietAtFirst' /\ PromptedOnce' /\ RunningRuns'
    BY <1>1, <1>2, <1>3 DEF Locking, QueueInvariant, QuietAtFirst, PromptedOnce, RunningRuns, SameThreads, SameUpdate
  <1>5. WillShow' /\ WillUnlock'
    BY <1>1, <1>2, <1>3 DEF Locking, QueueInvariant, WillShow, WillUnlock, Queued
  <1>6. Unhurried'
    BY <1>1, <1>2, <1>3 DEF Locking, Unhurried, OneOfAKind, LocksFit, OneActive, Queued, SameThreads
  <1> QED
    BY <1>4, <1>5, <1>6 DEF Locking, QueueInvariant

LEMMA StartLocking ==
    ASSUME WindowParts, Locking, NEW f \in BOOLEAN, Window!Start(f), s7 \in UpdateType PROVE Locking'
  <1>1. /\ s1' = "blank" /\ s2' = TRUE /\ s3' = <<>> /\ s4' = FALSE /\ s7'.at \in {"none", "pending"}
        /\ \A c \in Clicks : s5'[c] = "none"
    BY DEF Window!Start, Window!NoUpdate
  <1>2. Positions' = {} /\ Len(s3') = 0
    BY <1>1 DEF Positions
  <1>3. AtRest' /\ ~Active' /\ ~Installs' /\ \A c \in Clicks : ~Engaged(c)' /\ s5'[c] \notin Runners
    BY <1>1 DEF AtRest, Active, Installs, Engaged, Runners
  <1>4. QueueInvariant'
    BY <1>1, <1>2, <1>3 DEF QueueInvariant, QuietAtFirst, PromptedOnce, RunningRuns, WillShow, WillUnlock
  <1>5. Unhurried'
    BY <1>1, <1>2, <1>3 DEF Unhurried, OneOfAKind, LocksFit, OneActive, Queued
  <1> QED
    BY <1>4, <1>5 DEF Locking

LEMMA ReadyLocking == ASSUME WindowParts, Locking, Window!Ready PROVE Locking'
  <1>1. /\ s1 = "blank" /\ s1' = "free" /\ s2' = s2 /\ s4' = s4 /\ s5' = s5 /\ s7' = s7 /\ s9' = s9
        /\ AtRest /\ \A i \in Positions : Kinds[i] = "close"
    BY DEF Window!Ready, Locking, QueueInvariant, QuietAtFirst
  <1>2. AtRest' /\ ~Active' /\ ~Installs' /\ \A c \in Clicks : ~Engaged(c)' /\ s5'[c] \notin Runners
    BY <1>1 DEF AtRest, Active, Installs, Engaged, Runners
  <1>3. (s7.at = "pending" /\ Appended("prompt")) \/ s3' = s3
    BY QueueAppended, EventKinds DEF Window!Ready, WindowParts
  <1>4. CASE s3' = s3
    <2>1. Kinds' = Kinds /\ Positions' = Positions
      BY <1>4 DEF Kinds, Positions
    <2>2. QueueInvariant'
      BY <1>1, <1>2, <2>1 DEF Locking, QueueInvariant, QuietAtFirst, PromptedOnce, RunningRuns, WillShow, WillUnlock,
         Queued, Engaged
    <2>3. Unhurried'
      BY <1>1, <1>2, <2>1 DEF Unhurried, OneOfAKind, LocksFit, OneActive, Queued, Lockers
    <2> QED
      BY <2>2, <2>3 DEF Locking
  <1>5. CASE s7.at = "pending" /\ Appended("prompt")
    <2>1. Len(s3) \in Nat
      BY KindsTyped DEF WindowParts
    <2>2. /\ Positions' = Positions \cup {Len(s3) + 1} /\ Len(s3) + 1 \notin Positions
          /\ Kinds'[Len(s3) + 1] = "prompt" /\ \A i \in Positions : Kinds'[i] = "close"
      BY <1>1, <1>5, <2>1 DEF Appended, Positions
    <2>3. QueueInvariant'
      BY <1>1, <1>2, <1>5, <2>2 DEF Locking, QueueInvariant, QuietAtFirst, PromptedOnce, RunningRuns, WillShow, WillUnlock,
         Queued, Engaged
    <2>4. Unhurried'
      BY <1>1, <1>2, <2>2 DEF Unhurried, OneOfAKind, LocksFit, OneActive, Queued, Lockers
    <2> QED
      BY <2>3, <2>4 DEF Locking
  <1> QED
    BY <1>3, <1>4, <1>5

\* What is appended comes last; what was second is first when the first is gone.
LEMMA AppendedIs ==
    ASSUME WindowParts, NEW k, Appended(k)
    PROVE  /\ Positions' = Positions \cup {Len(s3) + 1} /\ Len(s3) + 1 \notin Positions
           /\ Kinds'[Len(s3) + 1] = k /\ \A i \in Positions : Kinds'[i] = Kinds[i] /\ i < Len(s3) + 1
           /\ Positions \subseteq Int /\ Len(s3) \in Nat /\ Len(s3') # 0
  <1>1. Len(s3) \in Nat
    BY KindsTyped DEF WindowParts
  <1> QED
    BY <1>1 DEF Appended, Positions

LEMMA DroppedIs ==
    ASSUME WindowParts, NEW k, Dropped(k)
    PROVE  /\ 1 \in Positions /\ Kinds[1] = k /\ Positions \subseteq Int /\ Len(s3) \in Nat
           /\ \A i \in Positions' : i + 1 \in Positions /\ Kinds'[i] = Kinds[i + 1]
           /\ \A i \in Positions : i # 1 => i - 1 \in Positions' /\ Kinds'[i - 1] = Kinds[i]
  <1>1. Len(s3) \in Nat
    BY KindsTyped DEF WindowParts
  <1>2. Positions' = 1 .. Len(s3) - 1 /\ Positions = 1 .. Len(s3)
    BY DEF Dropped, Positions
  <1>3. ASSUME NEW i \in Positions, i # 1 PROVE i - 1 \in Positions' /\ Kinds'[i - 1] = Kinds[i]
    <2>1. i - 1 \in 1 .. Len(s3) - 1 /\ (i - 1) + 1 = i
      BY <1>1, <1>2, <1>3
    <2> QED
      BY <1>2, <2>1 DEF Dropped
  <1>4. \A i \in Positions' : i + 1 \in Positions /\ Kinds'[i] = Kinds[i + 1]
    BY <1>1, <1>2 DEF Dropped
  <1>5. 1 \in Positions /\ Positions \subseteq Int
    BY <1>1, <1>2 DEF Dropped
  <1> QED
    BY <1>1, <1>3, <1>4, <1>5 DEF Dropped

LEMMA AppendedQueued ==
    ASSUME WindowParts, NEW k, Appended(k), NEW kinds PROVE Queued(kinds)' <=> k \in kinds \/ Queued(kinds)
  BY AppendedIs DEF Queued

LEMMA DroppedQueued ==
    ASSUME WindowParts, NEW k, Dropped(k), NEW kinds
    PROVE  /\ Queued(kinds)' => Queued(kinds)
           /\ k \notin kinds => (Queued(kinds)' <=> Queued(kinds))
  <1>1. Queued(kinds)' => Queued(kinds)
    BY DroppedIs DEF Queued
  <1>2. ASSUME k \notin kinds, NEW i \in Positions, Kinds[i] \in kinds PROVE Queued(kinds)'
    <2>1. i # 1 /\ i - 1 \in Positions' /\ Kinds'[i - 1] \in kinds
      BY <1>2, DroppedIs
    <2> QED
      BY <2>1 DEF Queued
  <1> QED
    BY <1>1, <1>2 DEF Queued

\* The order of the others stays.
LEMMA DroppedOrder ==
    ASSUME WindowParts, NEW k, Dropped(k), Unhurried, ~s9.hasty PROVE OneOfAKind'
  <1>1. OneOfAKind
    BY DEF Unhurried
  <1>2. ASSUME NEW i \in Positions', NEW j \in Positions'
        PROVE  /\ Kinds'[i] \in Lockers /\ Kinds'[j] \in Lockers => i = j
               /\ Kinds'[i] = "unlock" /\ Kinds'[j] = "unlock" => i = j
               /\ Kinds'[i] \in Lockers /\ Kinds'[j] = "unlock" => Kinds'[i] = "lock" /\ i < j
    <2>1. /\ i + 1 \in Positions /\ Kinds'[i] = Kinds[i + 1]
          /\ j + 1 \in Positions /\ Kinds'[j] = Kinds[j + 1] /\ i \in Int /\ j \in Int
      <3>1. Positions' \subseteq Int
        BY DEF Positions
      <3> QED
        BY <3>1, DroppedIs
    <2>2. (i + 1 = j + 1 => i = j) /\ (i + 1 < j + 1 => i < j)
      BY <2>1
    <2> QED
      BY <1>1, <2>1, <2>2 DEF OneOfAKind
  <1> QED
    BY <1>2 DEF OneOfAKind, Lockers

LEMMA DroppedPrompts ==
    ASSUME WindowParts, NEW k, Dropped(k), PromptedOnce, s1' = s1, s7' = s7 PROVE PromptedOnce'
  <1>1. ASSUME NEW i \in Positions', Kinds'[i] = "prompt", NEW j \in Positions', Kinds'[j] = "prompt"
        PROVE  s7.at = "pending" /\ s1 # "blank" /\ j = i
    <2>1. /\ i + 1 \in Positions /\ Kinds[i + 1] = "prompt" /\ i \in Int
          /\ j + 1 \in Positions /\ Kinds[j + 1] = "prompt" /\ j \in Int
      <3>1. Positions' \subseteq Int
        BY DEF Positions
      <3> QED
        BY <1>1, <3>1, DroppedIs
    <2>2. s7.at = "pending" /\ s1 # "blank" /\ j + 1 = i + 1
      BY <2>1 DEF PromptedOnce
    <2> QED
      BY <2>1, <2>2
  <1> QED
    BY <1>1 DEF PromptedOnce

LEMMA LaunchClickLocking ==
    ASSUME WindowParts, s9 \in PastType, Locking, NEW c \in Clicks, Window!LaunchClicked(c) PROVE Locking'
  <1>1. /\ s1 = "free" /\ s1' = s1 /\ s2 /\ s2' = s2 /\ s4' = s4 /\ s7' = s7 /\ s5[c] = "none"
        /\ s5' = [s5 EXCEPT ![c] = "queued"]
    BY DEF Window!LaunchClicked, Window!Busy
  <1>2. Appended("launch")
    BY QueueAppended, EventKinds DEF Window!LaunchClicked, WindowParts
  <1>3. \A d \in Clicks : /\ Engaged(d)' <=> Engaged(d)
                          /\ s5'[d] \in Runners <=> s5[d] \in Runners
    BY <1>1 DEF WindowParts, Engaged, Runners
  <1>4. (Installs' <=> Installs) /\ (Active' <=> Active)
    BY <1>1, <1>3 DEF Installs, Active
  <1>5. ~s9'.hasty => ~s9.hasty /\ ~Queued(Lockers)
    <2>1. Queued(Lockers) => Window!Coming
      <3>1. \A i \in Positions : s3[i] \in Window!Events /\ Kinds[i] = Kind(s3[i])
        BY DEF WindowParts, Positions, Kinds
      <3> QED
        BY <3>1, KindsAre DEF Queued, Lockers, Window!Coming, Positions
    <2> QED
      BY <2>1 DEF Window!LaunchClicked, PastType
  <1>6. QuietAtFirst' /\ PromptedOnce' /\ RunningRuns'
    BY <1>1, <1>2, <1>3, <1>4, AppendedIs DEF Locking, QueueInvariant, QuietAtFirst, PromptedOnce, RunningRuns
  <1>7. WillShow' /\ WillUnlock'
    BY <1>1, <1>2, <1>3, <1>4, AppendedIs DEF Locking, QueueInvariant, WillShow, WillUnlock, Queued
  <1>8. Unhurried'
    BY <1>1, <1>2, <1>3, <1>4, <1>5, AppendedIs DEF Locking, Unhurried, OneOfAKind, LocksFit, OneActive, Queued, Lockers
  <1> QED
    BY <1>6, <1>7, <1>8 DEF Locking, QueueInvariant

LEMMA CloseAppended ==
    ASSUME WindowParts, Locking, s1' = s1, s2' = s2, s4' = s4, s7' = s7, s1 # "gone", s9'.hasty = s9.hasty,
           Appended("close"),
           \/ s5' = s5
           \/ \E c \in Clicks : s5[c] = "closes" /\ s5' = [s5 EXCEPT ![c] = "none"]
    PROVE  Locking'
  <1>1. \A d \in Clicks : /\ Engaged(d)' => Engaged(d)
                          /\ s5'[d] \in Runners <=> s5[d] \in Runners
                          /\ s5[d] = "none" => s5'[d] = "none"
    BY DEF WindowParts, Engaged, Runners
  <1>2. (Installs' <=> Installs) /\ (Active' => Active) /\ (AtRest => AtRest')
    BY <1>1 DEF Installs, Active, AtRest
  <1>3. QuietAtFirst' /\ PromptedOnce' /\ RunningRuns'
    BY <1>1, <1>2, AppendedIs DEF Locking, QueueInvariant, QuietAtFirst, PromptedOnce, RunningRuns
  <1>4. WillShow' /\ WillUnlock'
    BY <1>1, <1>2, AppendedIs DEF Locking, QueueInvariant, WillShow, WillUnlock, Queued
  <1>5. Unhurried'
    BY <1>1, <1>2, AppendedIs DEF Locking, Unhurried, OneOfAKind, LocksFit, OneActive, Queued, Lockers
  <1> QED
    BY <1>3, <1>4, <1>5 DEF Locking, QueueInvariant

LEMMA CloseLocking ==
    ASSUME WindowParts, Locking, Window!Close PROVE Locking'
  <1>1. s3 # <<>> /\ Head(s3).is = "close" /\ s4' = s4 /\ s9' = s9 /\ s1 # "gone"
    BY DEF Window!Close, Window!Is, Window!Next1, Window!Up
  <1>2. CASE Window!Exits
    <2>1. /\ s1' = "gone" /\ s3' = <<>> /\ ~s4' /\ s7'.at = "none"
          /\ \A c \in Clicks : s5'[c] = "none"
      BY <1>1, <1>2 DEF Window!Close, Window!NoUpdate, Window!Exits
    <2>2. Positions' = {} /\ Len(s3') = 0
      BY <2>1 DEF Positions
    <2>3. AtRest' /\ ~Active' /\ ~Installs' /\ \A c \in Clicks : ~Engaged(c)' /\ s5'[c] \notin Runners
      BY <2>1 DEF AtRest, Active, Installs, Engaged, Runners
    <2>4. QueueInvariant'
      BY <2>1, <2>2, <2>3 DEF QueueInvariant, QuietAtFirst, PromptedOnce, RunningRuns, WillShow, WillUnlock
    <2>5. Unhurried'
      BY <2>1, <2>2, <2>3 DEF Unhurried, OneOfAKind, LocksFit, OneActive, Queued
    <2> QED
      BY <2>4, <2>5 DEF Locking
  <1>3. CASE ~Window!Exits
    <2>1. s4 /\ s1' = s1 /\ s2' = FALSE /\ s5' = s5 /\ s7' = s7
      BY <1>3 DEF Window!Close, Window!Exits, WindowParts
    <2>2. Dropped("close")
      BY <1>1, <1>3, QueueDropped, KindsTyped, KindsAre DEF Window!Close, WindowParts
    <2>3. \E c \in Clicks : Engaged(c)
      BY <2>1 DEF Locking, QueueInvariant, RunningRuns, Engaged
    <2>4. /\ (Installs' <=> Installs) /\ (Active' <=> Active) /\ (AtRest <=> AtRest') /\ Active /\ ~AtRest
          /\ \A c \in Clicks : Engaged(c)' <=> Engaged(c)
      BY <2>1, <2>3 DEF Installs, Active, AtRest, Engaged, Runners
    <2>5. QuietAtFirst' /\ RunningRuns'
      BY <1>1, <2>1, <2>4 DEF Locking, QueueInvariant, QuietAtFirst, RunningRuns
    <2>6. PromptedOnce'
      BY <2>1, <2>2, DroppedPrompts DEF Locking, QueueInvariant
    <2>7. WillShow' /\ WillUnlock'
      BY <2>1, <2>3, <2>4 DEF WillShow, WillUnlock
    <2>8. ~s9'.hasty => LocksFit' /\ OneActive'
      BY <1>1, <2>1, <2>2, <2>4, DroppedQueued DEF Locking, Unhurried, LocksFit, OneActive, Lockers
    <2>9. Unhurried'
      BY <1>1, <2>2, <2>8, DroppedOrder DEF Locking, Unhurried
    <2> QED
      BY <2>5, <2>6, <2>7, <2>9 DEF Locking, QueueInvariant
  <1> QED
    BY <1>2, <1>3

\* A turned queue is one whose first event is dropped, and then the page will be locked.
LEMMA TurnedIs ==
    ASSUME WindowParts, NEW k, Turned(k)
    PROVE  /\ 1 \in Positions /\ Kinds[1] = k /\ Positions \subseteq Int /\ Positions' = Positions
           /\ Len(s3) \in Positions /\ Kinds'[Len(s3)] = "lock"
           /\ \A i \in Positions : i # Len(s3) =>
                 i < Len(s3) /\ i + 1 \in Positions /\ Kinds'[i] = Kinds[i + 1]
           /\ \A i \in Positions : i # 1 =>
                 i - 1 \in Positions /\ i - 1 < Len(s3) /\ Kinds'[i - 1] = Kinds[i]
  <1>1. Len(s3) \in Nat
    BY KindsTyped DEF WindowParts
  <1>2. Positions' = 1 .. Len(s3) /\ Positions = 1 .. Len(s3)
    BY DEF Turned, Positions
  <1>3. ASSUME NEW i \in Positions, i # 1
        PROVE  i - 1 \in Positions /\ i - 1 < Len(s3) /\ Kinds'[i - 1] = Kinds[i]
    <2>1. i - 1 \in 1 .. Len(s3) - 1 /\ (i - 1) + 1 = i
      BY <1>1, <1>2, <1>3
    <2> QED
      BY <1>1, <1>2, <2>1 DEF Turned
  <1>4. \A i \in Positions : i # Len(s3) =>
                 i < Len(s3) /\ i + 1 \in Positions /\ Kinds'[i] = Kinds[i + 1]
    BY <1>1, <1>2 DEF Turned
  <1>5. 1 \in Positions /\ Positions \subseteq Int /\ Len(s3) \in Positions
    BY <1>1, <1>2 DEF Turned
  <1> QED
    BY <1>2, <1>3, <1>4, <1>5 DEF Turned

LEMMA TurnedQueued ==
    ASSUME WindowParts, NEW k, Turned(k), NEW kinds
    PROVE  /\ Queued(kinds)' => "lock" \in kinds \/ Queued(kinds)
           /\ "lock" \in kinds => Queued(kinds)'
           /\ k \notin kinds => (Queued(kinds) => Queued(kinds)')
  <1>1. Queued(kinds)' => "lock" \in kinds \/ Queued(kinds)
    BY TurnedIs DEF Queued
  <1>2. "lock" \in kinds => Queued(kinds)'
    BY TurnedIs DEF Queued
  <1>3. ASSUME k \notin kinds, NEW i \in Positions, Kinds[i] \in kinds PROVE Queued(kinds)'
    <2>1. i # 1 /\ i - 1 \in Positions /\ Kinds'[i - 1] \in kinds
      BY <1>3, TurnedIs
    <2> QED
      BY <2>1, TurnedIs DEF Queued
  <1> QED
    BY <1>1, <1>2, <1>3 DEF Queued

\* A launch and the prompt are the same to the queue: something begins, and locks the page.
LEMMA BeginsLocking ==
    ASSUME WindowParts, Locking, NEW k \in {"prompt", "launch"}, Turned(k), s1 # "gone", s1' = s1, s2' = s2, s9' = s9,
           \/ /\ k = "launch" /\ s4' = TRUE /\ s7' = s7
              /\ \E c \in Clicks : s5' = [s5 EXCEPT ![c] = "creates"]
           \/ k = "prompt" /\ s5' = s5 /\ s4' = s4 /\ s7'.at = "begins"
    PROVE  Locking'
  <1>1. s1 # "blank" /\ (k = "prompt" => s7.at = "pending")
    BY TurnedIs DEF Locking, QueueInvariant, QuietAtFirst, PromptedOnce
  <1>2. Active'
    BY DEF Active, Installs, Engaged, Runners, WindowParts
  <1>3. /\ \A c \in Clicks : s5[c] \in Runners => s5'[c] \in Runners
        /\ \A c \in Clicks : Engaged(c) => \E d \in Clicks : Engaged(d)'
        /\ k = "launch" => \E c \in Clicks : s5'[c] \in Runners
        /\ k = "launch" => \E c \in Clicks : Engaged(c)'
        /\ k = "prompt" => \A c \in Clicks : (Engaged(c)' <=> Engaged(c)) /\ s5'[c] = s5[c]
    BY DEF WindowParts, Engaged, Runners
  <1>4. QuietAtFirst' /\ RunningRuns'
    BY <1>1, <1>3 DEF Locking, QueueInvariant, QuietAtFirst, RunningRuns
  <1>5. PromptedOnce'
    <2> SUFFICES ASSUME NEW i \in Positions', Kinds'[i] = "prompt", NEW j \in Positions', Kinds'[j] = "prompt"
                 PROVE  s7'.at = "pending" /\ s1' # "blank" /\ j = i
      BY DEF PromptedOnce
    <2>1. i \in Positions /\ j \in Positions /\ i # Len(s3) /\ j # Len(s3)
      BY TurnedIs
    <2>2. /\ i + 1 \in Positions /\ Kinds[i + 1] = "prompt" /\ i \in Int
          /\ j + 1 \in Positions /\ Kinds[j + 1] = "prompt" /\ j \in Int
      BY <2>1, TurnedIs
    <2>3. s7.at = "pending" /\ s1 # "blank" /\ j + 1 = i + 1
      BY <2>2 DEF Locking, QueueInvariant, PromptedOnce
    <2>4. k = "launch"
      <3>1. k = "prompt" => i + 1 = 1 /\ j + 1 = 1
        BY <2>2, TurnedIs DEF Locking, QueueInvariant, PromptedOnce
      <3>2. i >= 1
        BY <2>1 DEF Positions
      <3> QED
        BY <2>2, <3>1, <3>2
    <2> QED
      BY <1>1, <2>2, <2>3, <2>4
  <1>6. WillUnlock'
    BY <1>2 DEF WillUnlock
  <1>7. WillShow'
    <2>1. CASE k = "launch"
      BY <1>3, <2>1 DEF WillShow
    <2>2. CASE k = "prompt"
      <3>1. Queued({"show", "close"}) => Queued({"show", "close"})'
        BY <2>2, TurnedQueued
      <3>2. ASSUME NEW i \in Positions', Kinds'[i] = "hide", ~(\E c \in Clicks : Engaged(c)')
            PROVE  \E j \in Positions' : i < j /\ Kinds'[j] \in {"show", "close"}
        <4>1. i \in Positions /\ i # Len(s3) /\ i + 1 \in Positions /\ Kinds[i + 1] = "hide" /\ i \in Int
          BY <3>2, TurnedIs
        <4>2. PICK j \in Positions : i + 1 < j /\ Kinds[j] \in {"show", "close"}
          BY <1>3, <2>2, <3>2, <4>1 DEF Locking, QueueInvariant, WillShow
        <4>3. j # 1 /\ j \in Int /\ j - 1 > i
          BY <4>1, <4>2, TurnedIs DEF Positions
        <4> QED
          BY <4>2, <4>3, TurnedIs
      <3> QED
        BY <1>3, <2>2, <3>1, <3>2 DEF Locking, QueueInvariant, WillShow
    <2> QED
      BY <2>1, <2>2
  <1>8. ASSUME ~s9.hasty PROVE OneOfAKind' /\ LocksFit' /\ OneActive'
    <2>1. OneOfAKind /\ LocksFit /\ OneActive
      BY <1>8 DEF Locking, Unhurried
    <2>2. /\ \A i \in Positions : i # 1 => Kinds[i] \notin Lockers
          /\ \A i \in Positions : Kinds[i] # "unlock"
          /\ s1 # "locked" /\ ~Active
      <3>1. 1 \in Positions /\ Kinds[1] \in Lockers /\ Kinds[1] # "lock" /\ Queued(Lockers)
        BY TurnedIs DEF Lockers, Queued
      <3>2. \A i \in Positions : (i # 1 => Kinds[i] \notin Lockers) /\ Kinds[i] # "unlock"
        BY <2>1, <3>1 DEF OneOfAKind
      <3>3. s1 # "locked" /\ ~Queued({"lock"})
        BY <2>1, <3>1, <3>2 DEF LocksFit, Queued, Lockers
      <3> QED
        BY <2>1, <3>2, <3>3 DEF LocksFit
    <2>3. \A i \in Positions' : /\ Kinds'[i] # "unlock" /\ (Kinds'[i] \in Lockers => i = Len(s3))
      <3>1. ASSUME NEW i \in Positions', i # Len(s3) PROVE Kinds'[i] # "unlock" /\ Kinds'[i] \notin Lockers
        <4>1. i + 1 \in Positions /\ Kinds'[i] = Kinds[i + 1]
          BY <3>1, TurnedIs
        <4>2. i + 1 # 1
          BY DEF Positions
        <4> QED
          BY <2>2, <4>1, <4>2
      <3> QED
        BY <3>1, TurnedIs DEF Lockers
    <2>4. OneOfAKind'
      BY <2>3 DEF OneOfAKind
    <2>5. LocksFit'
      <3>1. Queued({"lock"})'
        BY TurnedQueued
      <3>2. ~Queued({"unlock"})'
        BY <2>3 DEF Queued
      <3> QED
        BY <2>2, <3>1, <3>2 DEF LocksFit
    <2>6. OneActive'
      BY <2>2, <1>3 DEF OneActive, Active, Installs, Engaged, WindowParts, Runners
    <2> QED
      BY <2>4, <2>5, <2>6
  <1> QED
    BY <1>4, <1>5, <1>6, <1>7, <1>8 DEF Locking, QueueInvariant, Unhurried

\* An event that locks or unlocks the page.
LEMMA LockedLocking ==
    ASSUME WindowParts, Locking, NEW k \in {"lock", "unlock"}, Dropped(k), s1 # "gone",
           s1' = (IF k = "lock" THEN "locked" ELSE "free"),
           s2' = s2, s4' = s4, s5' = s5, s7' = s7, s9' = s9
    PROVE  Locking'
  <1>1. s1 # "blank"
    BY DroppedIs DEF Locking, QueueInvariant, QuietAtFirst
  <1>2. /\ (Installs' <=> Installs) /\ (Active' <=> Active)
        /\ \A c \in Clicks : Engaged(c)' <=> Engaged(c)
    BY DEF Installs, Active, Engaged
  <1>3. QuietAtFirst' /\ RunningRuns'
    BY DEF Locking, QueueInvariant, QuietAtFirst, RunningRuns
  <1>4. PromptedOnce'
    <2>1. \A i \in Positions' : Kinds'[i] = "prompt" => i + 1 \in Positions /\ Kinds[i + 1] = "prompt" /\ i \in Int
      <3>1. Positions' \subseteq Int
        BY DEF Positions
      <3> QED
        BY <3>1, DroppedIs
    <2>2. \A i, j \in Positions : Kinds[i] = "prompt" /\ Kinds[j] = "prompt" => i = j /\ s7.at = "pending"
      BY DEF Locking, QueueInvariant, PromptedOnce
    <2>3. \A i, j \in Positions' : Kinds'[i] = "prompt" /\ Kinds'[j] = "prompt" => i + 1 = j + 1 /\ i \in Int /\ j \in Int
      BY <2>1, <2>2
    <2>4. \A i, j \in Positions' : Kinds'[i] = "prompt" /\ Kinds'[j] = "prompt" => i = j
      BY <2>3
    <2> QED
      BY <1>1, <2>1, <2>2, <2>4 DEF PromptedOnce
  <1>5. WillShow' /\ WillUnlock'
    <2>1. Queued({"show", "close"}) => Queued({"show", "close"})'
      BY DroppedQueued
    <2>2. ASSUME NEW i \in Positions', NEW others, 
                 \E j \in Positions : i + 1 < j /\ Kinds[j] \in others
          PROVE  \E j \in Positions' : i < j /\ Kinds'[j] \in others
      <3>1. PICK j \in Positions : i + 1 < j /\ Kinds[j] \in others
        BY <2>2
      <3>2. i \in Int /\ i >= 1
        BY DEF Positions
      <3>3. j # 1 /\ j \in Int /\ j - 1 > i
        BY <3>1, <3>2, DroppedIs
      <3> QED
        BY <3>1, <3>3, DroppedIs
    <2>3. WillShow'
      <3>1. ASSUME NEW i \in Positions', Kinds'[i] = "hide", ~(\E c \in Clicks : Engaged(c))
            PROVE  \E j \in Positions' : i < j /\ Kinds'[j] \in {"show", "close"}
        <4>1. \E j \in Positions : i + 1 < j /\ Kinds[j] \in {"show", "close"}
          BY <3>1, DroppedIs DEF Locking, QueueInvariant, WillShow
        <4> QED
          BY <2>2, <4>1
      <3> QED
        BY <1>2, <2>1, <3>1 DEF Locking, QueueInvariant, WillShow
    <2>4. ASSUME NEW i \in Positions', Kinds'[i] = "lock", ~Active
          PROVE  \E j \in Positions' : i < j /\ Kinds'[j] \in {"unlock", "close"}
      <3>1. \E j \in Positions : i + 1 < j /\ Kinds[j] \in {"unlock", "close"}
        BY <2>4, DroppedIs DEF Locking, QueueInvariant, WillUnlock
      <3> QED
        BY <2>2, <3>1
    <2>5. ASSUME k = "lock", ~Active PROVE Queued({"unlock", "close"})'
      <3>1. PICK j \in Positions : 1 < j /\ Kinds[j] \in {"unlock", "close"}
        BY <2>5, DroppedIs DEF Locking, QueueInvariant, WillUnlock
      <3>2. j # 1
        BY <3>1, DroppedIs
      <3> QED
        BY <3>1, <3>2, DroppedIs DEF Queued
    <2> QED
      BY <1>2, <2>3, <2>4, <2>5 DEF WillUnlock
  <1>6. ASSUME ~s9.hasty PROVE OneOfAKind' /\ LocksFit' /\ OneActive'
    <2>1. OneOfAKind /\ LocksFit /\ OneActive
      BY <1>6 DEF Locking, Unhurried
    <2>2. OneOfAKind'
      BY <1>6, DroppedOrder DEF Locking
    <2>3. OneActive'
      BY <1>2, <2>1 DEF OneActive
    <2>4. CASE k = "lock"
      <3>1. \A i \in Positions : i # 1 => Kinds[i] \notin Lockers
        BY <2>1, <2>4, DroppedIs DEF OneOfAKind, Lockers
      <3>2. ~Queued(Lockers)'
        <4>1. ASSUME NEW i \in Positions', Kinds'[i] \in Lockers PROVE FALSE
          <5>1. i + 1 \in Positions /\ Kinds[i + 1] \in Lockers
            BY <4>1, DroppedIs
          <5>2. i + 1 # 1
            BY DEF Positions
          <5> QED
            BY <3>1, <5>1, <5>2
        <4> QED
          BY <4>1 DEF Queued, Lockers
      <3>3. Active' => ~Queued({"unlock"})'
        BY <1>2, <2>1, DroppedQueued DEF LocksFit
      <3> QED
        BY <2>2, <2>3, <2>4, <3>2, <3>3 DEF LocksFit
    <2>5. CASE k = "unlock"
      <3>1. Queued({"unlock"})
        BY <2>5, DroppedIs DEF Queued
      <3>2. ~Active
        BY <2>1, <3>1 DEF LocksFit
      <3>3. ~Queued({"unlock"})'
        <4>1. ASSUME NEW i \in Positions', Kinds'[i] = "unlock" PROVE FALSE
          <5>1. i + 1 \in Positions /\ Kinds[i + 1] = "unlock" /\ 1 \in Positions /\ Kinds[1] = "unlock"
            BY <2>5, <4>1, DroppedIs
          <5>2. i + 1 # 1
            BY DEF Positions
          <5> QED
            BY <2>1, <5>1, <5>2 DEF OneOfAKind
        <4> QED
          BY <4>1 DEF Queued
      <3> QED
        BY <1>2, <2>2, <2>3, <2>5, <3>2, <3>3 DEF LocksFit
    <2> QED
      BY <2>4, <2>5
  <1> QED
    BY <1>3, <1>4, <1>5, <1>6 DEF Locking, QueueInvariant, Unhurried

\* An event that shows or hides the window.
LEMMA ShownLocking ==
    ASSUME WindowParts, Locking, NEW k \in {"show", "hide"}, Dropped(k), s1 # "gone",
           s2' = (k = "show"), s1' = s1, s4' = s4, s5' = s5, s7' = s7, s9' = s9
    PROVE  Locking'
  <1>1. s1 # "blank"
    BY DroppedIs DEF Locking, QueueInvariant, QuietAtFirst
  <1>2. /\ (Installs' <=> Installs) /\ (Active' <=> Active)
        /\ \A c \in Clicks : Engaged(c)' <=> Engaged(c)
    BY DEF Installs, Active, Engaged
  <1>3. QuietAtFirst' /\ RunningRuns' /\ PromptedOnce'
    BY <1>1, DroppedPrompts DEF Locking, QueueInvariant, QuietAtFirst, RunningRuns
  <1>4. ASSUME NEW i \in Positions', NEW others,
               \E j \in Positions : i + 1 < j /\ Kinds[j] \in others
        PROVE  \E j \in Positions' : i < j /\ Kinds'[j] \in others
    <2>1. PICK j \in Positions : i + 1 < j /\ Kinds[j] \in others
      BY <1>4
    <2>2. i \in Int /\ i >= 1
      BY DEF Positions
    <2>3. j # 1 /\ j \in Int /\ j - 1 > i
      BY <2>1, <2>2, DroppedIs
    <2> QED
      BY <2>1, <2>3, DroppedIs
  <1>5. WillShow'
    <2>1. ASSUME NEW i \in Positions', Kinds'[i] = "hide", ~(\E c \in Clicks : Engaged(c))
          PROVE  \E j \in Positions' : i < j /\ Kinds'[j] \in {"show", "close"}
      <3>1. \E j \in Positions : i + 1 < j /\ Kinds[j] \in {"show", "close"}
        BY <2>1, DroppedIs DEF Locking, QueueInvariant, WillShow
      <3> QED
        BY <1>4, <3>1
    <2>2. ASSUME k = "hide", ~(\E c \in Clicks : Engaged(c)) PROVE Queued({"show", "close"})'
      <3>1. PICK j \in Positions : 1 < j /\ Kinds[j] \in {"show", "close"}
        BY <2>2, DroppedIs DEF Locking, QueueInvariant, WillShow
      <3>2. j # 1
        BY <3>1, DroppedIs
      <3> QED
        BY <3>1, <3>2, DroppedIs DEF Queued
    <2> QED
      BY <1>2, <2>1, <2>2 DEF WillShow
  <1>6. WillUnlock'
    <2>1. ASSUME NEW i \in Positions', Kinds'[i] = "lock", ~Active
          PROVE  \E j \in Positions' : i < j /\ Kinds'[j] \in {"unlock", "close"}
      <3>1. \E j \in Positions : i + 1 < j /\ Kinds[j] \in {"unlock", "close"}
        BY <2>1, DroppedIs DEF Locking, QueueInvariant, WillUnlock
      <3> QED
        BY <1>4, <3>1
    <2>2. Queued({"unlock", "close"}) => Queued({"unlock", "close"})'
      BY DroppedQueued
    <2> QED
      BY <1>2, <2>1, <2>2 DEF Locking, QueueInvariant, WillUnlock
  <1>7. ASSUME ~s9.hasty PROVE OneOfAKind' /\ LocksFit' /\ OneActive'
    <2>1. OneOfAKind /\ LocksFit /\ OneActive
      BY <1>7 DEF Locking, Unhurried
    <2>2. OneOfAKind'
      BY <1>7, DroppedOrder DEF Locking
    <2>3. LocksFit' /\ OneActive'
      BY <1>2, <2>1, DroppedQueued DEF LocksFit, OneActive, Lockers
    <2> QED
      BY <2>2, <2>3
  <1> QED
    BY <1>3, <1>5, <1>6, <1>7 DEF Locking, QueueInvariant, Unhurried

\* A game is there: the window is to be hidden while it runs.
LEMMA HideAppended ==
    ASSUME WindowParts, Locking, s1' = s1, s2' = s2, s4' = s4, s7' = s7, s9' = s9, Appended("hide"), s1 # "gone",
           NEW c \in Clicks, s5[c] = "creates", s5' = [s5 EXCEPT ![c] = "schedules"]
    PROVE  Locking'
  <1>1. \A d \in Clicks : /\ Engaged(d)' <=> Engaged(d)
                          /\ s5'[d] \in Runners <=> s5[d] \in Runners
    BY DEF WindowParts, Engaged, Runners
  <1>2. /\ (Installs' <=> Installs) /\ (Active' <=> Active) /\ Engaged(c) /\ Engaged(c)' /\ Active' /\ ~AtRest
    BY <1>1 DEF Installs, Active, AtRest, Engaged, Runners
  <1>3. QuietAtFirst' /\ PromptedOnce' /\ RunningRuns'
    BY <1>1, <1>2, AppendedIs DEF Locking, QueueInvariant, QuietAtFirst, PromptedOnce, RunningRuns
  <1>4. WillShow' /\ WillUnlock'
    BY <1>1, <1>2 DEF WillShow, WillUnlock
  <1>5. ASSUME ~s9.hasty PROVE OneOfAKind' /\ LocksFit' /\ OneActive'
    <2>1. OneOfAKind /\ LocksFit /\ OneActive
      BY <1>5 DEF Locking, Unhurried
    <2>2. OneOfAKind'
      BY <2>1, AppendedIs DEF OneOfAKind, Lockers
    <2>3. LocksFit'
      BY <1>2, <2>1, AppendedQueued DEF LocksFit, Lockers
    <2>4. OneActive'
      BY <1>1, <1>2, <2>1 DEF OneActive
    <2> QED
      BY <2>2, <2>3, <2>4
  <1> QED
    BY <1>3, <1>4, <1>5 DEF Locking, QueueInvariant, Unhurried

\* The thread of an update is over: the page is to be unlocked.
LEMMA UnlockAppended ==
    ASSUME WindowParts, Locking, s1' = s1, s2' = s2, s4' = s4, s5' = s5, s9'.hasty = s9.hasty, Appended("unlock"),
           Installs, s7'.at = "none", s1 # "gone"
    PROVE  Locking'
  <1>1. /\ ~Installs' /\ Active /\ ~AtRest /\ s1 # "blank"
        /\ \A d \in Clicks : Engaged(d)' <=> Engaged(d)
    BY DEF Locking, QueueInvariant, QuietAtFirst, Installs, Active, AtRest, Engaged
  <1>2. s7.at # "pending"
    BY DEF Installs
  <1>3. QuietAtFirst' /\ PromptedOnce' /\ RunningRuns'
    BY <1>1, <1>2, AppendedIs DEF Locking, QueueInvariant, QuietAtFirst, PromptedOnce, RunningRuns
  <1>4. WillShow' /\ WillUnlock'
    BY <1>1, AppendedIs DEF Locking, QueueInvariant, WillShow, WillUnlock, Queued
  <1>5. ASSUME ~s9.hasty PROVE OneOfAKind' /\ LocksFit' /\ OneActive'
    <2>1. OneOfAKind /\ LocksFit /\ OneActive
      BY <1>5 DEF Locking, Unhurried
    <2>2. /\ \A c \in Clicks : ~Engaged(c)
          /\ ~Queued({"unlock"}) /\ (s1 = "locked" \/ Queued({"lock"}))
      BY <1>1, <2>1 DEF OneActive, LocksFit
    <2>3. ~Active'
      BY <1>1, <2>2 DEF Active
    <2>4. \A i \in Positions : Kinds[i] # "unlock" /\ (Kinds[i] \in Lockers => Kinds[i] = "lock")
      <3>1. Queued(Lockers) => s1 # "locked"
        BY <2>1 DEF LocksFit
      <3>2. ASSUME NEW i \in Positions, Kinds[i] \in Lockers PROVE Kinds[i] = "lock"
        <4>1. PICK j \in Positions : Kinds[j] = "lock"
          BY <2>2, <3>1, <3>2 DEF Queued
        <4> QED
          BY <2>1, <3>2, <4>1 DEF OneOfAKind, Lockers
      <3> QED
        BY <2>2, <3>2 DEF Queued
    <2>5. OneOfAKind'
      BY <2>1, <2>4, AppendedIs DEF OneOfAKind, Lockers
    <2>6. LocksFit'
      BY <2>1, <2>2, <2>3, AppendedQueued DEF LocksFit, Lockers
    <2>7. OneActive'
      BY <1>1, <2>1 DEF OneActive
    <2> QED
      BY <2>5, <2>6, <2>7
  <1> QED
    BY <1>3, <1>4, <1>5 DEF Locking, QueueInvariant, Unhurried

\* A game has come to nothing: the window is to be shown and the page to be unlocked.
LEMMA FailsLocking ==
    ASSUME WindowParts, Locking, NEW c \in Clicks, Window!Fails(c) PROVE Locking'
  <1>1. /\ s1' = s1 /\ s2' = s2 /\ s4' = FALSE /\ s7' = s7 /\ s9' = s9 /\ s1 # "gone"
        /\ s5[c] = "fails" /\ s5' = [s5 EXCEPT ![c] = "none"]
        /\ s3' = s3 \o <<[is |-> "visible", to |-> TRUE], [is |-> "lock", to |-> FALSE]>>
    BY DEF Window!Fails, Window!At, Window!Goes, Window!Up
  <1>2. /\ Positions' = Positions \cup {Len(s3) + 1, Len(s3) + 2} /\ Positions \subseteq Int /\ Len(s3) \in Nat
        /\ Kinds'[Len(s3) + 1] = "show" /\ Kinds'[Len(s3) + 2] = "unlock"
        /\ \A i \in Positions : Kinds'[i] = Kinds[i] /\ i < Len(s3) + 1 /\ i < Len(s3) + 2
    <2> DEFINE two == <<[is |-> "visible", to |-> TRUE], [is |-> "lock", to |-> FALSE]>>
    <2>0. [is |-> "visible", to |-> TRUE] \in Window!Events /\ [is |-> "lock", to |-> FALSE] \in Window!Events
      BY EventKinds
    <2>1. Len(s3) \in Nat /\ s3 \in Seq(Window!Events) /\ two \in Seq(Window!Events) /\ Len(two) = 2
      BY <2>0, KindsTyped DEF WindowParts
    <2>2. /\ Len(s3') = Len(s3) + 2 /\ s3'[Len(s3) + 1] = two[1] /\ s3'[Len(s3) + 2] = two[2]
          /\ \A i \in 1 .. Len(s3) : s3'[i] = s3[i]
      BY <1>1, <2>1
    <2>3. Kind(two[1]) = "show" /\ Kind(two[2]) = "unlock"
      BY EventKinds
    <2>4. /\ Positions = 1 .. Len(s3) /\ Positions' = 1 .. Len(s3) + 2
          /\ \A i \in 1 .. Len(s3) : Kinds[i] = Kind(s3[i])
          /\ \A i \in 1 .. Len(s3) + 2 : Kinds'[i] = Kind(s3'[i])
      BY <2>2 DEF Positions, Kinds
    <2>5. /\ 1 .. Len(s3) + 2 = (1 .. Len(s3)) \cup {Len(s3) + 1, Len(s3) + 2}
          /\ \A i \in 1 .. Len(s3) : i < Len(s3) + 1 /\ i < Len(s3) + 2 /\ i \in 1 .. Len(s3) + 2
          /\ Len(s3) + 1 \in 1 .. Len(s3) + 2 /\ Len(s3) + 2 \in 1 .. Len(s3) + 2
      BY <2>1
    <2> QED
      BY <2>1, <2>2, <2>3, <2>4, <2>5
  <1>3. /\ \A d \in Clicks : Engaged(d)' <=> Engaged(d) /\ d # c
        /\ s5'[c] = "none" /\ Engaged(c) /\ ~AtRest /\ Active /\ (Installs' <=> Installs)
        /\ \A d \in Clicks : s5'[d] \in Runners => Engaged(d)'
    BY <1>1 DEF WindowParts, Engaged, Runners, AtRest, Active, Installs
  <1>4. QuietAtFirst' /\ PromptedOnce' /\ RunningRuns'
    BY <1>1, <1>2, <1>3 DEF Locking, QueueInvariant, QuietAtFirst, PromptedOnce, RunningRuns
  <1>5. WillShow' /\ WillUnlock'
    BY <1>2 DEF WillShow, WillUnlock, Queued
  <1>6. ASSUME ~s9.hasty PROVE OneOfAKind' /\ LocksFit' /\ OneActive'
    <2>1. OneOfAKind /\ LocksFit /\ OneActive
      BY <1>6 DEF Locking, Unhurried
    <2>2. /\ ~Installs /\ ~Queued({"unlock"}) /\ (s1 = "locked" \/ Queued({"lock"}))
          /\ \A d \in Clicks : ~Engaged(d)'
      BY <1>3, <2>1 DEF OneActive, LocksFit
    <2>3. ~Active'
      BY <1>3, <2>2 DEF Active
    <2>4. \A i \in Positions : Kinds[i] # "unlock" /\ (Kinds[i] \in Lockers => Kinds[i] = "lock")
      <3>1. Queued(Lockers) => s1 # "locked"
        BY <2>1 DEF LocksFit
      <3>2. ASSUME NEW i \in Positions, Kinds[i] \in Lockers PROVE Kinds[i] = "lock"
        <4>1. PICK j \in Positions : Kinds[j] = "lock"
          BY <2>2, <3>1, <3>2 DEF Queued
        <4> QED
          BY <2>1, <3>2, <4>1 DEF OneOfAKind, Lockers
      <3> QED
        BY <2>2, <3>2 DEF Queued
    <2>5. OneOfAKind'
      BY <1>2, <2>1, <2>4 DEF OneOfAKind, Lockers
    <2>6. LocksFit'
      BY <1>1, <1>2, <2>1, <2>2, <2>3 DEF LocksFit, Lockers, Queued
    <2>7. OneActive'
      BY <1>3, <2>2 DEF OneActive
    <2> QED
      BY <2>5, <2>6, <2>7
  <1> QED
    BY <1>1, <1>4, <1>5, <1>6 DEF Locking, QueueInvariant, Unhurried

LEMMA ReturnsLocking ==
    ASSUME WindowParts, Locking, NEW c \in Clicks, s1 # "gone",
           s1' = s1, s2' = s2, s3' = s3, s4' = FALSE, s7' = s7, s9' = s9,
           s5[c] = "returns", s5' = [s5 EXCEPT ![c] = "closes"]
    PROVE  Locking'
  <1>1. Kinds' = Kinds /\ Positions' = Positions
    BY DEF Kinds, Positions
  <1>2. /\ \A d \in Clicks : Engaged(d)' <=> Engaged(d)
        /\ Engaged(c) /\ ~AtRest /\ (Installs' <=> Installs) /\ (Active' <=> Active)
        /\ \A d \in Clicks : s5'[d] \in Runners => Engaged(d) /\ d # c
    BY DEF WindowParts, Engaged, Runners, AtRest, Active, Installs
  <1>3. QuietAtFirst' /\ PromptedOnce' /\ RunningRuns'
    BY <1>1, <1>2 DEF Locking, QueueInvariant, QuietAtFirst, PromptedOnce, RunningRuns
  <1>4. WillShow' /\ WillUnlock'
    BY <1>1, <1>2 DEF Locking, QueueInvariant, WillShow, WillUnlock, Queued
  <1>5. ASSUME ~s9.hasty PROVE OneOfAKind' /\ LocksFit' /\ OneActive'
    <2>1. OneOfAKind /\ LocksFit /\ OneActive
      BY <1>5 DEF Locking, Unhurried
    <2> QED
      BY <1>1, <1>2, <2>1 DEF OneOfAKind, LocksFit, OneActive, Queued
  <1> QED
    BY <1>3, <1>4, <1>5 DEF Locking, QueueInvariant, Unhurried

LEMMA LoopLocking ==
    ASSUME WindowParts, s7 \in UpdateType, Locking, Window!Loop PROVE Locking'
  <1> USE DEF Window!Is, Window!Next1, Window!Up
  <1>0. s3 \in Seq(Window!Events) /\ (s3 # <<>> => Head(s3) \in Window!Events)
    BY KindsTyped DEF WindowParts
  <1>1. CASE Window!Close
    BY <1>1, CloseLocking
  <1>2. CASE Window!LaunchGame
    <2>1. /\ s3 # <<>> /\ Head(s3).is = "launch" /\ s1 # "gone" /\ s1' = s1 /\ s2' = s2 /\ s4' = TRUE
          /\ s7' = s7 /\ s9' = s9 /\ s5' = [s5 EXCEPT ![Head(s3).c] = "creates"]
          /\ s3' = Append(Tail(s3), [is |-> "lock", to |-> TRUE])
      BY <1>2 DEF Window!LaunchGame, Window!ThenLocks
    <2>2. Turned("launch") /\ Head(s3).c \in Clicks
      BY <1>0, <2>1, QueueTurned, KindsAre
    <2> QED
      BY <2>1, <2>2, BeginsLocking
  <1>3. CASE Window!AutoUpdatePrompt
    <2>1. /\ s3 # <<>> /\ Head(s3).is = "prompt" /\ s1 # "gone" /\ s1' = s1 /\ s2' = s2 /\ s4' = s4
          /\ s5' = s5 /\ s9' = s9 /\ s3' = Append(Tail(s3), [is |-> "lock", to |-> TRUE])
      BY <1>3 DEF Window!AutoUpdatePrompt, Window!ThenLocks
    <2>2. Turned("prompt")
      BY <1>0, <2>1, QueueTurned, KindsAre
    <2>3. s7'.at = "begins"
      BY <1>3 DEF Window!AutoUpdatePrompt, UpdateType
    <2> QED
      BY <2>1, <2>2, <2>3, BeginsLocking
  <1>4. CASE Window!SetLocked
    <2>1. /\ s3 # <<>> /\ Head(s3).is = "lock" /\ s1 # "gone" /\ s3' = Tail(s3) /\ s2' = s2 /\ s4' = s4
          /\ s5' = s5 /\ s7' = s7 /\ s9' = s9 /\ s1' = IF Head(s3).to THEN "locked" ELSE "free"
      BY <1>4 DEF Window!SetLocked
    <2>2. Kind(Head(s3)) = (IF Head(s3).to THEN "lock" ELSE "unlock") /\ Dropped(Kind(Head(s3)))
      BY <1>0, <2>1, QueueDropped, KindsAre
    <2>3. CASE Head(s3).to
      <3>1. Dropped("lock") /\ s1' = "locked"
        BY <2>1, <2>2, <2>3
      <3> QED
        BY <2>1, <3>1, LockedLocking
    <2>4. CASE ~Head(s3).to
      <3>1. Dropped("unlock") /\ s1' = "free"
        BY <2>1, <2>2, <2>4
      <3> QED
        BY <2>1, <3>1, LockedLocking
    <2> QED
      BY <2>3, <2>4
  <1>5. CASE Window!SetWindowVisible
    <2>1. /\ s3 # <<>> /\ Head(s3).is = "visible" /\ s1 # "gone" /\ s3' = Tail(s3) /\ s1' = s1 /\ s4' = s4
          /\ s5' = s5 /\ s7' = s7 /\ s9' = s9 /\ s2' = Head(s3).to
      BY <1>5 DEF Window!SetWindowVisible
    <2>2. /\ Kind(Head(s3)) = (IF Head(s3).to THEN "show" ELSE "hide") /\ Dropped(Kind(Head(s3)))
          /\ Head(s3).to \in BOOLEAN
      BY <1>0, <2>1, QueueDropped, KindsAre
    <2>3. CASE Head(s3).to = TRUE
      <3>1. Dropped("show") /\ s2' = TRUE
        BY <2>1, <2>2, <2>3
      <3> QED
        BY <2>1, <3>1, ShownLocking
    <2>4. CASE Head(s3).to = FALSE
      <3>1. Dropped("hide") /\ s2' = FALSE
        BY <2>1, <2>2, <2>4
      <3> QED
        BY <2>1, <3>1, ShownLocking
    <2> QED
      BY <2>2, <2>3, <2>4
  <1> QED
    BY <1>1, <1>2, <1>3, <1>4, <1>5 DEF Window!Loop

LEMMA StarterLocking ==
    ASSUME WindowParts, s9 \in PastType, Locking, Window!Starter PROVE Locking'
  <1> USE DEF Window!At, Window!Goes, Window!Up
  <1>1. ASSUME NEW c \in Clicks, Window!Waits(c) PROVE Locking'
    <2>1. SameThreads
      BY <1>1 DEF Window!Waits, SameThreads, WindowParts, Runners
    <2> QED
      BY <1>1, <2>1, UnseenKeeps DEF Window!Waits, SameUpdate
  <1>2. ASSUME NEW c \in Clicks, Window!Returns(c) PROVE Locking'
    <2>1. CASE s5[c] = "returns"
      BY <1>2, <2>1, ReturnsLocking DEF Window!Returns
    <2>2. CASE s5[c] # "returns"
      <3>1. /\ s1 # "gone" /\ s5[c] = "closes" /\ s5' = [s5 EXCEPT ![c] = "none"]
            /\ s1' = s1 /\ s2' = s2 /\ s4' = s4 /\ s7' = s7 /\ s9' = s9
        BY <1>2, <2>2 DEF Window!Returns
      <3>2. Appended("close")
        BY <1>2, <2>2, QueueAppended, EventKinds DEF Window!Returns, WindowParts
      <3> QED
        BY <3>1, <3>2, CloseAppended
    <2> QED
      BY <2>1, <2>2
  <1>3. ASSUME NEW c \in Clicks, NEW f \in BOOLEAN, Window!CreatesGame(c, f) PROVE Locking'
    <2>1. CASE f
      <3>1. SameThreads /\ s9'.hasty = s9.hasty
        BY <1>3, <2>1 DEF Window!CreatesGame, SameThreads, WindowParts, Runners, PastType, Window!Fault
      <3> QED
        BY <1>3, <2>1, <3>1, UnseenKeeps DEF Window!CreatesGame, SameUpdate
    <2>2. CASE ~f
      <3>1. Appended("hide")
        BY <1>3, <2>2, QueueAppended, EventKinds DEF Window!CreatesGame, WindowParts
      <3> QED
        BY <1>3, <2>2, <3>1, HideAppended DEF Window!CreatesGame
    <2> QED
      BY <2>1, <2>2
  <1>4. ASSUME NEW c \in Clicks, NEW f \in BOOLEAN, Window!SchedulesStage2(c, f) PROVE Locking'
    <2>1. s9'.hasty = s9.hasty
      BY <1>4 DEF Window!SchedulesStage2, PastType, Window!Fault
    <2>2. SameThreads
      BY <1>4 DEF Window!SchedulesStage2, SameThreads, WindowParts, Runners
    <2> QED
      BY <1>4, <2>1, <2>2, UnseenKeeps DEF Window!SchedulesStage2, SameUpdate
  <1> QED
    BY <1>1, <1>2, <1>3, <1>4, FailsLocking DEF Window!Starter

LEMMA WorkerLocking ==
    ASSUME WindowParts, WindowRecords, Locking, Window!Worker PROVE Locking'
  <1> USE DEF Window!Doing, Window!Up
  <1>1. ASSUME NEW f \in BOOLEAN, NEW current \in {95, 100},
               Window!Plans(f) \/ Window!Extracts(f) \/ Window!Eats(f) \/ Window!Downloads(current, f)
        PROVE  Locking'
    <2>1. /\ s1' = s1 /\ s2' = s2 /\ s3' = s3 /\ s4' = s4 /\ s5' = s5
      BY <1>1 DEF Window!Plans, Window!Extracts, Window!Eats, Window!Downloads
    <2>2. s9'.hasty = s9.hasty
      BY <1>1 DEF Window!Plans, Window!Extracts, Window!Eats, Window!Downloads, WindowRecords, PastType, Window!Fault
    <2>3. s7.at \in {"begins", "extracts", "eats", "downloads"}
          /\ s7'.at \in {"fails", "downloads", "extracts", "eats", "records"}
      <3>1. CASE Window!Plans(f)
        <4>1. s7.at = "begins" /\ s7 \in UpdateType
          BY <3>1 DEF Window!Plans, WindowRecords
        <4>2. s7' = [s7 EXCEPT !.at = IF f THEN "fails" ELSE "downloads", !.from = s8.recorded,
                               !.version = Window!FirstVersion]
          BY <3>1 DEF Window!Plans
        <4> QED
          BY <4>1, <4>2 DEF UpdateType
      <3>2. CASE Window!Extracts(f)
        <4>1. s7.at = "extracts" /\ s7 \in UpdateType
          BY <3>2 DEF Window!Extracts, WindowRecords
        <4>2. \/ s7' = [s7 EXCEPT !.at = "fails"]
              \/ s7' = [s7 EXCEPT !.version = @ + 1,
                                  !.at = IF s7.version = Window!Target THEN "eats" ELSE "downloads"]
          BY <3>2 DEF Window!Extracts
        <4> QED
          BY <4>1, <4>2 DEF UpdateType
      <3>3. CASE Window!Eats(f)
        BY <3>3 DEF Window!Eats, WindowRecords, UpdateType
      <3>4. CASE Window!Downloads(current, f)
        BY <3>4 DEF Window!Downloads, WindowRecords, UpdateType
      <3> QED
        BY <1>1, <3>1, <3>2, <3>3, <3>4
    <2>4. SameThreads /\ SameUpdate
      BY <2>1, <2>3 DEF SameThreads, SameUpdate
    <2> QED
      BY <2>1, <2>2, <2>4, UnseenKeeps
  <1>2. ASSUME NEW f \in BOOLEAN, Window!Records(f) PROVE Locking'
    <2>1. CASE f
      <3>1. /\ s1' = s1 /\ s2' = s2 /\ s3' = s3 /\ s4' = s4 /\ s5' = s5 /\ s9'.hasty = s9.hasty
            /\ s7.at = "records" /\ s7'.at = "fails"
        BY <1>2, <2>1 DEF Window!Records, WindowRecords, UpdateType, PastType, Window!Fault
      <3> QED
        BY <3>1, UnseenKeeps DEF SameThreads, SameUpdate
    <2>2. CASE ~f
      <3>1. /\ s1' = s1 /\ s2' = s2 /\ s4' = s4 /\ s5' = s5 /\ s9' = s9 /\ s1 # "gone"
            /\ s7.at = "records" /\ s7'.at = "none"
        BY <1>2, <2>2 DEF Window!Records, Window!NoUpdate
      <3>2. Appended("unlock")
        BY <1>2, <2>2, QueueAppended, EventKinds DEF Window!Records, Window!Unlocks, WindowParts
      <3> QED
        BY <3>1, <3>2, UnlockAppended DEF Installs
    <2> QED
      BY <2>1, <2>2
  <1>3. CASE Window!UpdateFails
    <2>1. /\ s1' = s1 /\ s2' = s2 /\ s4' = s4 /\ s5' = s5 /\ s9' = s9 /\ s1 # "gone"
          /\ s7.at = "fails" /\ s7'.at = "none"
      BY <1>3 DEF Window!UpdateFails, Window!NoUpdate
    <2>2. Appended("unlock")
      BY <1>3, QueueAppended, EventKinds DEF Window!UpdateFails, Window!Unlocks, WindowParts
    <2> QED
      BY <2>1, <2>2, UnlockAppended DEF Installs
  <1> QED
    BY <1>1, <1>2, <1>3 DEF Window!Worker

LEMMA WindowLocking ==
    ASSUME WindowParts, WindowRecords, Locking, Window!Next PROVE Locking'
  <1>1. CASE Window!CloseClicked
    <2>1. Appended("close")
      BY <1>1, QueueAppended, EventKinds DEF Window!CloseClicked, WindowParts
    <2>2. s9'.hasty = s9.hasty
      BY <1>1 DEF Window!CloseClicked, WindowRecords, PastType
    <2> QED
      BY <1>1, <2>1, <2>2, CloseAppended DEF Window!CloseClicked, Window!Up
  <1>2. ASSUME NEW c \in Clicks, Window!GameEnds(c) PROVE Locking'
    BY <1>2, UnseenKeeps DEF Window!GameEnds, SameThreads, SameUpdate
  <1> QED
    BY <1>1, <1>2, LaunchClickLocking, StartLocking, ReadyLocking, LoopLocking, StarterLocking, WorkerLocking
       DEF Window!Next, Window!Player, WindowRecords

\* The types of all but what is recorded.
LEMMA WindowPartsKeep ==
    ASSUME WindowParts, s7 \in UpdateType, Window!Next PROVE WindowParts'
  <1> USE DEF Window!Up, Window!Is, Window!Next1, Window!At, Window!Goes, Window!Doing
  <1>0. s3 \in Seq(Window!Events) /\ (s3 # <<>> => Head(s3) \in Window!Events /\ Tail(s3) \in Seq(Window!Events))
    BY KindsTyped DEF WindowParts
  <1>e. \A e \in Window!Events : Append(s3, e) \in Seq(Window!Events)
    BY <1>0
  <1>n. <<>> \in Seq(Window!Events)
    OBVIOUS
  <1>1. CASE Window!CloseClicked \/ Window!Ready \/ \E c \in Clicks : Window!LaunchClicked(c)
    <2>1. CASE Window!CloseClicked
      BY <1>e, <2>1, EventKinds DEF Window!CloseClicked, WindowParts
    <2>2. CASE Window!Ready
      BY <1>e, <2>2, EventKinds DEF Window!Ready, WindowParts
    <2>3. ASSUME NEW c \in Clicks, Window!LaunchClicked(c) PROVE WindowParts'
      <3>1. s3' \in Seq(Window!Events)
        BY <1>e, <2>3, EventKinds DEF Window!LaunchClicked
      <3> QED
        BY <2>3, <3>1 DEF Window!LaunchClicked, WindowParts
    <2> QED
      BY <1>1, <2>1, <2>2, <2>3
  <1>2. CASE \E f \in BOOLEAN : Window!Start(f)
    <2>1. /\ s1' = "blank" /\ s2' = TRUE /\ s3' = <<>> /\ s4' = FALSE
          /\ s5' = [c \in Clicks |-> "none"] /\ s6' = [c \in Clicks |-> "none"]
      BY <1>2 DEF Window!Start
    <2> QED
      BY <1>n, <2>1 DEF WindowParts
  <1>3. CASE \E c \in Clicks : Window!GameEnds(c)
    BY <1>3 DEF Window!GameEnds, WindowParts
  <1>4. CASE Window!Loop
    <2>1. s3 # <<>> /\ Head(s3) \in Window!Events /\ Tail(s3) \in Seq(Window!Events)
      BY <1>0, <1>4 DEF Window!Loop, Window!Close, Window!LaunchGame, Window!AutoUpdatePrompt, Window!SetLocked,
         Window!SetWindowVisible
    <2>2. CASE Window!Close
      <3>1. s3' \in Seq(Window!Events)
        BY <1>n, <2>1, <2>2 DEF Window!Close
      <3>2. s5' = s5 \/ s5' = [c \in Clicks |-> "none"]
        BY <2>2 DEF Window!Close
      <3>3. s1' \in {"gone", s1} /\ s2' = FALSE /\ s4' = s4 /\ s6' = s6
        BY <2>2 DEF Window!Close
      <3>4. s5' \in [Clicks -> {"none", "queued", "closes"} \cup Runners]
        <4>1. CASE s5' = s5
          BY <4>1 DEF WindowParts
        <4>2. CASE s5' = [c \in Clicks |-> "none"]
          BY <4>2
        <4> QED
          BY <3>2, <4>1, <4>2
      <3>5. s1' \in {"gone", "blank", "free", "locked"} /\ s2' \in BOOLEAN
        BY <3>3 DEF WindowParts
      <3>6. s4' \in BOOLEAN /\ s6' \in [Clicks -> {"none", "runs", "ended"}]
        BY ONLY WindowParts, <3>3 DEF WindowParts
      <3> QED
        BY <3>1, <3>4, <3>5, <3>6 DEF WindowParts
    <2>3. CASE Window!LaunchGame \/ Window!AutoUpdatePrompt
      <3>0. [is |-> "lock", to |-> TRUE] \in Window!Events
        BY EventKinds
      <3>1. Window!ThenLocks \in Seq(Window!Events)
        BY <2>1, <3>0 DEF Window!ThenLocks
      <3>2. Window!LaunchGame => Head(s3).c \in Clicks
        BY <2>1, KindsAre DEF Window!LaunchGame
      <3> QED
        BY <2>3, <3>1, <3>2 DEF Window!LaunchGame, Window!AutoUpdatePrompt, WindowParts, Runners
    <2>4. CASE Window!SetLocked \/ Window!SetWindowVisible
      <3>1. Window!SetWindowVisible => Head(s3).to \in BOOLEAN
        BY <2>1, KindsAre DEF Window!SetWindowVisible
      <3> QED
        BY <2>1, <2>4, <3>1 DEF Window!SetLocked, Window!SetWindowVisible, WindowParts
    <2> QED
      BY <1>4, <2>2, <2>3, <2>4 DEF Window!Loop
  <1>5. CASE Window!Starter
    <2>1. ASSUME NEW c \in Clicks, Window!Waits(c) \/ Window!Returns(c) PROVE WindowParts'
      BY <1>e, <2>1, EventKinds DEF Window!Waits, Window!Returns, WindowParts, Runners
    <2>2. ASSUME NEW c \in Clicks, Window!Fails(c) PROVE WindowParts'
      <3>0. [is |-> "visible", to |-> TRUE] \in Window!Events /\ [is |-> "lock", to |-> FALSE] \in Window!Events
        BY EventKinds
      <3>1. s3' \in Seq(Window!Events)
        BY <1>0, <2>2, <3>0 DEF Window!Fails
      <3> QED
        BY <2>2, <3>1 DEF Window!Fails, WindowParts, Runners
    <2>3. ASSUME NEW c \in Clicks, NEW f \in BOOLEAN, Window!CreatesGame(c, f) PROVE WindowParts'
      BY <1>e, <2>3, EventKinds DEF Window!CreatesGame, WindowParts, Runners
    <2>4. ASSUME NEW c \in Clicks, NEW f \in BOOLEAN, Window!SchedulesStage2(c, f) PROVE WindowParts'
      BY <2>4 DEF Window!SchedulesStage2, WindowParts, Runners
    <2> QED
      BY <1>5, <2>1, <2>2, <2>3, <2>4 DEF Window!Starter
  <1>6. CASE Window!Worker
    <2>1. s1' = s1 /\ s2' = s2 /\ s4' = s4 /\ s5' = s5 /\ s6' = s6 /\ (s3' = s3 \/ s3' = Window!Unlocks)
      BY <1>6 DEF Window!Worker, Window!Plans, Window!Extracts, Window!Eats, Window!Downloads, Window!Records,
         Window!UpdateFails
    <2>2. Window!Unlocks \in Seq(Window!Events)
      BY <1>e, EventKinds DEF Window!Unlocks
    <2> QED
      BY <2>1, <2>2 DEF WindowParts
  <1> QED
    BY <1>1, <1>2, <1>3, <1>4, <1>5, <1>6 DEF Window!Next, Window!Player

\* The progress is a percentage.
LEMMA NatQuotient == ASSUME NEW a \in Nat, NEW b \in Nat \ {0} PROVE a \div b \in Nat
  OBVIOUS

LEMMA NatProduct == ASSUME NEW a \in Nat, NEW b \in Nat PROVE a * b \in Nat
  OBVIOUS

LEMMA PercentIsOne ==
    ASSUME s7.version \in Nat, s7.from \in Nat, s8.offered \in Nat, s7.from < s7.version, s7.version <= s8.offered,
           NEW current \in {95, 100}
    PROVE  Window!Percent(current) \in 0 .. 100
  <1>1. Window!Count \in Nat \ {0}
    BY DEF Window!Count, Window!Target
  <1>2. Window!PctPerZip \in Nat
    BY <1>1, NatQuotient DEF Window!PctPerZip
  <1>3. s7.version - s7.from - 1 \in Nat
    OBVIOUS
  <1>4. (s7.version - s7.from - 1) * Window!PctPerZip \in Nat
    BY <1>2, <1>3, NatProduct
  <1>5. (current * Window!PctPerZip) \div 100 \in Nat
    BY <1>2, NatProduct, NatQuotient
  <1> QED
    BY <1>4, <1>5 DEF Window!Percent, Window!Limit

\* What is recorded, installed and counted, and the history, keep their types.
LEMMA PastTypes ==
    ASSUME Window!WindowAssumption, WindowRecords
    PROVE  /\ Window!CanFail => Window!Fault \in PastType /\ [Window!Fault EXCEPT !.orphan = TRUE] \in PastType
           /\ s9.closes < MaxCloses => [s9 EXCEPT !.closes = @ + 1] \in PastType
           /\ \A b \in BOOLEAN : [s9 EXCEPT !.hasty = @ \/ b] \in PastType
           /\ s9.starts < MaxStarts[Window!Target] =>
                 [s9 EXCEPT !.starts = @ + 1, !.closes = 0, !.hasty = FALSE, !.orphan = FALSE] \in PastType
  <1>1. MaxCloses \in Nat /\ MaxFaults \in Nat /\ MaxStarts[s8.offered] \in Nat
    BY DEF Window!WindowAssumption, WindowRecords, DiskType
  <1>2. s9 \in PastType
    BY DEF WindowRecords
  <1>3. Window!CanFail => s9.faults + 1 \in 0 .. MaxFaults
    BY <1>1, <1>2 DEF Window!CanFail, PastType
  <1>4. Window!CanFail => Window!Fault \in PastType
    BY <1>2, <1>3 DEF Window!Fault, PastType
  <1>5. Window!CanFail => [Window!Fault EXCEPT !.orphan = TRUE] \in PastType
    BY <1>4 DEF PastType
  <1>6. s9.closes < MaxCloses => [s9 EXCEPT !.closes = @ + 1] \in PastType
    <2>1. s9.closes < MaxCloses => s9.closes + 1 \in 0 .. MaxCloses
      BY <1>1, <1>2 DEF PastType
    <2> QED
      BY <1>2, <2>1 DEF PastType
  <1>7. ASSUME NEW b \in BOOLEAN PROVE [s9 EXCEPT !.hasty = @ \/ b] \in PastType
    BY <1>2 DEF PastType
  <1>8. s9.starts < MaxStarts[Window!Target] =>
          [s9 EXCEPT !.starts = @ + 1, !.closes = 0, !.hasty = FALSE, !.orphan = FALSE] \in PastType
    <2>1. s9.starts < MaxStarts[Window!Target] => s9.starts + 1 \in 0 .. MaxStarts[s8.offered]
      BY <1>1, <1>2 DEF PastType, Window!Target
    <2>2. 0 \in 0 .. MaxCloses
      BY <1>1
    <2> QED
      BY <1>2, <2>1, <2>2 DEF PastType
  <1> QED
    BY <1>4, <1>5, <1>6, <1>7, <1>8

\* The files of the game, and what is said of them.
DiskSafe == UpdateGoesOn /\ Window!RecordedIsEaten /\ Window!NoOldFiles

LEMMA RecordsAre ==
    ASSUME Window!WindowAssumption, WindowRecords
    PROVE  /\ s8.offered \in Nat /\ s8.recorded \in 0 .. s8.offered /\ s8.last \in 0 .. s8.offered
           /\ s8.extracted \subseteq 1 .. s8.offered /\ s8.eaten \subseteq s8.extracted
           /\ s7.at \in Window!Steps /\ s7.from \in 0 .. s8.offered /\ s7.version \in 0 .. s8.offered + 1
           /\ s7.percent \in 0 .. 100
  BY DEF Window!WindowAssumption, WindowRecords, DiskType, UpdateType

\* A step that leaves the files alone.
LEMMA DiskStays ==
    ASSUME WindowRecords, DiskSafe, s8' = s8, s7' \in UpdateType, s9' \in PastType, UpdateGoesOn'
    PROVE  WindowRecords' /\ DiskSafe'
  BY DEF WindowRecords, UpdateType, DiskType, PastType, DiskSafe, Window!RecordedIsEaten, Window!NoOldFiles

LEMMA NoUpdateTyped ==
    ASSUME Window!WindowAssumption, WindowRecords
    PROVE  /\ Window!NoUpdate \in UpdateType /\ Window!NoUpdate.at = "none"
           /\ \A at \in {"none", "pending"} :
                 [Window!NoUpdate EXCEPT !.at = at] \in UpdateType /\ [Window!NoUpdate EXCEPT !.at = at].at = at
           /\ [Window!NoUpdate EXCEPT !.percent = 100] \in UpdateType
           /\ [Window!NoUpdate EXCEPT !.percent = 100].at = "none"
           /\ \A at \in Window!Steps : [s7 EXCEPT !.at = at] \in UpdateType /\ [s7 EXCEPT !.at = at].at = at
           /\ \A at \in Window!Steps : [s7 EXCEPT !.at = at].from = s7.from /\ [s7 EXCEPT !.at = at].version = s7.version
  <1>1. s8.offered \in Nat /\ s7 \in UpdateType
    BY RecordsAre DEF WindowRecords
  <1>2. Window!NoUpdate \in UpdateType
    BY <1>1 DEF Window!NoUpdate, UpdateType, Window!Steps
  <1>3. {"none", "pending"} \subseteq Window!Steps
    BY DEF Window!Steps
  <1> QED
    BY <1>1, <1>2, <1>3 DEF UpdateType, Window!NoUpdate

LEMMA OthersDisk ==
    ASSUME Window!WindowAssumption, WindowParts, WindowRecords, DiskSafe, PromptedOnce,
           Window!Next, ~Window!Worker
    PROVE  WindowRecords' /\ DiskSafe'
  <1>1. s8' = s8
    BY DEF Window!Next, Window!Player, Window!CloseClicked, Window!LaunchClicked, Window!GameEnds, Window!Start,
       Window!Ready, Window!Loop, Window!Close, Window!LaunchGame, Window!AutoUpdatePrompt, Window!SetLocked,
       Window!SetWindowVisible, Window!Starter, Window!Waits, Window!Returns, Window!Fails, Window!CreatesGame,
       Window!SchedulesStage2
  <1>2. s9' \in PastType
    <2>0. s9 \in PastType
      BY DEF WindowRecords
    <2>1. ASSUME NEW c \in Clicks, Window!LaunchClicked(c) PROVE s9' \in PastType
      <3>1. Window!Coming \in BOOLEAN
        BY DEF Window!Coming
      <3> QED
        BY <2>1, <3>1, PastTypes DEF Window!LaunchClicked
    <2>2. CASE Window!CloseClicked \/ \E f \in BOOLEAN : Window!Start(f)
      BY <2>2, PastTypes DEF Window!CloseClicked, Window!Start
    <2>3. CASE Window!Loop \/ Window!Ready \/ \E c \in Clicks : Window!GameEnds(c)
      BY <2>0, <2>3 DEF Window!Loop, Window!Close, Window!LaunchGame, Window!AutoUpdatePrompt, Window!SetLocked,
         Window!SetWindowVisible, Window!Ready, Window!GameEnds
    <2>4. CASE Window!Starter
      BY <2>0, <2>4, PastTypes DEF Window!Starter, Window!Waits, Window!Returns, Window!Fails, Window!CreatesGame,
         Window!SchedulesStage2
    <2> QED
      BY <2>1, <2>2, <2>3, <2>4 DEF Window!Next, Window!Player
  <1>3. s7' = s7 \/ \E f \in BOOLEAN : Window!Start(f) \/ Window!Close \/ Window!AutoUpdatePrompt
    BY DEF Window!Next, Window!Player, Window!CloseClicked, Window!LaunchClicked, Window!GameEnds,
       Window!Ready, Window!Loop, Window!LaunchGame, Window!SetLocked,
       Window!SetWindowVisible, Window!Starter, Window!Waits, Window!Returns, Window!Fails, Window!CreatesGame,
       Window!SchedulesStage2
  <1>4. CASE s7' = s7
    BY <1>1, <1>2, <1>4, DiskStays DEF WindowRecords, DiskSafe, UpdateGoesOn, Fresh
  <1>5. ASSUME NEW f \in BOOLEAN, Window!Start(f) PROVE WindowRecords' /\ DiskSafe'
    <2>1. s7' \in UpdateType /\ s7'.at \in {"none", "pending"} /\ (s7'.at = "pending" => s8.offered > s8.recorded)
      <3>1. CASE f /\ Window!Target > s8.recorded
        BY <1>5, <3>1, NoUpdateTyped DEF Window!Start, Window!Target
      <3>2. CASE ~(f /\ Window!Target > s8.recorded)
        BY <1>5, <3>2, NoUpdateTyped DEF Window!Start
      <3> QED
        BY <3>1, <3>2
    <2>2. s8.recorded < s8.offered <=> s8.offered > s8.recorded
      BY RecordsAre
    <2>3. UpdateGoesOn'
      BY <1>1, <2>1, <2>2 DEF UpdateGoesOn
    <2> QED
      BY <1>1, <1>2, <2>1, <2>3, DiskStays
  <1>6. CASE Window!Close
    <2>1. CASE s7' = Window!NoUpdate
      BY <1>1, <1>2, <2>1, NoUpdateTyped, DiskStays DEF UpdateGoesOn
    <2> QED
      BY <1>4, <1>6, <2>1 DEF Window!Close
  <1>7. CASE Window!AutoUpdatePrompt
    <2>1. s7.at = "pending"
      <3>1. s3 \in Seq(Window!Events) /\ s3 # <<>> /\ Head(s3).is = "prompt"
        BY <1>7 DEF Window!AutoUpdatePrompt, Window!Is, Window!Next1, WindowParts
      <3>2. Len(s3) \in Nat /\ Len(s3) # 0 /\ Kinds[1] = "prompt"
        BY <3>1, KindsTyped, KindsAre
      <3>3. 1 \in Positions
        BY <3>2 DEF Positions
      <3> QED
        BY <3>2, <3>3 DEF PromptedOnce
    <2>2. s7' = [s7 EXCEPT !.at = "begins"] /\ "begins" \in Window!Steps
      BY <1>7 DEF Window!AutoUpdatePrompt, Window!Steps
    <2>3. s7' \in UpdateType /\ s7'.at = "begins"
      BY <2>2, NoUpdateTyped
    <2>4. UpdateGoesOn'
      BY <1>1, <2>1, <2>3 DEF DiskSafe, UpdateGoesOn
    <2> QED
      BY <1>1, <1>2, <2>3, <2>4, DiskStays
  <1> QED
    BY <1>3, <1>4, <1>5, <1>6, <1>7

\* What the thread of an update does to what it is at.
LEMMA UpdatePlanned ==
    ASSUME WindowRecords, NEW at \in Window!Steps, NEW from \in 0 .. s8.offered, NEW version \in 0 .. s8.offered + 1,
           s7' = [s7 EXCEPT !.at = at, !.from = from, !.version = version]
    PROVE  s7' \in UpdateType /\ s7'.at = at /\ s7'.from = from /\ s7'.version = version
  BY DEF WindowRecords, UpdateType

LEMMA UpdateProgresses ==
    ASSUME WindowRecords, NEW at \in Window!Steps, NEW percent \in 0 .. 100,
           \/ s7' = [s7 EXCEPT !.percent = percent] /\ s7.at = at
           \/ s7' = [s7 EXCEPT !.percent = percent, !.at = at]
    PROVE  s7' \in UpdateType /\ s7'.at = at /\ s7'.from = s7.from /\ s7'.version = s7.version
  BY DEF WindowRecords, UpdateType

LEMMA UpdateAdvances ==
    ASSUME WindowRecords, NEW at \in Window!Steps, NEW version \in 0 .. s8.offered + 1,
           s7' = [s7 EXCEPT !.version = version, !.at = at]
    PROVE  s7' \in UpdateType /\ s7'.at = at /\ s7'.from = s7.from /\ s7'.version = version
  BY DEF WindowRecords, UpdateType

LEMMA UpdateStepsAre == {"none", "pending", "begins", "downloads", "extracts", "eats", "records", "fails"} = Window!Steps
  BY DEF Window!Steps

LEMMA PlansDisk ==
    ASSUME Window!WindowAssumption, WindowRecords, DiskSafe, NEW f \in BOOLEAN, Window!Plans(f)
    PROVE  WindowRecords' /\ DiskSafe'
  <1>1. /\ s8' = s8 /\ s7.at = "begins" /\ (f => Window!CanFail) /\ s9' = IF f THEN Window!Fault ELSE s9
        /\ s7' = [s7 EXCEPT !.at = IF f THEN "fails" ELSE "downloads", !.from = s8.recorded,
                             !.version = s8.recorded + 1]
    BY DEF Window!Plans, Window!Doing, Window!FirstVersion
  <1>2. s8.recorded < s8.offered /\ s8.recorded + 1 \in 0 .. s8.offered + 1 /\ s8.recorded \in Nat /\ s8.offered \in Nat
    BY <1>1, RecordsAre DEF DiskSafe, UpdateGoesOn
  <1>3. /\ s7' \in UpdateType /\ s7'.at = (IF f THEN "fails" ELSE "downloads") /\ s7'.from = s8.recorded
        /\ s7'.version = s8.recorded + 1
    <2>1. (IF f THEN "fails" ELSE "downloads") \in Window!Steps
      BY UpdateStepsAre
    <2>2. s8.recorded \in 0 .. s8.offered
      BY RecordsAre
    <2> QED
      BY <1>1, <1>2, <2>1, <2>2, UpdatePlanned
  <1>4. s9' \in PastType
    BY <1>1, PastTypes DEF WindowRecords
  <1>5. s7'.at = "downloads" => s7'.version \in Fresh .. s8.offered /\ Fresh .. s7'.version - 1 = {}
    BY <1>2, <1>3 DEF Fresh
  <1>6. UpdateGoesOn'
    BY <1>1, <1>2, <1>3, <1>5 DEF UpdateGoesOn, Fresh
  <1> QED
    BY <1>1, <1>3, <1>4, <1>6, DiskStays

LEMMA DownloadsDisk ==
    ASSUME Window!WindowAssumption, WindowRecords, DiskSafe, NEW f \in BOOLEAN, NEW current \in {95, 100},
           Window!Downloads(current, f)
    PROVE  WindowRecords' /\ DiskSafe'
  <1>1. s8' = s8 /\ s7.at = "downloads"
    BY DEF Window!Downloads, Window!Doing
  <1>2. /\ s7.from = s8.recorded /\ s7.version \in Fresh .. s8.offered
        /\ s8.recorded \in Nat /\ s8.offered \in Nat
    BY <1>1, RecordsAre DEF DiskSafe, UpdateGoesOn
  <1>3. Window!Percent(current) \in 0 .. 100
    BY <1>2, PercentIsOne DEF Fresh
  <1>4. s9' \in PastType
    BY PastTypes DEF Window!Downloads, WindowRecords
  <1>5. /\ s7' \in UpdateType /\ s7'.at \in {"fails", "downloads", "extracts"} /\ s7'.from = s7.from
        /\ s7'.version = s7.version
    <2>1. {"fails", "downloads", "extracts"} \subseteq Window!Steps
      BY UpdateStepsAre
    <2>2. CASE s7' = [s7 EXCEPT !.at = "fails"]
      BY <2>1, <2>2, NoUpdateTyped
    <2>3. CASE s7' = [s7 EXCEPT !.percent = Window!Percent(current)]
      BY <1>1, <1>3, <2>1, <2>3, UpdateProgresses
    <2>4. CASE s7' = [s7 EXCEPT !.percent = Window!Percent(current), !.at = "extracts"]
      BY <1>3, <2>1, <2>4, UpdateProgresses
    <2> QED
      BY <2>2, <2>3, <2>4 DEF Window!Downloads
  <1>6. UpdateGoesOn'
    BY <1>1, <1>5 DEF UpdateGoesOn, DiskSafe, Fresh
  <1> QED
    BY <1>1, <1>4, <1>5, <1>6, DiskStays

LEMMA ExtractsDisk ==
    ASSUME Window!WindowAssumption, WindowRecords, DiskSafe, NEW f \in BOOLEAN, Window!Extracts(f)
    PROVE  WindowRecords' /\ DiskSafe'
  <1>0. /\ s8.offered \in Nat /\ s8.recorded \in 0 .. s8.offered /\ s8.last \in 0 .. s8.offered
        /\ s8.extracted \subseteq 1 .. s8.offered /\ s8.eaten \subseteq s8.extracted
        /\ s8 \in DiskType
    BY RecordsAre DEF WindowRecords
  <1>1. s7.at = "extracts"
    BY DEF Window!Extracts, Window!Doing
  <1>2. /\ s7.from = s8.recorded /\ s7.version \in s8.recorded + 1 .. s8.offered
        /\ s8.recorded + 1 .. s7.version - 1 \subseteq s8.extracted /\ s8.recorded < s8.offered
    BY <1>1 DEF DiskSafe, UpdateGoesOn, Fresh
  <1>3. s7.version \in 1 .. s8.offered /\ s7.version \in 0 .. s8.offered /\ s7.version \notin 1 .. s8.recorded
    BY <1>0, <1>2
  <1>4. s9' \in PastType
    BY PastTypes DEF Window!Extracts, WindowRecords
  <1>5. 1 .. s8.recorded \subseteq s8.eaten
    BY DEF DiskSafe, Window!RecordedIsEaten
  <1>6. CASE f
    <2>1. /\ s7' = [s7 EXCEPT !.at = "fails"]
          /\ s8' = [s8 EXCEPT !.extracted = @ \ {s7.version}, !.eaten = @ \ {s7.version}, !.last = s7.version]
      BY <1>6 DEF Window!Extracts
    <2>2. /\ s8'.offered = s8.offered /\ s8'.recorded = s8.recorded /\ s8'.last = s7.version
          /\ s8'.extracted = s8.extracted \ {s7.version} /\ s8'.eaten = s8.eaten \ {s7.version}
          /\ s8' \in DiskType
      BY <1>0, <1>3, <2>1 DEF DiskType
    <2>3. s7' \in UpdateType /\ s7'.at = "fails"
      BY <2>1, NoUpdateTyped, UpdateStepsAre
    <2>4. WindowRecords'
      BY <1>0, <1>4, <2>2, <2>3 DEF WindowRecords, UpdateType, DiskType, PastType
    <2>5. Window!RecordedIsEaten' /\ Window!NoOldFiles'
      BY <1>0, <1>2, <1>3, <1>5, <2>2 DEF Window!RecordedIsEaten, Window!NoOldFiles
    <2> QED
      BY <2>3, <2>4, <2>5 DEF DiskSafe, UpdateGoesOn
  <1>7. CASE ~f
    <2>1. /\ s7' = [s7 EXCEPT !.version = @ + 1, !.at = IF s7.version = s8.offered THEN "eats" ELSE "downloads"]
          /\ s8' = [s8 EXCEPT !.extracted = @ \cup {s7.version}, !.eaten = @ \ {s7.version}, !.last = s7.version]
      BY <1>7 DEF Window!Extracts, Window!Target
    <2>2. /\ s8'.offered = s8.offered /\ s8'.recorded = s8.recorded /\ s8'.last = s7.version
          /\ s8'.extracted = s8.extracted \cup {s7.version} /\ s8'.eaten = s8.eaten \ {s7.version}
          /\ s8' \in DiskType
      BY <1>0, <1>3, <2>1 DEF DiskType
    <2>3. /\ s7' \in UpdateType /\ s7'.at = (IF s7.version = s8.offered THEN "eats" ELSE "downloads")
          /\ s7'.version = s7.version + 1 /\ s7'.from = s7.from
      <3>1. s7.version + 1 \in 0 .. s8.offered + 1
        BY <1>0, <1>3
      <3>2. (IF s7.version = s8.offered THEN "eats" ELSE "downloads") \in Window!Steps
        BY UpdateStepsAre
      <3> QED
        BY <2>1, <3>1, <3>2, UpdateAdvances
    <2>4. WindowRecords'
      BY <1>0, <1>4, <2>2, <2>3 DEF WindowRecords, UpdateType, DiskType, PastType
    <2>5. Window!RecordedIsEaten' /\ Window!NoOldFiles'
      BY <1>0, <1>2, <1>3, <1>5, <2>2 DEF Window!RecordedIsEaten, Window!NoOldFiles
    <2>6. s8.recorded + 1 .. s7.version \subseteq s8.extracted \cup {s7.version}
      BY <1>0, <1>2, <1>3
    <2>7. CASE s7.version = s8.offered
      <3>1. s7'.at = "eats" /\ s8'.last = s8'.offered
        BY <2>2, <2>3, <2>7
      <3>2. s8'.recorded < s8'.offered /\ s8'.recorded + 1 .. s8'.offered \subseteq s8'.extracted
        BY <1>2, <2>2, <2>6, <2>7
      <3>3. UpdateGoesOn'
        BY <3>1, <3>2 DEF UpdateGoesOn, Fresh
      <3> QED
        BY <2>4, <2>5, <3>3 DEF DiskSafe
    <2>8. CASE s7.version # s8.offered
      <3>1. s7.version + 1 \in s8.recorded + 1 .. s8.offered /\ (s7.version + 1) - 1 = s7.version
        BY <1>0, <1>2, <1>3, <2>8
      <3> QED
        <4>1. s7'.at = "downloads" /\ s7'.from = s8'.recorded
          BY <1>2, <2>2, <2>3, <2>8
        <4>2. s7'.version \in s8'.recorded + 1 .. s8'.offered /\ s8'.recorded < s8'.offered
          BY <1>2, <2>2, <2>3, <3>1
        <4>3. s8'.recorded + 1 .. s7'.version - 1 \subseteq s8'.extracted
          BY <2>2, <2>3, <2>6, <3>1
        <4>4. UpdateGoesOn'
          BY <4>1, <4>2, <4>3 DEF UpdateGoesOn, Fresh
        <4> QED
          BY <2>4, <2>5, <4>4 DEF DiskSafe
    <2> QED
      BY <2>7, <2>8
  <1> QED
    BY <1>6, <1>7

LEMMA EatsDisk ==
    ASSUME Window!WindowAssumption, WindowRecords, DiskSafe, NEW f \in BOOLEAN, Window!Eats(f) \/ Window!Records(f)
    PROVE  WindowRecords' /\ DiskSafe'
  <1>0. /\ s8.offered \in Nat /\ s8.recorded \in 0 .. s8.offered /\ s8.last \in 0 .. s8.offered
        /\ s8.extracted \subseteq 1 .. s8.offered /\ s8.eaten \subseteq s8.extracted
        /\ s8 \in DiskType
    BY RecordsAre DEF WindowRecords
  <1>1. s9' \in PastType
    BY PastTypes DEF Window!Eats, Window!Records, WindowRecords
  <1>2. {"fails", "records"} \subseteq Window!Steps
    BY UpdateStepsAre
  <1>3. /\ s7.at \in {"eats", "records"} /\ s8.recorded < s8.offered
        /\ s8.last = s8.offered /\ s8.recorded + 1 .. s8.offered \subseteq s8.extracted
        /\ (s7.at = "records" => 1 .. s8.offered \subseteq s8.eaten)
        /\ 1 .. s8.recorded \subseteq s8.eaten
    BY DEF Window!Eats, Window!Records, Window!Doing, DiskSafe, UpdateGoesOn, Fresh, Window!RecordedIsEaten
  <1>4. CASE f
    <2>1. s8' = s8 /\ s7' = [s7 EXCEPT !.at = "fails"]
      BY <1>4 DEF Window!Eats, Window!Records
    <2>2. s7' \in UpdateType /\ s7'.at = "fails"
      BY <1>2, <2>1, NoUpdateTyped
    <2> QED
      BY <1>1, <2>1, <2>2, DiskStays DEF UpdateGoesOn
  <1>5. CASE Window!Eats(f) /\ ~f
    <2>1. s7' = [s7 EXCEPT !.at = "records"] /\ s8' = [s8 EXCEPT !.eaten = s8.extracted]
      BY <1>5 DEF Window!Eats
    <2>2. /\ s8'.offered = s8.offered /\ s8'.recorded = s8.recorded /\ s8'.last = s8.last
          /\ s8'.extracted = s8.extracted /\ s8'.eaten = s8.extracted /\ s8' \in DiskType
      BY <1>0, <2>1 DEF DiskType
    <2>3. s7' \in UpdateType /\ s7'.at = "records"
      BY <1>2, <2>1, NoUpdateTyped
    <2>4. WindowRecords'
      BY <1>0, <1>1, <2>2, <2>3 DEF WindowRecords, UpdateType, DiskType, PastType
    <2>5. 1 .. s8.offered \subseteq s8.extracted /\ 1 .. s8.recorded \subseteq s8.extracted
      BY <1>0, <1>3
    <2>6. Window!RecordedIsEaten' /\ Window!NoOldFiles'
      BY <2>2, <2>5 DEF DiskSafe, Window!RecordedIsEaten, Window!NoOldFiles
    <2>7. UpdateGoesOn'
      BY <1>3, <2>2, <2>3, <2>5 DEF UpdateGoesOn, Fresh
    <2> QED
      BY <2>4, <2>6, <2>7 DEF DiskSafe
  <1>6. CASE Window!Records(f) /\ ~f
    <2>1. s7.at = "records" /\ s7' = [Window!NoUpdate EXCEPT !.percent = 100] /\ s8' = [s8 EXCEPT !.recorded = s8.offered]
      BY <1>6 DEF Window!Records, Window!Target, Window!Doing
    <2>2. /\ s8'.offered = s8.offered /\ s8'.recorded = s8.offered /\ s8'.last = s8.last
          /\ s8'.extracted = s8.extracted /\ s8'.eaten = s8.eaten /\ s8' \in DiskType
      <3>1. s8.offered \in 0 .. s8.offered
        BY <1>0
      <3> QED
        BY <1>0, <2>1, <3>1 DEF DiskType
    <2>3. s7' \in UpdateType /\ s7'.at = "none"
      BY <2>1, NoUpdateTyped
    <2>4. WindowRecords'
      BY <1>0, <1>1, <2>2, <2>3 DEF WindowRecords, UpdateType, DiskType, PastType
    <2>5. s8.offered <= s8.offered
      BY <1>0
    <2>6. Window!RecordedIsEaten' /\ Window!NoOldFiles'
      BY <1>3, <2>1, <2>2, <2>5 DEF Window!RecordedIsEaten, Window!NoOldFiles
    <2> QED
      BY <2>3, <2>4, <2>6 DEF DiskSafe, UpdateGoesOn
  <1> QED
    BY <1>4, <1>5, <1>6

LEMMA WindowDisk ==
    ASSUME Window!WindowAssumption, WindowParts, WindowRecords, DiskSafe, PromptedOnce, Window!Next
    PROVE  WindowRecords' /\ DiskSafe'
  <1>1. CASE Window!UpdateFails
    <2>1. s8' = s8 /\ s9' = s9 /\ s7' = Window!NoUpdate
      BY <1>1 DEF Window!UpdateFails
    <2> QED
      BY <2>1, NoUpdateTyped, DiskStays DEF UpdateGoesOn, WindowRecords
  <1> QED
    BY <1>1, OthersDisk, PlansDisk, DownloadsDisk, ExtractsDisk, EatsDisk DEF Window!Worker

\* The games and the threads that wait for them.
GamesSafe == GamesAreWaitedFor /\ Window!ProxyStays
GameThreads == \A c \in Clicks : s6[c] = "runs" => s5[c] \in {"schedules", "waits"}

LEMMA GamesStay ==
    ASSUME GamesSafe, s1' = "gone" <=> s1 = "gone", s9'.orphan = s9.orphan, s9.hasty => s9'.hasty,
           s9'.starts = s9.starts,
           GameThreads => GameThreads',
           \A c \in Clicks : s1 = "gone" /\ s6'[c] = "runs" => s6[c] = "runs"
    PROVE  GamesSafe'
  BY DEF GamesSafe, GamesAreWaitedFor, Window!ProxyStays, GameThreads, Window!Up

LEMMA PastStays ==
    ASSUME WindowRecords
    PROVE  /\ Window!Fault.orphan = s9.orphan /\ Window!Fault.hasty = s9.hasty /\ Window!Fault.starts = s9.starts
           /\ [Window!Fault EXCEPT !.orphan = TRUE].orphan
           /\ LET past == [s9 EXCEPT !.closes = @ + 1] IN
              past.orphan = s9.orphan /\ past.hasty = s9.hasty /\ past.starts = s9.starts
           /\ \A b \in BOOLEAN :
                 LET past == [s9 EXCEPT !.hasty = @ \/ b] IN
                 past.orphan = s9.orphan /\ (s9.hasty => past.hasty) /\ past.starts = s9.starts
  BY DEF WindowRecords, PastType, Window!Fault

LEMMA StarterGames ==
    ASSUME WindowParts, WindowRecords, GamesSafe, Window!Starter PROVE GamesSafe'
  <1> USE DEF Window!At, Window!Goes, Window!Up
  <1>1. s1' = s1 /\ s1 # "gone"
    BY DEF Window!Starter, Window!Waits, Window!Returns, Window!Fails, Window!CreatesGame, Window!SchedulesStage2
  <1>2. ASSUME NEW c \in Clicks, Window!Waits(c) \/ Window!Returns(c) \/ Window!Fails(c) PROVE GamesSafe'
    <2>1. s6' = s6 /\ s9' = s9
      BY <1>2 DEF Window!Waits, Window!Returns, Window!Fails
    <2>2. \A d \in Clicks : d # c => s5'[d] = s5[d]
      BY <1>2 DEF Window!Waits, Window!Returns, Window!Fails, WindowParts
    <2>3. s5[c] \in {"schedules", "waits"} => s6[c] = "ended"
      BY <1>2 DEF Window!Waits, Window!Returns, Window!Fails
    <2>4. GameThreads => GameThreads'
      BY <2>1, <2>2, <2>3 DEF GameThreads
    <2> QED
      BY <1>1, <2>1, <2>4, GamesStay
  <1>3. ASSUME NEW c \in Clicks, NEW f \in BOOLEAN, Window!CreatesGame(c, f) PROVE GamesSafe'
    <2>1. s5[c] = "creates" /\ \A d \in Clicks : d # c => s5'[d] = s5[d] /\ s6'[d] = s6[d]
      BY <1>3 DEF Window!CreatesGame, WindowParts
    <2>2. (s9' = s9 \/ s9' = Window!Fault) /\ (s6' = s6 \/ s5'[c] = "schedules")
      BY <1>3 DEF Window!CreatesGame, WindowParts
    <2>3. GameThreads => GameThreads'
      BY <2>1, <2>2 DEF GameThreads
    <2>4. s9'.orphan = s9.orphan /\ s9'.hasty = s9.hasty /\ s9'.starts = s9.starts
      BY <2>2, PastStays
    <2> QED
      BY <1>1, <2>3, <2>4, GamesStay
  <1>4. ASSUME NEW c \in Clicks, NEW f \in BOOLEAN, Window!SchedulesStage2(c, f) PROVE GamesSafe'
    <2>1. CASE f
      BY <1>1, <1>4, <2>1, PastStays DEF Window!SchedulesStage2, GamesSafe, GamesAreWaitedFor, Window!ProxyStays
    <2>2. CASE ~f
      <3>1. /\ s6' = s6 /\ s9' = s9 /\ s5' = [s5 EXCEPT ![c] = IF Proxy THEN "waits" ELSE "returns"]
        BY <1>4, <2>2 DEF Window!SchedulesStage2
      <3>2. Proxy => s5'[c] = "waits" /\ \A d \in Clicks : d # c => s5'[d] = s5[d]
        BY <3>1 DEF WindowParts
      <3>3. GamesAreWaitedFor'
        BY <1>1, <3>1, <3>2 DEF GamesSafe, GamesAreWaitedFor
      <3> QED
        BY <1>1, <3>3 DEF GamesSafe, Window!ProxyStays
    <2> QED
      BY <2>1, <2>2
  <1> QED
    BY <1>2, <1>3, <1>4 DEF Window!Starter

LEMMA LoopGames ==
    ASSUME WindowParts, Locking, GamesSafe, Window!Loop PROVE GamesSafe'
  <1> USE DEF Window!Is, Window!Next1, Window!Up
  <1>1. CASE Window!Close
    <2>1. CASE s4
      BY <1>1, <2>1, GamesStay DEF Window!Close, Window!Exits, GameThreads
    <2>2. CASE ~s4
      <3>1. s1' = "gone" /\ s6' = s6 /\ s9' = s9 /\ s1 # "gone"
        BY <1>1, <2>2 DEF Window!Close, Window!Exits
      <3>2. ~s9.hasty => \A c \in Clicks : s5[c] \notin Runners
        BY <2>2 DEF Locking, Unhurried, OneActive
      <3> QED
        BY <3>1, <3>2 DEF GamesSafe, GamesAreWaitedFor, Window!ProxyStays, Runners
    <2> QED
      BY <2>1, <2>2
  <1>2. CASE Window!LaunchGame
    <2>1. /\ s3 \in Seq(Window!Events) /\ s3 # <<>> /\ Head(s3).is = "launch" /\ s1 # "gone" /\ s1' = s1
          /\ s6' = s6 /\ s9' = s9 /\ s5' = [s5 EXCEPT ![Head(s3).c] = "creates"]
      BY <1>2 DEF Window!LaunchGame, WindowParts
    <2>2. Len(s3) \in Nat /\ Len(s3) # 0 /\ Kinds[1] = "launch" /\ Head(s3).c \in Clicks
      BY <2>1, KindsTyped, KindsAre
    <2>3. 1 \in Positions
      BY <2>2 DEF Positions
    <2>4. ASSUME ~s9.hasty PROVE \A c \in Clicks : ~Engaged(c)
      <3>1. OneOfAKind /\ LocksFit
        BY <2>4 DEF Locking, Unhurried
      <3>2. s1 # "locked" /\ ~Queued({"lock"})
        BY <2>2, <2>3, <3>1 DEF OneOfAKind, LocksFit, Queued, Lockers
      <3> QED
        BY <3>1, <3>2 DEF LocksFit, Active
    <2>5. GamesAreWaitedFor'
      <3> SUFFICES ASSUME Proxy, ~s9.hasty, ~s9.orphan, NEW c \in Clicks, s6[c] = "runs"
                   PROVE  FALSE
        BY <2>1 DEF GamesAreWaitedFor
      <3>1. s5[c] \in {"schedules", "waits"}
        BY <2>1 DEF GamesSafe, GamesAreWaitedFor
      <3> QED
        BY <2>4, <3>1 DEF Engaged, Runners
    <2> QED
      BY <2>1, <2>5 DEF GamesSafe, Window!ProxyStays
  <1>3. CASE Window!AutoUpdatePrompt \/ Window!SetLocked \/ Window!SetWindowVisible
    <2>1. s5' = s5 /\ s6' = s6 /\ s9' = s9 /\ s1 # "gone" /\ s1' # "gone"
      BY <1>3 DEF Window!AutoUpdatePrompt, Window!SetLocked, Window!SetWindowVisible
    <2> QED
      BY <2>1, GamesStay DEF GameThreads
  <1> QED
    BY <1>1, <1>2, <1>3 DEF Window!Loop

LEMMA WindowGames ==
    ASSUME WindowParts, WindowRecords, Locking, GamesSafe, Window!Next PROVE GamesSafe'
  <1> USE DEF Window!Up
  <1>1. ASSUME NEW f \in BOOLEAN, Window!Start(f) PROVE GamesSafe'
    BY <1>1 DEF Window!Start, GamesSafe, GamesAreWaitedFor, Window!ProxyStays
  <1>2. CASE Window!CloseClicked
    BY <1>2, PastStays, GamesStay DEF Window!CloseClicked, GameThreads
  <1>3. ASSUME NEW c \in Clicks, Window!LaunchClicked(c) PROVE GamesSafe'
    <2>1. Window!Coming \in BOOLEAN
      BY DEF Window!Coming
    <2>2. /\ s1' = s1 /\ s6' = s6 /\ s6[c] = "none" /\ s9' = [s9 EXCEPT !.hasty = @ \/ Window!Coming]
          /\ \A d \in Clicks : d # c => s5'[d] = s5[d]
      BY <1>3 DEF Window!LaunchClicked, WindowParts
    <2>3. GameThreads => GameThreads'
      BY <2>2 DEF GameThreads
    <2>4. s9'.orphan = s9.orphan /\ (s9.hasty => s9'.hasty) /\ s9'.starts = s9.starts
      BY <2>1, <2>2, PastStays
    <2> QED
      BY <2>2, <2>3, <2>4, GamesStay
  <1>4. ASSUME NEW c \in Clicks, Window!GameEnds(c) PROVE GamesSafe'
    <2>1. /\ s1' = s1 /\ s5' = s5 /\ s9' = s9 /\ s6'[c] = "ended"
          /\ \A d \in Clicks : d # c => s6'[d] = s6[d]
      BY <1>4 DEF Window!GameEnds, WindowParts
    <2> QED
      BY <2>1, GamesStay DEF GameThreads
  <1>5. CASE Window!Ready
    BY <1>5, GamesStay DEF Window!Ready, GameThreads
  <1>6. CASE Window!Worker
    <2>1. s1' = s1 /\ s5' = s5 /\ s6' = s6 /\ (s9' = s9 \/ s9' = Window!Fault)
      BY <1>6 DEF Window!Worker, Window!Plans, Window!Extracts, Window!Eats, Window!Downloads, Window!Records,
         Window!UpdateFails
    <2>2. s9'.orphan = s9.orphan /\ s9'.hasty = s9.hasty /\ s9'.starts = s9.starts
      BY <2>1, PastStays
    <2> QED
      BY <2>1, <2>2, GamesStay DEF GameThreads
  <1> QED
    BY <1>1, <1>2, <1>3, <1>4, <1>5, <1>6, LoopGames, StarterGames DEF Window!Next, Window!Player

\* The window's invariant.
WindowSafe == WindowParts /\ WindowRecords /\ Locking /\ GamesSafe /\ DiskSafe
LEMMA WindowIs == WindowInvariant <=> WindowSafe
  BY WindowTypes DEF WindowInvariant, WindowSafe, Locking, QueueInvariant, GamesSafe, DiskSafe

LEMMA WindowBegins == ASSUME Window!WindowAssumption, Window!Init PROVE WindowInvariant
  <1>1. PICK o \in Offers : s8 = [offered |-> o, recorded |-> 0, last |-> 0, extracted |-> {}, eaten |-> {}]
    BY DEF Window!Init
  <1>2. o \in Nat /\ s8.offered = o /\ MaxStarts[o] \in Nat /\ MaxCloses \in Nat /\ MaxFaults \in Nat
    BY <1>1 DEF Window!WindowAssumption
  <1>3. s7 = Window!NoUpdate /\ s7.at = "none" /\ s7 \in UpdateType
    BY <1>2 DEF Window!Init, Window!NoUpdate, UpdateType, Window!Steps
  <1>4. s8 \in DiskType /\ s8.eaten \subseteq s8.extracted
    BY <1>1, <1>2 DEF DiskType
  <1>5. s9 \in PastType
    BY <1>2 DEF Window!Init, PastType
  <1>6. WindowParts
    <2>1. <<>> \in Seq(Window!Events)
      OBVIOUS
    <2> QED
      BY <2>1 DEF Window!Init, WindowParts
  <1>7. /\ s1 = "gone" /\ Positions = {} /\ Len(s3) = 0 /\ ~s4 /\ AtRest /\ ~Installs
        /\ \A c \in Clicks : ~Engaged(c) /\ s5[c] = "none" /\ s6[c] = "none"
    BY <1>3 DEF Window!Init, Positions, AtRest, Installs, Engaged, Runners
  <1>8. Locking
    <2>1. QueueInvariant
      BY <1>7 DEF QueueInvariant, QuietAtFirst, PromptedOnce, RunningRuns, WillShow, WillUnlock
    <2>2. ~Active
      BY <1>7 DEF Active
    <2>3. Unhurried
      BY <1>7, <2>2 DEF Unhurried, OneOfAKind, LocksFit, OneActive, Queued, Runners
    <2> QED
      BY <2>1, <2>3 DEF Locking
  <1>9. GamesSafe
    BY <1>7 DEF GamesSafe, GamesAreWaitedFor, Window!ProxyStays
  <1>10. DiskSafe
    <2>1. 1 .. 0 = {} /\ 0 <= 0
      OBVIOUS
    <2> QED
      BY <1>1, <1>3, <2>1 DEF DiskSafe, UpdateGoesOn, Window!RecordedIsEaten, Window!NoOldFiles
  <1> QED
    BY <1>3, <1>4, <1>5, <1>6, <1>8, <1>9, <1>10, WindowIs DEF WindowSafe, WindowRecords

LEMMA WindowKeeps ==
    ASSUME Window!WindowAssumption, WindowInvariant, [Window!Next]_(Window!vars) PROVE WindowInvariant'
  <1>0. (WindowInvariant' <=> WindowSafe') /\ WindowSafe
    BY WindowIs, WindowTypes
       DEF WindowInvariant, WindowSafe, Locking, QueueInvariant, GamesSafe, DiskSafe
  <1>1. CASE Window!Next
    BY <1>0, <1>1, WindowPartsKeep, WindowDisk, WindowLocking, WindowGames
       DEF WindowSafe, WindowRecords, Locking, QueueInvariant
  <1>2. CASE UNCHANGED Window!vars
    <2>1. /\ s1' = s1 /\ s2' = s2 /\ s3' = s3 /\ s4' = s4 /\ s5' = s5 /\ s6' = s6 /\ s7' = s7 /\ s8' = s8
          /\ s9' = s9
      BY <1>2 DEF Window!vars
    <2>2. Locking'
      BY <1>0, <2>1, UnseenKeeps DEF WindowSafe, SameThreads, SameUpdate
    <2>3. GamesSafe' /\ DiskSafe'
      BY <1>0, <2>1 DEF WindowSafe, GamesSafe, GamesAreWaitedFor, Window!ProxyStays, Window!Up,
         DiskSafe, UpdateGoesOn, Fresh, Window!RecordedIsEaten, Window!NoOldFiles
    <2>4. WindowParts' /\ WindowRecords'
      BY <1>0, <2>1 DEF WindowSafe, WindowParts, WindowRecords, UpdateType, DiskType, PastType
    <2> QED
      BY <1>0, <2>2, <2>3, <2>4 DEF WindowSafe
  <1> QED
    BY <1>1, <1>2

\* What the run checks of the window follows.
LEMMA WindowPromises == ASSUME WindowInvariant PROVE Window!OneThing /\ Window!NotStuck
  <1>1. WindowParts /\ Locking
    BY WindowIs DEF WindowSafe
  <1>2. Window!OneThing
    <2>1. ~s9.hasty => OneActive
      BY <1>1 DEF Locking, Unhurried
    <2>2. \A c \in Clicks : Window!Begun(c) => Engaged(c)
      BY DEF Window!Begun, Engaged, Runners
    <2> QED
      BY <2>1, <2>2 DEF Window!OneThing, Window!Installing, OneActive, Installs
  <1>3. Window!NotStuck
    <2> SUFFICES ASSUME Window!Still PROVE s2 /\ s1 = "free"
      BY DEF Window!NotStuck
    <2>1. s1 \notin {"gone", "blank"} /\ s3 = <<>> /\ s7.at = "none" /\ \A c \in Clicks : s5[c] = "none"
      BY DEF Window!Still, Window!Up
    <2>2. Positions = {} /\ ~Installs /\ \A c \in Clicks : ~Engaged(c)
      BY <2>1 DEF Positions, Installs, Engaged, Runners
    <2>3. WillShow /\ WillUnlock
      BY <1>1 DEF Locking, QueueInvariant
    <2> QED
      BY <1>1, <2>1, <2>2, <2>3 DEF WillShow, WillUnlock, Active, Queued, WindowParts
  <1> QED
    BY <1>2, <1>3

-----------------------------------------------------------------------------
(* The proxy.  s1 to s8 are listening, game, server, up, down, got, told,   *)
(* failed.                                                                  *)

\* What is to come to the server and to the game.
FromGame == [i \in 1 .. Len(GameBytes) |-> <<GameBytes[i], Relay!KeyIs>>]
FromServer == [i \in 1 .. Len(ServerBytes) - AuthLength |-> ServerBytes[AuthLength + i]]

Byte == 0 .. 255
Keys == {<<>>, Relay!KeyIs}
Coded == Byte \X Keys
PeerAt == {"absent", "open", "ended", "gone"}
UpAt == {"none", "connects", "auth", "reads", "writes", "tells", "joins", "ended"}
DownAt == {"none", "reads", "writes", "tells", "ended"}
RelayTypes ==
    /\ s1 \in BOOLEAN
    /\ s2 \in [at : PeerAt, sent : 0 .. Len(GameBytes)]
    /\ s3 \in [at : PeerAt, sent : 0 .. Len(ServerBytes)]
    /\ s4 \in [at : UpAt, read : Nat, buffer : Seq(Coded), key : Keys]
    /\ s5 \in [at : DownAt, read : Nat, buffer : Seq(Byte), key : {<<>>}]
    /\ DOMAIN s6 = Relay!Peers /\ s6["server"] \in Seq(Coded) /\ s6["game"] \in Seq(Byte)
    /\ s7 \subseteq Relay!Peers /\ s8 \subseteq Relay!Peers

\* What has arrived and what is held are, in this order, the beginning of what is
\* to come; all of it has been read, and there is more only while it is written.
Begins(arrived, read, all) == Len(arrived) <= read /\ \A i \in 1 .. Len(arrived) : arrived[i] = all[i]
Passing(arrived, buffer, at, read, all) ==
    /\ Begins(arrived, read, all)
    /\ at = "reads" => Len(arrived) = read
    /\ at = "writes" => /\ Len(arrived) + Len(buffer) = read
                        /\ \A i \in 1 .. Len(buffer) : buffer[i] = all[Len(arrived) + i]
\* A direction that has ended without an error has passed on all that came.
AllPassed(arrived, sent, from) == Len(arrived) = sent /\ from \in {"ended", "gone"}

Early == s4.at \in {"none", "connects", "auth"}
RelayOrder ==
    /\ s2.at = "absent" <=> s4.at = "none"
    /\ Early => s5.at = "none" /\ s7 = {} /\ s8 = {} /\ s4.read = 0
    /\ s4.at \in {"reads", "writes", "tells", "joins"} => s5.at # "none" /\ s4.key = Relay!KeyIs
    /\ "server" \in s7 => s4.at \in {"joins", "ended"}
    /\ "game" \in s7 /\ s5.at # "none" => s5.at = "ended"
    /\ s5.at = "none" => s6["game"] = <<>>
UpPasses ==
    /\ s4.read <= s2.sent /\ Passing(s6["server"], s4.buffer, s4.at, s4.read, FromGame)
    /\ s4.at \in {"tells", "joins", "ended"} /\ s5.at # "none" /\ "server" \notin s8 =>
          AllPassed(s6["server"], s2.sent, s2.at)
DownPasses ==
    /\ s5.read <= s3.sent
    /\ s5.at # "none" => /\ s5.read >= AuthLength
                         /\ Passing(s6["game"], s5.buffer, s5.at, s5.read - AuthLength, FromServer)
    /\ s5.at \in {"tells", "ended"} /\ "game" \notin s8 =>
          AllPassed(s6["game"], s3.sent - AuthLength, s3.at)

RelayInvariant == RelayTypes /\ RelayOrder /\ UpPasses /\ DownPasses

LEMMA RelayConstants ==
    ASSUME Relay!ProxyAssumption
    PROVE  /\ AuthLength \in Nat /\ AuthLength > 0 /\ Len(GameBytes) \in Nat /\ Len(ServerBytes) \in Nat
           /\ AuthLength <= Len(ServerBytes) /\ Len(Relay!KeyIs) = AuthLength
           /\ \A i \in 1 .. Len(GameBytes) : FromGame[i] = <<GameBytes[i], Relay!KeyIs>> /\ FromGame[i] \in Coded
           /\ \A i \in 1 .. Len(ServerBytes) : ServerBytes[i] \in Byte
           /\ \A i \in 1 .. Len(ServerBytes) - AuthLength : FromServer[i] = ServerBytes[AuthLength + i]
  <1>1. AuthLength \in Nat /\ AuthLength > 0 /\ GameBytes \in Seq(Byte) /\ ServerBytes \in Seq(Byte)
        /\ Len(ServerBytes) >= AuthLength
    BY DEF Relay!ProxyAssumption, Byte
  <1>2. Len(GameBytes) \in Nat /\ Len(ServerBytes) \in Nat /\ AuthLength <= Len(ServerBytes)
    BY <1>1
  <1>3. Len(Relay!KeyIs) = AuthLength
    BY <1>1, <1>2 DEF Relay!KeyIs
  <1>4. ASSUME NEW i \in 1 .. Len(GameBytes)
        PROVE  FromGame[i] = <<GameBytes[i], Relay!KeyIs>> /\ FromGame[i] \in Coded
    <2>1. GameBytes[i] \in Byte
      BY <1>1
    <2>2. FromGame[i] = <<GameBytes[i], Relay!KeyIs>>
      BY DEF FromGame
    <2> QED
      BY <2>1, <2>2 DEF Coded, Keys
  <1>5. \A i \in 1 .. Len(ServerBytes) : ServerBytes[i] \in Byte
    BY <1>1
  <1>6. \A i \in 1 .. Len(ServerBytes) - AuthLength : FromServer[i] = ServerBytes[AuthLength + i]
    BY DEF FromServer
  <1> QED
    BY <1>1, <1>2, <1>3, <1>4, <1>5, <1>6

LEMMA SubSeqIs ==
    ASSUME NEW S, NEW b \in Seq(S), NEW m \in Nat, NEW n \in Nat, m + n <= Len(b)
    PROVE  /\ SubSeq(b, m + 1, m + n) \in Seq(S) /\ Len(SubSeq(b, m + 1, m + n)) = n
           /\ \A i \in 1 .. n : SubSeq(b, m + 1, m + n)[i] = b[m + i]
  OBVIOUS

LEMMA PrefixIs ==
    ASSUME NEW S, NEW a \in Seq(S), NEW b \in Seq(S), Len(a) <= Len(b), \A i \in 1 .. Len(a) : a[i] = b[i]
    PROVE  Relay!IsPrefix(a, b)
  <1>1. SubSeq(a, 1, Len(a)) = SubSeq(b, 1, Len(a))
    OBVIOUS
  <1> QED
    BY <1>1 DEF Relay!IsPrefix

\* A part of what is held is written.
LEMMA PassingWrites ==
    ASSUME NEW S, NEW a \in Seq(S), NEW b \in Seq(S), NEW all, NEW read \in Nat, Passing(a, b, "writes", read, all),
           NEW n \in 0 .. Len(b)
    PROVE  /\ a \o SubSeq(b, 1, n) \in Seq(S) /\ Begins(a \o SubSeq(b, 1, n), read, all)
           /\ n = Len(b) => Len(a \o SubSeq(b, 1, n)) = read
  <1> DEFINE c == a \o SubSeq(b, 1, n)
  <1>1. Len(a) \in Nat /\ Len(b) \in Nat
    OBVIOUS
  <1>2. Len(a) + Len(b) = read
    BY DEF Passing, Begins
  <1>3. /\ \A i \in 1 .. Len(a) : a[i] = all[i]
        /\ \A i \in 1 .. Len(b) : b[i] = all[Len(a) + i]
    BY DEF Passing, Begins
  <1>4. /\ SubSeq(b, 1, n) \in Seq(S) /\ Len(SubSeq(b, 1, n)) = n
        /\ \A i \in 1 .. n : SubSeq(b, 1, n)[i] = b[i]
    BY <1>1
  <1>5. c \in Seq(S) /\ Len(c) = Len(a) + n
    BY <1>1, <1>4
  <1>6. /\ \A i \in 1 .. Len(a) : c[i] = a[i]
        /\ \A i \in 1 .. n : c[Len(a) + i] = SubSeq(b, 1, n)[i]
    BY <1>1, <1>4
  <1> HIDE DEF c
  <1>7. ASSUME NEW i \in 1 .. Len(c) PROVE c[i] = all[i]
    <2>1. CASE i \in 1 .. Len(a)
      BY <1>3, <1>6, <2>1
    <2>2. CASE i \notin 1 .. Len(a)
      <3>1. i - Len(a) \in 1 .. n /\ i - Len(a) \in 1 .. Len(b) /\ Len(a) + (i - Len(a)) = i
        BY <1>1, <1>5, <2>2
      <3> QED
        BY <1>3, <1>4, <1>6, <3>1
    <2> QED
      BY <2>1, <2>2
  <1>8. Len(c) <= read /\ (n = Len(b) => Len(c) = read)
    BY <1>1, <1>2, <1>5
  <1> QED
    BY <1>5, <1>7, <1>8 DEF c, Begins

LEMMA RelayBegins == ASSUME Relay!ProxyAssumption, Relay!Init PROVE RelayInvariant
  <1>1. /\ s1 = TRUE /\ s2 = [at |-> "absent", sent |-> 0] /\ s3 = [at |-> "absent", sent |-> 0]
        /\ s4 = [at |-> "none", read |-> 0, buffer |-> <<>>, key |-> <<>>] /\ s5 = s4
        /\ DOMAIN s6 = Relay!Peers /\ s6["server"] = <<>> /\ s6["game"] = <<>> /\ s7 = {} /\ s8 = {}
    BY DEF Relay!Init, Relay!NotThere, Relay!Idle, Relay!Peers
  <1>2. /\ Len(GameBytes) \in Nat /\ Len(ServerBytes) \in Nat
    BY RelayConstants
  <1>3. /\ <<>> \in Seq(Coded) /\ <<>> \in Seq(Byte) /\ Len(<<>>) = 0
    OBVIOUS
  <1>4. RelayTypes
    <2>1. s2 \in [at : PeerAt, sent : 0 .. Len(GameBytes)] /\ s3 \in [at : PeerAt, sent : 0 .. Len(ServerBytes)]
      BY <1>1, <1>2 DEF PeerAt
    <2>2. s4 \in [at : UpAt, read : Nat, buffer : Seq(Coded), key : Keys]
      BY <1>1, <1>3 DEF UpAt, Keys
    <2>3. s5 \in [at : DownAt, read : Nat, buffer : Seq(Byte), key : {<<>>}]
      BY <1>1, <1>3 DEF DownAt
    <2> QED
      BY <1>1, <1>3, <2>1, <2>2, <2>3 DEF RelayTypes
  <1>5. RelayOrder
    BY <1>1 DEF RelayOrder, Early
  <1>6. UpPasses /\ DownPasses
    <2>1. 1 .. 0 = {} /\ 0 <= 0
      OBVIOUS
    <2> QED
      BY <1>1, <1>3, <2>1 DEF UpPasses, DownPasses, Passing, Begins
  <1> QED
    BY <1>4, <1>5, <1>6 DEF RelayInvariant

\* What a step does not see, it keeps.
LEMMA UpStays ==
    ASSUME UpPasses, s4'.read = s4.read, s4'.buffer = s4.buffer, s4'.at = s4.at, s6'["server"] = s6["server"],
           s5'.at = "none" <=> s5.at = "none", s2' = s2, "server" \in s8 => "server" \in s8'
    PROVE  UpPasses'
  BY DEF UpPasses, Passing, Begins, AllPassed

LEMMA DownStays ==
    ASSUME DownPasses, s5' = s5, s6'["game"] = s6["game"], s3' = s3, "game" \in s8 => "game" \in s8'
    PROVE  DownPasses'
  BY DEF DownPasses, Passing, Begins, AllPassed

LEMMA DownIs ==
    ASSUME s5'.read <= s3'.sent, s5'.read >= AuthLength,
           Passing(s6'["game"], s5'.buffer, s5'.at, s5'.read - AuthLength, FromServer),
           s5'.at \in {"tells", "ended"} /\ "game" \notin s8' =>
               AllPassed(s6'["game"], s3'.sent - AuthLength, s3'.at)
    PROVE  DownPasses'
  BY DEF DownPasses, Passing, Begins, AllPassed

LEMMA UpIs ==
    ASSUME s4'.read <= s2'.sent,
           Passing(s6'["server"], s4'.buffer, s4'.at, s4'.read, FromGame),
           s4'.at \in {"tells", "joins", "ended"} /\ s5'.at # "none" /\ "server" \notin s8' =>
               AllPassed(s6'["server"], s2'.sent, s2'.at)
    PROVE  UpPasses'
  BY DEF UpPasses, Passing, Begins, AllPassed

\* The peers.
LEMMA WorldKeeps == ASSUME Relay!ProxyAssumption, RelayInvariant, Relay!World PROVE RelayInvariant'
  <1>0. RelayTypes /\ RelayOrder /\ UpPasses /\ DownPasses
    BY DEF RelayInvariant
  <1>t. /\ s2 \in [at : PeerAt, sent : 0 .. Len(GameBytes)] /\ s3 \in [at : PeerAt, sent : 0 .. Len(ServerBytes)]
        /\ s4 \in [at : UpAt, read : Nat, buffer : Seq(Coded), key : Keys]
    BY <1>0 DEF RelayTypes
  <1>c. Len(GameBytes) \in Nat /\ Len(ServerBytes) \in Nat
    BY RelayConstants
  <1>1. CASE Relay!GameSends
    <2>1. s2' \in [at : PeerAt, sent : 0 .. Len(GameBytes)] /\ s2'.at = s2.at /\ s2.at = "open" /\ s2'.sent = s2.sent + 1
      BY <1>c, <1>t, <1>1 DEF Relay!GameSends
    <2>2. s1' = s1 /\ s3' = s3 /\ s4' = s4 /\ s5' = s5 /\ s6' = s6 /\ s7' = s7 /\ s8' = s8
      BY <1>1 DEF Relay!GameSends
    <2>3. RelayTypes' /\ RelayOrder'
      BY <1>0, <2>1, <2>2 DEF RelayTypes, RelayOrder, Early
    <2>4. s4.read <= s2.sent + 1
      BY <1>0, <1>t DEF UpPasses
    <2>5. UpPasses'
      BY <1>0, <2>1, <2>2, <2>4 DEF UpPasses, Passing, Begins, AllPassed
    <2> QED
      BY <1>0, <2>2, <2>3, <2>5, DownStays DEF RelayInvariant
  <1>2. CASE Relay!ServerSends
    <2>1. s3' \in [at : PeerAt, sent : 0 .. Len(ServerBytes)] /\ s3.at = "open" /\ s3'.sent = s3.sent + 1
      BY <1>c, <1>t, <1>2 DEF Relay!ServerSends
    <2>2. s1' = s1 /\ s2' = s2 /\ s4' = s4 /\ s5' = s5 /\ s6' = s6 /\ s7' = s7 /\ s8' = s8
      BY <1>2 DEF Relay!ServerSends
    <2>3. RelayTypes' /\ RelayOrder'
      BY <1>0, <2>1, <2>2 DEF RelayTypes, RelayOrder, Early
    <2>4. s5.read <= s3.sent + 1
      BY <1>0, <1>t DEF DownPasses, RelayTypes
    <2>5. DownPasses'
      BY <1>0, <2>1, <2>2, <2>4 DEF DownPasses, Passing, Begins, AllPassed
    <2> QED
      BY <1>0, <2>2, <2>3, <2>5, UpStays DEF RelayInvariant
  <1>3. ASSUME NEW b \in BOOLEAN, Relay!GameConnects(b) PROVE RelayInvariant'
    <2>1. /\ s1' = b /\ s3' = s3 /\ s5' = s5 /\ s6' = s6 /\ s7' = s7 /\ s8' = s8 /\ s2.at = "absent"
          /\ s2' = [s2 EXCEPT !.at = IF b THEN "open" ELSE @] /\ s4' = [s4 EXCEPT !.at = IF b THEN "connects" ELSE @]
      BY <1>3 DEF Relay!GameConnects
    <2>2. s4.at = "none" /\ s5.at = "none"
      BY <1>0, <2>1 DEF RelayOrder, Early
    <2>3. /\ s2' \in [at : PeerAt, sent : 0 .. Len(GameBytes)] /\ s2'.sent = s2.sent
          /\ s2'.at = IF b THEN "open" ELSE "absent"
      BY <1>t, <2>1 DEF PeerAt
    <2>4. /\ s4' \in [at : UpAt, read : Nat, buffer : Seq(Coded), key : Keys] /\ s4'.read = s4.read
          /\ s4'.at = IF b THEN "connects" ELSE "none"
      BY <1>t, <2>1, <2>2 DEF UpAt
    <2>5. RelayTypes'
      BY <1>0, <2>1, <2>3, <2>4 DEF RelayTypes
    <2>6. RelayOrder'
      BY <1>0, <2>1, <2>2, <2>3, <2>4 DEF RelayOrder, Early
    <2>7. UpPasses'
      BY <1>0, <2>1, <2>2, <2>3, <2>4 DEF UpPasses, Passing, Begins
    <2> QED
      BY <1>0, <2>1, <2>5, <2>6, <2>7, DownStays DEF RelayInvariant
  <1>4. ASSUME NEW at \in {"ended", "gone"}, Relay!GameLeaves(at) PROVE RelayInvariant'
    <2>1. /\ s1' = s1 /\ s3' = s3 /\ s4' = s4 /\ s5' = s5 /\ s6' = s6 /\ s7' = s7 /\ s8' = s8
          /\ s2.at \in {"open", "ended"} /\ s2' = [s2 EXCEPT !.at = at]
      BY <1>4 DEF Relay!GameLeaves
    <2>2. s2' \in [at : PeerAt, sent : 0 .. Len(GameBytes)] /\ s2'.sent = s2.sent /\ s2'.at = at
      BY <1>t, <2>1 DEF PeerAt
    <2>3. RelayTypes' /\ RelayOrder'
      BY <1>0, <2>1, <2>2 DEF RelayTypes, RelayOrder, Early
    <2>4. UpPasses'
      BY <1>0, <2>1, <2>2 DEF UpPasses, Passing, Begins, AllPassed
    <2> QED
      BY <1>0, <2>1, <2>3, <2>4, DownStays DEF RelayInvariant
  <1>5. ASSUME NEW at \in {"ended", "gone"}, Relay!ServerLeaves(at) PROVE RelayInvariant'
    <2>1. /\ s1' = s1 /\ s2' = s2 /\ s4' = s4 /\ s5' = s5 /\ s6' = s6 /\ s7' = s7 /\ s8' = s8
          /\ s3' = [s3 EXCEPT !.at = at]
      BY <1>5 DEF Relay!ServerLeaves
    <2>2. s3' \in [at : PeerAt, sent : 0 .. Len(ServerBytes)] /\ s3'.sent = s3.sent /\ s3'.at = at
      BY <1>t, <2>1 DEF PeerAt
    <2>3. RelayTypes' /\ RelayOrder'
      BY <1>0, <2>1, <2>2 DEF RelayTypes, RelayOrder, Early
    <2>4. DownPasses'
      BY <1>0, <2>1, <2>2 DEF DownPasses, Passing, Begins, AllPassed
    <2> QED
      BY <1>0, <2>1, <2>3, <2>4, UpStays DEF RelayInvariant
  <1> QED
    BY <1>1, <1>2, <1>3, <1>4, <1>5 DEF Relay!World

\* The thread of the other direction.
LEMMA DownKeeps == ASSUME Relay!ProxyAssumption, RelayInvariant, Relay!Down PROVE RelayInvariant'
  <1>0. RelayTypes /\ RelayOrder /\ UpPasses /\ DownPasses
    BY DEF RelayInvariant
  <1>t. /\ s5 \in [at : DownAt, read : Nat, buffer : Seq(Byte), key : {<<>>}]
        /\ s3 \in [at : PeerAt, sent : 0 .. Len(ServerBytes)]
        /\ s6["game"] \in Seq(Byte) /\ DOMAIN s6 = Relay!Peers /\ {"game", "server"} = Relay!Peers
    BY <1>0 DEF RelayTypes, Relay!Peers
  <1>c. AuthLength \in Nat /\ Len(ServerBytes) \in Nat
    BY RelayConstants
  <1>1. CASE Relay!TellsGame
    <2>1. /\ s1' = s1 /\ s2' = s2 /\ s3' = s3 /\ s4' = s4 /\ s6' = s6 /\ s8' = s8 /\ s7' = s7 \cup {"game"}
          /\ s5.at = "tells" /\ s5' = [s5 EXCEPT !.at = "ended"]
      BY <1>1 DEF Relay!TellsGame
    <2>2. /\ s5' \in [at : DownAt, read : Nat, buffer : Seq(Byte), key : {<<>>}] /\ s5'.at = "ended"
          /\ s5'.read = s5.read
      BY <1>t, <2>1 DEF DownAt
    <2>3. RelayTypes' /\ RelayOrder'
      BY <1>0, <1>t, <2>1, <2>2 DEF RelayTypes, RelayOrder, Early
    <2>4. DownPasses'
      BY <1>0, <2>1, <2>2 DEF DownPasses, Passing, Begins, AllPassed
    <2> QED
      BY <1>0, <2>1, <2>2, <2>3, <2>4, UpStays DEF RelayInvariant
  <1>2. ASSUME NEW n \in 0 .. Room, Relay!ReadsServer(n) PROVE RelayInvariant'
    <2> DEFINE buffer == SubSeq(ServerBytes, s5.read + 1, s5.read + n)
    <2>1. /\ s1' = s1 /\ s2' = s2 /\ s3' = s3 /\ s4' = s4 /\ s6' = s6 /\ s7' = s7 /\ s8' = s8
          /\ s5.at = "reads" /\ n <= s3.sent - s5.read
          /\ (n > 0 \/ (s5.read = s3.sent /\ s3.at \in {"ended", "gone"}))
          /\ s5' = [s5 EXCEPT !.read = @ + n, !.buffer = buffer, !.at = IF n = 0 THEN "tells" ELSE "writes"]
      BY <1>2 DEF Relay!ReadsServer, Relay!Chunk
    <2>a. n <= s3.sent - s5.read
      BY <2>1
    <2>2. n \in Nat /\ s5.read \in Nat /\ s3.sent \in Nat /\ s3.sent <= Len(ServerBytes)
      BY <1>t, <1>c, <1>2 DEF Relay!ProxyAssumption
    <2>3. buffer \in Seq(Byte) /\ Len(buffer) = n /\ \A i \in 1 .. n : buffer[i] = ServerBytes[s5.read + i]
      <3>1. ServerBytes \in Seq(Byte)
        BY DEF Relay!ProxyAssumption, Byte
      <3>2. s5.read + n <= Len(ServerBytes)
        BY <1>c, <2>a, <2>2
      <3> QED
        BY <2>2, <3>1, <3>2, SubSeqIs
    <2>4. /\ s5' \in [at : DownAt, read : Nat, buffer : Seq(Byte), key : {<<>>}] /\ s5'.read = s5.read + n
          /\ s5'.buffer = buffer /\ s5'.at = IF n = 0 THEN "tells" ELSE "writes"
      <3> HIDE DEF buffer
      <3>1. (IF n = 0 THEN "tells" ELSE "writes") \in DownAt /\ s5.read + n \in Nat
        BY <2>2 DEF DownAt
      <3> QED
        BY <1>t, <2>1, <2>3, <3>1
    <2>5. RelayTypes' /\ RelayOrder'
      BY <1>0, <2>1, <2>4 DEF RelayTypes, RelayOrder, Early
    <2>b. Len(s6["game"]) = s5.read - AuthLength /\ s5.read >= AuthLength /\ Len(s6["game"]) \in Nat
      BY <1>0, <1>t, <2>1 DEF DownPasses, Passing, Begins
    <2>6. \A i \in 1 .. Len(s6["game"]) : s6["game"][i] = FromServer[i]
      BY <1>0, <1>t, <2>1 DEF DownPasses, Passing, Begins
    <2>7. /\ s5.read + n <= s3.sent /\ s5.read + n >= AuthLength
          /\ Len(s6["game"]) <= s5.read + n - AuthLength /\ Len(s6["game"]) + n = s5.read + n - AuthLength
      BY <1>c, <2>a, <2>2, <2>b
    <2>8. \A i \in 1 .. n : buffer[i] = FromServer[Len(s6["game"]) + i]
      <3> SUFFICES ASSUME NEW i \in 1 .. n PROVE buffer[i] = FromServer[Len(s6["game"]) + i]
        OBVIOUS
      <3>1. /\ Len(s6["game"]) + i \in 1 .. Len(ServerBytes) - AuthLength
            /\ AuthLength + (Len(s6["game"]) + i) = s5.read + i
        BY <1>c, <2>a, <2>2, <2>b
      <3>2. FromServer[Len(s6["game"]) + i] = ServerBytes[s5.read + i]
        BY <3>1, RelayConstants
      <3> QED
        BY <2>3, <3>2
    <2>9. DownPasses'
      <3>1. CASE n = 0
        <4>1. s5'.at = "tells" /\ s5'.read = s5.read /\ s5.read = s3.sent /\ s3.at \in {"ended", "gone"}
          BY <2>1, <2>2, <2>4, <3>1
        <4>2. s3'.sent = s3.sent /\ s3'.at = s3.at /\ s6' = s6
          BY <2>1
        <4>3. s3.sent <= s3.sent /\ s5.read - AuthLength <= s5.read - AuthLength
          BY <1>c, <2>2
        <4> QED
          BY <2>b, <2>6, <4>1, <4>2, <4>3 DEF DownPasses, Passing, Begins, AllPassed
      <3>2. CASE n # 0
        <4>1. s5'.at = "writes" /\ s3' = s3 /\ s6' = s6
          BY <2>1, <2>4, <3>2
        <4> HIDE DEF buffer
        <4> QED
          <5>1. s5'.read = s5.read + n /\ s5'.buffer = buffer /\ Len(buffer) = n
            BY <2>3, <2>4
          <5>2. Passing(s6["game"], buffer, "writes", s5.read + n - AuthLength, FromServer)
            BY <2>6, <2>7, <2>8, <5>1 DEF Passing, Begins
          <5>3. s6'["game"] = s6["game"] /\ s3'.sent = s3.sent
            BY <4>1
          <5>4. s5'.read <= s3'.sent /\ s5'.read >= AuthLength
            BY <2>7, <5>1, <5>3
          <5>5. Passing(s6'["game"], s5'.buffer, s5'.at, s5'.read - AuthLength, FromServer)
            BY <1>c, <2>2, <4>1, <5>1, <5>2, <5>3
          <5> QED
            BY <4>1, <5>4, <5>5, DownIs
      <3> QED
        BY <3>1, <3>2
    <2>10. s5'.at # "none"
      BY <2>4
    <2> QED
      BY <1>0, <2>1, <2>5, <2>9, <2>10, UpStays DEF RelayInvariant
  <1>3. ASSUME NEW n \in 0 .. Room, Relay!WritesGame(n) PROVE RelayInvariant'
    <2> DEFINE c == s6["game"] \o SubSeq(s5.buffer, 1, n)
    <2>1. /\ s1' = s1 /\ s2' = s2 /\ s3' = s3 /\ s4' = s4 /\ s7' = s7
          /\ s5.at = "writes" /\ n <= Len(s5.buffer)
          /\ s6' = [s6 EXCEPT !["game"] = c]
          /\ \/ n = Len(s5.buffer) /\ s5' = [s5 EXCEPT !.at = "reads", !.buffer = <<>>] /\ s8' = s8
             \/ s5' = [s5 EXCEPT !.at = "tells", !.buffer = <<>>] /\ s8' = s8 \cup {"game"}
      BY <1>3 DEF Relay!WritesGame
    <2>2. n \in 0 .. Len(s5.buffer) /\ s5.buffer \in Seq(Byte) /\ s5.read - AuthLength \in Nat
          /\ Passing(s6["game"], s5.buffer, "writes", s5.read - AuthLength, FromServer)
      BY <1>0, <1>t, <1>c, <2>1 DEF DownPasses, Relay!ProxyAssumption
    <2>3. /\ c \in Seq(Byte) /\ Begins(c, s5.read - AuthLength, FromServer)
          /\ (n = Len(s5.buffer) => Len(c) = s5.read - AuthLength)
      <3> DEFINE a == s6["game"]
                 b == s5.buffer
                 read == s5.read - AuthLength
      <3>1. a \in Seq(Byte) /\ b \in Seq(Byte) /\ read \in Nat /\ n \in 0 .. Len(b)
        BY <1>t, <2>2
      <3>2. Passing(a, b, "writes", read, FromServer)
        BY <2>2
      <3>3. c = a \o SubSeq(b, 1, n)
        OBVIOUS
      <3> HIDE DEF a, b, read, c
      <3>4. c \in Seq(Byte) /\ Begins(c, read, FromServer) /\ (n = Len(b) => Len(c) = read)
        BY ONLY <3>1, <3>2, <3>3, PassingWrites
      <3> QED
        BY <3>4 DEF a, b, read
    <2>4. /\ s6'["game"] = c /\ s6'["server"] = s6["server"] /\ DOMAIN s6' = Relay!Peers
      BY <1>t, <2>1
    <2> HIDE DEF c
    <2>5. /\ s5' \in [at : DownAt, read : Nat, buffer : Seq(Byte), key : {<<>>}] /\ s5'.read = s5.read
          /\ \/ n = Len(s5.buffer) /\ s5'.at = "reads" /\ s8' = s8
             \/ s5'.at = "tells" /\ s8' = s8 \cup {"game"}
      <3>1. <<>> \in Seq(Byte) /\ {"reads", "tells"} \subseteq DownAt
        BY DEF DownAt
      <3> QED
        BY <1>t, <2>1, <3>1
    <2>6. RelayTypes'
      BY <1>0, <1>t, <2>1, <2>3, <2>4, <2>5 DEF RelayTypes
    <2>7. RelayOrder'
      BY <1>0, <2>1, <2>5 DEF RelayOrder, Early
    <2>8. DownPasses'
      BY <1>0, <2>1, <2>3, <2>4, <2>5 DEF DownPasses, Passing, Begins
    <2>9. UpPasses'
      BY <1>0, <2>1, <2>4, <2>5, UpStays
    <2> QED
      BY <2>6, <2>7, <2>8, <2>9 DEF RelayInvariant
  <1> QED
    BY <1>1, <1>2, <1>3 DEF Relay!Down

\* The thread of the connection, until both directions are there.
LEMMA ConnectsKeep ==
    ASSUME Relay!ProxyAssumption, RelayInvariant,
           Relay!Authenticates \/ Relay!NoAuth \/ \E b \in BOOLEAN : Relay!Connect(b)
    PROVE  RelayInvariant'
  <1>0. RelayTypes /\ RelayOrder /\ UpPasses /\ DownPasses
    BY DEF RelayInvariant
  <1>t. /\ s3 \in [at : PeerAt, sent : 0 .. Len(ServerBytes)]
        /\ s4 \in [at : UpAt, read : Nat, buffer : Seq(Coded), key : Keys]
        /\ s5 \in [at : DownAt, read : Nat, buffer : Seq(Byte), key : {<<>>}]
    BY <1>0 DEF RelayTypes
  <1>1. ASSUME NEW b \in BOOLEAN, Relay!Connect(b) PROVE RelayInvariant'
    <2>1. /\ s1' = s1 /\ s2' = s2 /\ s5' = s5 /\ s6' = s6 /\ s8' = s8 /\ s4.at = "connects"
          /\ s4' = [s4 EXCEPT !.at = IF b THEN "auth" ELSE "ended"]
          /\ s3' = [s3 EXCEPT !.at = IF b THEN "open" ELSE @]
          /\ s7' = IF b THEN s7 ELSE Relay!Peers
      BY <1>1 DEF Relay!Connect
    <2>2. /\ s4' \in [at : UpAt, read : Nat, buffer : Seq(Coded), key : Keys]
          /\ s4'.at = (IF b THEN "auth" ELSE "ended") /\ s4'.read = s4.read
      BY <1>t, <2>1 DEF UpAt
    <2>3. s3' \in [at : PeerAt, sent : 0 .. Len(ServerBytes)] /\ s3'.sent = s3.sent
      BY <1>t, <2>1 DEF PeerAt
    <2>4. s5.at = "none" /\ s2.at # "absent"
      BY <1>0, <2>1 DEF RelayOrder, Early
    <2>5. RelayTypes'
      BY <1>0, <2>1, <2>2, <2>3 DEF RelayTypes
    <2>6. RelayOrder'
      BY <1>0, <2>1, <2>2, <2>4 DEF RelayOrder, Early
    <2>7. UpPasses' /\ DownPasses'
      BY <1>0, <2>1, <2>2, <2>3, <2>4 DEF UpPasses, DownPasses, Passing, Begins
    <2> QED
      BY <2>5, <2>6, <2>7 DEF RelayInvariant
  <1>2. CASE Relay!NoAuth
    <2>1. /\ s1' = s1 /\ s2' = s2 /\ s3' = s3 /\ s5' = s5 /\ s6' = s6 /\ s8' = s8 /\ s4.at = "auth"
          /\ s4' = [s4 EXCEPT !.at = "ended"] /\ s7' = Relay!Peers
      BY <1>2 DEF Relay!NoAuth
    <2>2. /\ s4' \in [at : UpAt, read : Nat, buffer : Seq(Coded), key : Keys]
          /\ s4'.at = "ended" /\ s4'.read = s4.read
      BY <1>t, <2>1 DEF UpAt
    <2>4. s5.at = "none" /\ s2.at # "absent"
      BY <1>0, <2>1 DEF RelayOrder, Early
    <2>5. RelayTypes' /\ RelayOrder'
      BY <1>0, <2>1, <2>2, <2>4 DEF RelayTypes, RelayOrder, Early
    <2>7. UpPasses' /\ DownPasses'
      BY <1>0, <2>1, <2>2, <2>4 DEF UpPasses, DownPasses, Passing, Begins
    <2> QED
      BY <2>5, <2>7 DEF RelayInvariant
  <1>3. CASE Relay!Authenticates
    <2>0. AuthLength \in Nat /\ Len(ServerBytes) \in Nat /\ Len(Relay!KeyIs) = AuthLength /\ s3.sent \in Nat
      BY <1>t, RelayConstants
    <2>1. /\ s1' = s1 /\ s2' = s2 /\ s3' = s3 /\ s6' = s6 /\ s7' = s7 /\ s8' = s8 /\ s4.at = "auth"
          /\ s3.sent >= AuthLength
          /\ s4' = [s4 EXCEPT !.at = "reads", !.key = Relay!Keyed]
          /\ s5' = [s5 EXCEPT !.at = "reads", !.read = Len(Relay!Keyed)]
      BY <1>3 DEF Relay!Authenticates, Relay!AuthComplete
    <2>2. Relay!Keyed = Relay!KeyIs
      <3>1. (IF s3.sent < AuthLength THEN s3.sent ELSE AuthLength) = AuthLength
        BY <2>0, <2>1
      <3> QED
        BY <3>1 DEF Relay!Keyed, Relay!KeyIs
    <2>3. /\ s4' \in [at : UpAt, read : Nat, buffer : Seq(Coded), key : Keys]
          /\ s4'.at = "reads" /\ s4'.read = s4.read /\ s4'.key = Relay!KeyIs
      BY <1>t, <2>1, <2>2 DEF UpAt, Keys
    <2>4. /\ s5' \in [at : DownAt, read : Nat, buffer : Seq(Byte), key : {<<>>}]
          /\ s5'.at = "reads" /\ s5'.read = AuthLength
      BY <1>t, <2>0, <2>1, <2>2 DEF DownAt
    <2>5. s5.at = "none" /\ s2.at # "absent" /\ s7 = {} /\ s6["game"] = <<>> /\ s4.read = 0
      BY <1>0, <2>1 DEF RelayOrder, Early
    <2>6. RelayTypes'
      BY <1>0, <2>1, <2>3, <2>4 DEF RelayTypes
    <2>7. RelayOrder'
      BY <1>0, <2>1, <2>3, <2>4, <2>5 DEF RelayOrder, Early
    <2>8. UpPasses'
      <3>1. s6["server"] \in Seq(Coded) /\ Len(s6["server"]) <= 0 /\ Len(s6["server"]) \in Nat
        BY <1>0, <2>5 DEF UpPasses, Passing, Begins, RelayTypes
      <3>2. Len(s6["server"]) = 0
        BY <3>1
      <3> QED
        BY <1>0, <2>1, <2>3, <2>5, <3>2 DEF UpPasses, Passing, Begins
    <2>9. DownPasses'
      <3>1. AuthLength - AuthLength = 0 /\ AuthLength >= AuthLength /\ 1 .. 0 = {} /\ 0 <= 0
        BY <2>0
      <3>2. AuthLength <= s3.sent
        BY <2>0, <2>1
      <3>3. s6'["game"] = <<>> /\ Len(<<>>) = 0 /\ s3'.sent = s3.sent
        BY <2>1, <2>5
      <3> QED
        BY <2>4, <3>1, <3>2, <3>3 DEF DownPasses, Passing, Begins
    <2> QED
      BY <2>6, <2>7, <2>8, <2>9 DEF RelayInvariant
  <1> QED
    BY <1>1, <1>2, <1>3

\* The thread of the connection, from then on.
LEMMA UpKeeps ==
    ASSUME Relay!ProxyAssumption, RelayInvariant,
           \/ Relay!ReadFails \/ Relay!TellsServer \/ Relay!Joins
           \/ \E n \in 0 .. Room : Relay!ReadsGame(n) \/ Relay!WritesServer(n)
    PROVE  RelayInvariant'
  <1>0. RelayTypes /\ RelayOrder /\ UpPasses /\ DownPasses
    BY DEF RelayInvariant
  <1>t. /\ s2 \in [at : PeerAt, sent : 0 .. Len(GameBytes)]
        /\ s4 \in [at : UpAt, read : Nat, buffer : Seq(Coded), key : Keys]
        /\ s6["server"] \in Seq(Coded) /\ DOMAIN s6 = Relay!Peers /\ {"game", "server"} = Relay!Peers
    BY <1>0 DEF RelayTypes, Relay!Peers
  <1>c. Len(GameBytes) \in Nat
    BY RelayConstants
  <1>1. CASE Relay!ReadFails \/ Relay!TellsServer \/ Relay!Joins
    <2>1. /\ s1' = s1 /\ s2' = s2 /\ s3' = s3 /\ s5' = s5 /\ s6' = s6
          /\ s4.at \in {"reads", "tells", "joins"}
          /\ \/ s4.at = "reads" /\ s4' = [s4 EXCEPT !.at = "tells"] /\ s8' = s8 \cup {"server"} /\ s7' = s7
             \/ /\ s4.at = "tells" /\ s4' = [s4 EXCEPT !.at = "joins"] /\ s7' = s7 \cup {"server"}
                /\ s8' = s8
             \/ /\ s4.at = "joins" /\ s4' = [s4 EXCEPT !.at = "ended"] /\ s7' = Relay!Peers
                /\ s5.at = "ended" /\ s8' = s8
      BY <1>1 DEF Relay!ReadFails, Relay!TellsServer, Relay!Joins
    <2>2. /\ s4' \in [at : UpAt, read : Nat, buffer : Seq(Coded), key : Keys] /\ s4'.read = s4.read
          /\ s4'.key = s4.key
          /\ \/ s4.at = "reads" /\ s4'.at = "tells" /\ s8' = s8 \cup {"server"} /\ s7' = s7
             \/ s4.at = "tells" /\ s4'.at = "joins" /\ s8' = s8 /\ s7' = s7 \cup {"server"}
             \/ s4.at = "joins" /\ s4'.at = "ended" /\ s8' = s8 /\ s5.at = "ended" /\ s7' = Relay!Peers
      BY <1>t, <2>1 DEF UpAt
    <2>3. RelayTypes'
      BY <1>0, <1>t, <2>1, <2>2 DEF RelayTypes
    <2>4. RelayOrder'
      BY <1>0, <2>1, <2>2 DEF RelayOrder, Early
    <2>5. UpPasses'
      BY <1>0, <2>1, <2>2 DEF UpPasses, Passing, Begins, AllPassed
    <2>6. DownPasses'
      BY <1>0, <2>1, <2>2, DownStays
    <2> QED
      BY <2>3, <2>4, <2>5, <2>6 DEF RelayInvariant
  <1>2. ASSUME NEW n \in 0 .. Room, Relay!ReadsGame(n) PROVE RelayInvariant'
    <2> DEFINE buffer == [i \in 1 .. n |-> <<GameBytes[s4.read + i], s4.key>>]
    <2>1. /\ s1' = s1 /\ s2' = s2 /\ s3' = s3 /\ s5' = s5 /\ s6' = s6 /\ s7' = s7 /\ s8' = s8
          /\ s4.at = "reads"
          /\ (n > 0 \/ (s4.read = s2.sent /\ s2.at \in {"ended", "gone"}))
          /\ s4' = [s4 EXCEPT !.read = @ + n, !.buffer = buffer, !.at = IF n = 0 THEN "tells" ELSE "writes"]
      BY <1>2 DEF Relay!ReadsGame, Relay!Chunk, Relay!NothingRead
    <2>a. n <= s2.sent - s4.read
      BY <1>2 DEF Relay!ReadsGame, Relay!Chunk
    <2>2. n \in Nat /\ s4.read \in Nat /\ s2.sent \in Nat /\ s2.sent <= Len(GameBytes)
      BY <1>t, <1>c, <1>2 DEF Relay!ProxyAssumption
    <2>k. s4.key = Relay!KeyIs /\ s5.at # "none"
      BY <1>0, <2>1 DEF RelayOrder
    <2>b. Len(s6["server"]) = s4.read /\ Len(s6["server"]) \in Nat /\ Begins(s6["server"], s4.read, FromGame)
      BY <1>0, <1>t, <2>1 DEF UpPasses, Passing
    <2>3. ASSUME NEW i \in 1 .. n PROVE buffer[i] = FromGame[s4.read + i] /\ buffer[i] \in Coded
      <3>1. s4.read + i \in 1 .. Len(GameBytes)
        BY <1>c, <2>a, <2>2
      <3>2. buffer[i] = <<GameBytes[s4.read + i], s4.key>>
        OBVIOUS
      <3> QED
        BY <2>k, <3>1, <3>2, RelayConstants
    <2>4. buffer \in Seq(Coded) /\ Len(buffer) = n
      <3>1. buffer \in [1 .. n -> Coded]
        BY <2>3
      <3> QED
        BY <2>2, <3>1
    <2> HIDE DEF buffer
    <2>5. /\ s4' \in [at : UpAt, read : Nat, buffer : Seq(Coded), key : Keys] /\ s4'.read = s4.read + n
          /\ s4'.buffer = buffer /\ s4'.at = (IF n = 0 THEN "tells" ELSE "writes") /\ s4'.key = s4.key
      <3>1. (IF n = 0 THEN "tells" ELSE "writes") \in UpAt /\ s4.read + n \in Nat
        BY <2>2 DEF UpAt
      <3> QED
        BY <1>t, <2>1, <2>4, <3>1
    <2>6. RelayTypes'
      BY <1>0, <2>1, <2>5 DEF RelayTypes
    <2>7. RelayOrder'
      BY <1>0, <2>1, <2>5, <2>k DEF RelayOrder, Early
    <2>8. s4.read + n <= s2.sent /\ Len(s6["server"]) <= s4.read + n /\ Len(s6["server"]) + n = s4.read + n
      BY <2>a, <2>2, <2>b
    <2>9. UpPasses'
      <3>1. CASE n = 0
        <4>1. s4'.at = "tells" /\ s4'.read = s4.read /\ s4.read = s2.sent /\ s2.at \in {"ended", "gone"}
          BY <2>1, <2>2, <2>5, <3>1
        <4>2. s2' = s2 /\ s6' = s6
          BY <2>1
        <4>3. s2.sent <= s2.sent
          BY <2>2
        <4>4. AllPassed(s6'["server"], s2'.sent, s2'.at)
          BY <2>b, <4>1, <4>2 DEF AllPassed
        <4>5. Passing(s6'["server"], s4'.buffer, s4'.at, s4'.read, FromGame)
          BY <2>b, <4>1, <4>2 DEF Passing
        <4> QED
          BY <4>1, <4>2, <4>3, <4>4, <4>5, UpIs
      <3>2. CASE n # 0
        <4>1. s4'.at = "writes" /\ s2'.sent = s2.sent /\ s6' = s6 /\ s4'.read = s4.read + n /\ s4'.buffer = buffer
          BY <2>1, <2>5, <3>2
        <4>2. Passing(s6["server"], buffer, "writes", s4.read + n, FromGame)
          <5>1. \A i \in 1 .. Len(buffer) : buffer[i] = FromGame[Len(s6["server"]) + i]
            BY <2>3, <2>4, <2>b
          <5>2. Len(s6["server"]) + Len(buffer) = s4.read + n
            BY <2>4, <2>8
          <5> QED
            BY <2>8, <2>b, <5>1, <5>2 DEF Passing, Begins
        <4>3. Passing(s6'["server"], s4'.buffer, s4'.at, s4'.read, FromGame)
          BY <4>1, <4>2
        <4>4. s4'.read <= s2'.sent
          BY <2>8, <4>1
        <4> QED
          BY <4>1, <4>3, <4>4, UpIs
      <3> QED
        BY <3>1, <3>2
    <2> QED
      BY <1>0, <2>1, <2>6, <2>7, <2>9, DownStays DEF RelayInvariant
  <1>3. ASSUME NEW n \in 0 .. Room, Relay!WritesServer(n) PROVE RelayInvariant'
    <2> DEFINE c == s6["server"] \o SubSeq(s4.buffer, 1, n)
    <2>1. /\ s1' = s1 /\ s2' = s2 /\ s3' = s3 /\ s5' = s5 /\ s7' = s7
          /\ s4.at = "writes" /\ n <= Len(s4.buffer)
          /\ s6' = [s6 EXCEPT !["server"] = c]
          /\ \/ n = Len(s4.buffer) /\ s4' = [s4 EXCEPT !.at = "reads", !.buffer = <<>>] /\ s8' = s8
             \/ s4' = [s4 EXCEPT !.at = "tells", !.buffer = <<>>] /\ s8' = s8 \cup {"server"}
      BY <1>3 DEF Relay!WritesServer
    <2>2. n \in 0 .. Len(s4.buffer) /\ s4.buffer \in Seq(Coded) /\ s4.read \in Nat
          /\ Passing(s6["server"], s4.buffer, "writes", s4.read, FromGame)
      BY <1>0, <1>t, <2>1 DEF UpPasses, Relay!ProxyAssumption
    <2>3. /\ c \in Seq(Coded) /\ Begins(c, s4.read, FromGame)
          /\ (n = Len(s4.buffer) => Len(c) = s4.read)
      <3> DEFINE a == s6["server"]
                 b == s4.buffer
                 read == s4.read
      <3>1. a \in Seq(Coded) /\ b \in Seq(Coded) /\ read \in Nat /\ n \in 0 .. Len(b)
        BY <1>t, <2>2
      <3>2. Passing(a, b, "writes", read, FromGame)
        BY <2>2
      <3>3. c = a \o SubSeq(b, 1, n)
        OBVIOUS
      <3> HIDE DEF a, b, read, c
      <3>4. c \in Seq(Coded) /\ Begins(c, read, FromGame) /\ (n = Len(b) => Len(c) = read)
        BY ONLY <3>1, <3>2, <3>3, PassingWrites
      <3> QED
        BY <3>4 DEF a, b, read
    <2>4. /\ s6'["server"] = c /\ s6'["game"] = s6["game"] /\ DOMAIN s6' = Relay!Peers
      BY <1>t, <2>1
    <2> HIDE DEF c
    <2>5. /\ s4' \in [at : UpAt, read : Nat, buffer : Seq(Coded), key : Keys] /\ s4'.read = s4.read
          /\ s4'.key = s4.key
          /\ \/ n = Len(s4.buffer) /\ s4'.at = "reads" /\ s8' = s8
             \/ s4'.at = "tells" /\ s8' = s8 \cup {"server"}
      <3>1. <<>> \in Seq(Coded) /\ {"reads", "tells"} \subseteq UpAt
        BY DEF UpAt
      <3> QED
        BY <1>t, <2>1, <3>1
    <2>6. RelayTypes'
      BY <1>0, <1>t, <2>1, <2>3, <2>4, <2>5 DEF RelayTypes
    <2>7. RelayOrder'
      BY <1>0, <2>1, <2>4, <2>5 DEF RelayOrder, Early
    <2>8. UpPasses'
      BY <1>0, <2>1, <2>3, <2>4, <2>5 DEF UpPasses, Passing
    <2>9. DownPasses'
      BY <1>0, <2>1, <2>4, <2>5, DownStays
    <2> QED
      BY <2>6, <2>7, <2>8, <2>9 DEF RelayInvariant
  <1> QED
    BY <1>1, <1>2, <1>3

LEMMA RelayKeeps ==
    ASSUME Relay!ProxyAssumption, RelayInvariant, [Relay!Next]_(Relay!vars) PROVE RelayInvariant'
  <1>1. CASE UNCHANGED Relay!vars
    <2>1. s1' = s1 /\ s2' = s2 /\ s3' = s3 /\ s4' = s4 /\ s5' = s5 /\ s6' = s6 /\ s7' = s7 /\ s8' = s8
      BY <1>1 DEF Relay!vars
    <2> QED
      BY <2>1, UpStays, DownStays DEF RelayInvariant, RelayTypes, RelayOrder, Early
  <1> QED
    BY <1>1, WorldKeeps, DownKeeps, ConnectsKeep, UpKeeps DEF Relay!Next, Relay!Up

\* What the run checks of the proxy follows.
LEMMA RelayPromises ==
    ASSUME Relay!ProxyAssumption, RelayInvariant PROVE Relay!TypeOK /\ Relay!PassesOn /\ Relay!EndAfterAll
  <1>0. RelayTypes /\ RelayOrder /\ UpPasses /\ DownPasses
    BY DEF RelayInvariant
  <1>c. /\ AuthLength \in Nat /\ Len(GameBytes) \in Nat /\ Len(ServerBytes) \in Nat
        /\ AuthLength <= Len(ServerBytes)
    BY RelayConstants
  <1>t. /\ s2.sent \in 0 .. Len(GameBytes) /\ s3.sent \in 0 .. Len(ServerBytes)
        /\ s4.read \in Nat /\ s5.read \in Nat
        /\ s6["server"] \in Seq(Coded) /\ s6["game"] \in Seq(Byte)
    BY <1>0 DEF RelayTypes
  <1>1. Relay!TypeOK
    BY <1>0 DEF RelayTypes, UpPasses, DownPasses, PeerAt, UpAt, DownAt, Relay!TypeOK
  <1>2. Relay!PassesOn
    <2>1. Relay!IsPrefix(s6["server"], FromGame)
      <3>1. /\ Len(s6["server"]) \in Nat /\ Len(s6["server"]) <= Len(GameBytes)
            /\ \A i \in 1 .. Len(s6["server"]) : s6["server"][i] = FromGame[i]
        BY <1>0, <1>c, <1>t DEF UpPasses, Passing, Begins
      <3>2. \A i \in 1 .. Len(GameBytes) : FromGame[i] \in Coded
        BY RelayConstants
      <3>3. FromGame \in [1 .. Len(GameBytes) -> Coded]
        BY <3>2 DEF FromGame
      <3>4. FromGame \in Seq(Coded) /\ Len(FromGame) = Len(GameBytes)
        BY <1>c, <3>3
      <3> QED
        BY <1>t, <3>1, <3>4, PrefixIs
    <2>2. Relay!IsPrefix(s6["game"], SubSeq(ServerBytes, AuthLength + 1, Len(ServerBytes)))
      <3> DEFINE all == SubSeq(ServerBytes, AuthLength + 1, Len(ServerBytes))
                 n == Len(ServerBytes) - AuthLength
      <3>1. n \in Nat /\ AuthLength + n = Len(ServerBytes) /\ ServerBytes \in Seq(Byte)
        BY <1>c DEF Relay!ProxyAssumption, Byte
      <3>2. all \in Seq(Byte) /\ Len(all) = n /\ \A i \in 1 .. n : all[i] = ServerBytes[AuthLength + i]
        <4>1. /\ SubSeq(ServerBytes, AuthLength + 1, AuthLength + n) \in Seq(Byte)
              /\ Len(SubSeq(ServerBytes, AuthLength + 1, AuthLength + n)) = n
              /\ \A i \in 1 .. n : SubSeq(ServerBytes, AuthLength + 1, AuthLength + n)[i] = ServerBytes[AuthLength + i]
          <5>1. AuthLength + n <= Len(ServerBytes)
            BY <1>c, <3>1
          <5> HIDE DEF n
          <5> QED
            BY <1>c, <3>1, <5>1, SubSeqIs
        <4> HIDE DEF n
        <4> QED
          BY <3>1, <4>1
      <3>3. \A i \in 1 .. n : all[i] = FromServer[i]
        BY <3>2, RelayConstants
      <3> HIDE DEF all
      <3>4. /\ Len(s6["game"]) \in Nat /\ Len(s6["game"]) <= n
            /\ \A i \in 1 .. Len(s6["game"]) : s6["game"][i] = FromServer[i]
        <4>1. CASE s5.at = "none"
          <5>1. Len(<<>>) = 0 /\ 1 .. 0 = {} /\ 0 \in Nat /\ 0 <= n
            BY <3>1
          <5> QED
            BY <1>0, <4>1, <5>1 DEF RelayOrder
        <4>2. CASE s5.at # "none"
          <5>1. Len(s6["game"]) <= s5.read - AuthLength /\ s5.read <= s3.sent
            BY <1>0, <4>2 DEF DownPasses, Passing, Begins
          <5>2. \A i \in 1 .. Len(s6["game"]) : s6["game"][i] = FromServer[i]
            BY <1>0, <4>2 DEF DownPasses, Passing, Begins
          <5>3. Len(s6["game"]) \in Nat
            BY <1>t
          <5>4. Len(s6["game"]) <= n
            BY <1>c, <1>t, <5>1, <5>3
          <5> QED
            BY <5>2, <5>3, <5>4
        <4> QED
          BY <4>1, <4>2
      <3>5. \A i \in 1 .. Len(s6["game"]) : i \in 1 .. n
        BY <3>1, <3>4
      <3> QED
        BY <1>t, <3>2, <3>3, <3>4, <3>5, PrefixIs DEF all
    <2> QED
      BY <2>1, <2>2 DEF Relay!PassesOn, FromGame
  <1>3. Relay!EndAfterAll
    BY <1>0, <1>t DEF RelayOrder, UpPasses, DownPasses, AllPassed, Relay!EndAfterAll
  <1> QED
    BY <1>1, <1>2, <1>3

-----------------------------------------------------------------------------
(* Numbers.                                                                *)

\* Some number of a finite set that is not empty is its least one.
LEMMA LeastOf ==
    ASSUME NEW A, A \subseteq Nat, IsFiniteSet(A), NEW B \in SUBSET A, B # {}
    PROVE  \E least \in B : \A n \in B : least <= n
  <1> DEFINE Under(n) == {m \in A : m < n}
             below == {Under(n) : n \in B}
             order == StrictSubsetOrdering(A)
  <1>1. IsWellFoundedOn(order, SUBSET A)
    BY FS_StrictSubsetOrderingWellFounded, FS_FiniteSubsetsOfFinite
  <1>2. below \subseteq SUBSET A /\ below # {}
    OBVIOUS
  <1>3. \E x \in below : \A y \in below : <<y, x>> \notin order
    <2> HIDE DEF below, order
    <2> QED
      BY <1>1, <1>2, WFMin
  <1>4. PICK x \in below : \A y \in below : <<y, x>> \notin order
    <2> HIDE DEF below, order
    <2> QED
      BY <1>3
  <1>6. PICK least \in B : x = Under(least)
    OBVIOUS
  <1>5. ASSUME NEW n \in B PROVE least <= n
    <2> SUFFICES ASSUME n < least PROVE FALSE
      OBVIOUS
    <2>0. n \in A /\ n \in Nat /\ least \in A /\ least \in Nat
      OBVIOUS
    <2>1. Under(n) \subseteq Under(least) /\ n \in Under(least) /\ n \notin Under(n)
      <3>1. ASSUME NEW m \in A, m < n PROVE m < least
        <4>1. m \in Nat
          OBVIOUS
        <4> QED
          BY <2>0, <3>1, <4>1
      <3>2. ~(n < n)
        BY <2>0
      <3> QED
        BY <2>0, <3>1, <3>2
    <2>2. Under(n) # Under(least) /\ Under(n) \in SUBSET A /\ Under(least) \in SUBSET A
      BY <2>1
    <2>3. <<Under(n), Under(least)>> \in order
      <3> HIDE DEF Under
      <3> QED
        BY <2>1, <2>2, Zenon DEF StrictSubsetOrdering
    <2> QED
      <3> HIDE DEF order
      <3> QED
        BY <1>4, <1>6, <2>3
  <1> QED
    BY <1>5

\* And of the numbers below another one there is a greatest.
LEMMA GreatestOf ==
    ASSUME NEW bound \in Nat, NEW B \in SUBSET (0 .. bound), B # {}
    PROVE  \E greatest \in B : \A n \in B : n <= greatest
  <1> DEFINE Mirror == {bound - n : n \in B}
  <1>1. Mirror \in SUBSET (0 .. bound) /\ Mirror # {}
    <2>1. ASSUME NEW n \in B PROVE bound - n \in 0 .. bound
      OBVIOUS
    <2> QED
      BY <2>1
  <1>2. PICK least \in Mirror : \A n \in Mirror : least <= n
    <2>1. IsFiniteSet(0 .. bound) /\ 0 .. bound \subseteq Nat
      BY FS_Interval
    <2> HIDE DEF Mirror
    <2> QED
      BY <1>1, <2>1, LeastOf
  <1>3. PICK greatest \in B : least = bound - greatest
    OBVIOUS
  <1>4. ASSUME NEW n \in B PROVE n <= greatest
    <2>1. least <= bound - n
      BY <1>2
    <2> QED
      BY <1>3, <2>1
  <1> QED
    BY <1>4

-----------------------------------------------------------------------------
(* The day.                                                                *)

\* Who is at work, and where; nothing is bad before the session is spoiled.
DayOrder ==
    /\ s2 = "off" => s3["page"].does = "none" /\ s3["tick"].does = "none"
    /\ s2 # "off" => s3["closer"].does = "none"
    /\ \A a \in Day!Actors : s3[a].does \in {"apply", "undo", "restore"} => s3[a].at \in Day!Places
    /\ ~s7 => s6 = {}
\* What the end of a session has not put back is not beyond the place it is at.
AllPut == \A s \in Day!Places : s4[s] = "game"
DayUndone ==
    s2 = "off" /\ ~s7 =>
        \/ s3["closer"].does = "find" /\ s3["closer"].from = 1
        \/ s3["closer"].does = "restore" /\ \A s \in Day!Places : s > s3["closer"].at => s4[s] = "game"
        \/ s3["closer"].does = "refresh" /\ AllPut
        \/ s3["closer"].does = "none" /\ AllPut /\ s5 = "natural"
DayInvariant == Day!TypeOK /\ DayOrder /\ DayUndone

DayWork == [does : Day!Steps, at : 0 .. Day!Top, from : 0 .. Day!Top + 1]

LEMMA DayTop ==
    ASSUME Day!DayAssumption PROVE Day!Top \in Nat \ {0} /\ Day!Places = 1 .. Day!Top
  BY DEF Day!DayAssumption, Day!Top, Day!Places

LEMMA DayBegins == ASSUME Day!DayAssumption, Day!Init PROVE DayInvariant
  <1> USE DayTop DEF Day!Init
  <1>1. Day!Idle \in DayWork
    BY DEF Day!Idle, DayWork, Day!Steps
  <1>2. Day!TypeOK
    BY <1>1 DEF Day!TypeOK, DayWork
  <1>3. DayOrder /\ DayUndone
    BY DEF DayOrder, DayUndone, Day!Idle, Day!Actors
  <1> QED
    BY <1>2, <1>3 DEF DayInvariant

\* What an actor begins or goes on with.
LEMMA DayMoves ==
    ASSUME Day!DayAssumption, Day!TypeOK, DayOrder, NEW a \in Day!Actors, NEW next \in DayWork,
           s3' = [s3 EXCEPT ![a] = next],
           next.does \in {"apply", "undo", "restore"} => next.at \in Day!Places,
           s2' = "off" => a = "closer" /\ s3["page"].does = "none" /\ s3["tick"].does = "none",
           s2' # "off" => a # "closer" /\ s3["closer"].does = "none",
           s1' \in BOOLEAN, s2' \in {"on", "closing", "off"}, UNCHANGED <<s6, s7>>,
           s4' \in [Day!Places -> {"game", "ours"}], s5' \in {"bright", "natural"}
    PROVE  Day!TypeOK' /\ DayOrder'
  <1> USE DEF Day!TypeOK
  <1>1. s3' \in [Day!Actors -> DayWork] /\ s3'[a] = next
        /\ \A b \in Day!Actors \ {a} : s3'[b] = s3[b]
    BY DEF DayWork
  <1>2. Day!TypeOK'
    BY <1>1 DEF DayWork
  <1>3. DayOrder'
    BY <1>1 DEF DayOrder, Day!Actors
  <1> QED
    BY <1>2, <1>3

LEMMA NextUndoneType ==
    ASSUME Day!DayAssumption, NEW f, NEW s \in Day!Places
    PROVE  Day!NextUndone(f, s) \in 0 .. Day!Top
  <1> DEFINE rest == {t \in 1 .. s - 1 : Group[t] # Group[s] \/ (f <= Day!Top /\ Group[f] = Group[s])}
  <1>1. Day!NextUndone(f, s) = IF rest = {} THEN 0 ELSE CHOOSE t \in rest : \A u \in rest : u <= t
    BY DEF Day!NextUndone
  <1>2. rest \in SUBSET (1 .. s - 1) /\ s - 1 \in Nat /\ s - 1 <= Day!Top /\ Day!Top \in Nat
    BY DayTop
  <1> HIDE DEF rest
  <1>3. CASE rest # {}
    <2>1. \E t \in rest : \A u \in rest : u <= t
      <3>1. rest \in SUBSET (0 .. s - 1)
        BY <1>2
      <3> QED
        BY <1>2, <1>3, <3>1, GreatestOf
    <2>2. (CHOOSE t \in rest : \A u \in rest : u <= t) \in rest
      BY <2>1
    <2>3. Day!NextUndone(f, s) \in rest
      BY <1>1, <1>3, <2>2
    <2>4. Day!NextUndone(f, s) \in 1 .. s - 1
      BY <1>2, <2>3
    <2> QED
      BY <1>2, <2>4
  <1> QED
    BY <1>1, <1>2, <1>3

\* The places as a step of one actor may leave them.
LEMMA DaySites ==
    ASSUME Day!TypeOK, NEW p \in Day!Places, NEW what \in {"game", "ours"},
           s4' = [s4 EXCEPT ![p] = what]
    PROVE  /\ s4' \in [Day!Places -> {"game", "ours"}] /\ s4'[p] = what
           /\ \A s \in Day!Places \ {p} : s4'[s] = s4[s]
  BY DEF Day!TypeOK

\* What an actor goes on with is something that can be gone on with.
LEMMA DayGoes ==
    ASSUME Day!DayAssumption, Day!TypeOK, DayOrder, NEW a \in Day!Actors, s3[a].does # "none", NEW next \in DayWork,
           s3' = [s3 EXCEPT ![a] = next], Day!Rest,
           next.does \in {"apply", "undo", "restore"} => next.at \in Day!Places,
           s4' \in [Day!Places -> {"game", "ours"}], s5' \in {"bright", "natural"},
           s2 = "off" => DayUndone'
    PROVE  DayInvariant'
  <1> USE DEF Day!Rest
  <1>1. /\ s1' \in BOOLEAN /\ s2' \in {"on", "closing", "off"} /\ UNCHANGED <<s2, s6, s7>>
    BY DEF Day!TypeOK
  <1>2. /\ s2' = "off" => a = "closer" /\ s3["page"].does = "none" /\ s3["tick"].does = "none"
        /\ s2' # "off" => a # "closer" /\ s3["closer"].does = "none"
    BY <1>1 DEF DayOrder, Day!Actors
  <1>3. Day!TypeOK' /\ DayOrder'
    BY <1>1, <1>2, DayMoves
  <1>4. DayUndone'
    BY <1>1 DEF DayUndone
  <1> QED
    BY <1>3, <1>4 DEF DayInvariant

\* Only the end of the session works when it is off, and nothing is bad then.
LEMMA DayCloser ==
    ASSUME DayInvariant, NEW a \in Day!Actors, s3[a].does # "none", s2 = "off", ~s7
    PROVE  /\ a = "closer" /\ s6 = {}
           /\ s3[a].does \in {"find", "restore", "refresh"}
           /\ s3[a].does = "find" => s3[a].from = 1
           /\ s3[a].does = "restore" => s3[a].at \in Day!Places
                                         /\ \A s \in Day!Places : s > s3[a].at => s4[s] = "game"
           /\ s3[a].does = "refresh" => AllPut
  BY DEF DayInvariant, DayOrder, DayUndone, Day!Actors

LEMMA DayStepKeeps ==
    ASSUME Day!DayAssumption, DayInvariant, NEW a \in Day!Actors, Day!Step(a)
    PROVE  DayInvariant'
  <1> USE DayTop DEF Day!Is, Day!At, Day!Goes, Day!Ends
  <1>0. Day!TypeOK /\ DayOrder /\ s3[a] \in DayWork /\ Day!Top \in Nat \ {0} /\ Day!Places = 1 .. Day!Top
    BY DEF DayInvariant, Day!TypeOK, DayWork
  <1>i. Day!Idle \in DayWork /\ Day!Idle.does = "none" /\ s3[a].does \in Day!Steps
    BY <1>0 DEF Day!Idle, DayWork, Day!Steps
  <1>s. s4 \in [Day!Places -> {"game", "ours"}] /\ s5 \in {"bright", "natural"}
    BY <1>0 DEF Day!TypeOK
  <1>w. \A d \in Day!Steps, p \in 0 .. Day!Top, f \in 0 .. Day!Top + 1 :
            /\ [does |-> d, at |-> p, from |-> f] \in DayWork
            /\ [does |-> d, at |-> p, from |-> f].does = d /\ [does |-> d, at |-> p, from |-> f].at = p
    BY DEF DayWork
  <1>1. CASE Day!Finds(a)
    <2>1. s3[a].does = "find" /\ Day!Rest /\ UNCHANGED <<s4, s5>>
      BY <1>1 DEF Day!Finds
    <2>2. PICK next \in {Day!Idle, [does |-> "apply", at |-> 1, from |-> 0], [does |-> "restore", at |-> Day!Top, from |-> 0]} :
            s3' = [s3 EXCEPT ![a] = next]
      BY <1>1 DEF Day!Finds
    <2>3. next \in DayWork /\ (next.does \in {"apply", "undo", "restore"} => next.at \in Day!Places)
      BY <1>0, <1>i, <1>w DEF Day!Steps
    <2>4. ASSUME s2 = "off" PROVE DayUndone'
      <3> SUFFICES ASSUME ~s7' PROVE DayUndone'
        BY DEF DayUndone
      <3>1. ~s7 /\ a = "closer" /\ s6 = {} /\ s3[a].from = 1
        BY <2>1, <2>4, DayCloser DEF Day!Rest
      <3>2. s3' = [s3 EXCEPT ![a] = [does |-> "restore", at |-> Day!Top, from |-> 0]]
        BY <1>1, <3>1 DEF Day!Finds
      <3>3. s3'["closer"].does = "restore" /\ s3'["closer"].at = Day!Top
        BY <1>0, <3>1, <3>2 DEF Day!TypeOK
      <3>4. \A s \in Day!Places : ~(s > Day!Top)
        BY <1>0
      <3> QED
        BY <3>3, <3>4 DEF DayUndone
    <2> QED
      BY <1>0, <1>s, <2>1, <2>2, <2>3, <2>4, DayGoes
  <1>2. CASE Day!Applies(a)
    <2>1. s3[a].does = "apply" /\ Day!Rest /\ s3[a].at \in Day!Places /\ s4' = [s4 EXCEPT ![s3[a].at] = "ours"] /\ s5' = s5
      BY <1>0, <1>2 DEF Day!Applies, DayOrder
    <2>2. s4' \in [Day!Places -> {"game", "ours"}]
      BY <1>0, <2>1, DaySites
    <2>3. CASE s3[a].at = Day!Top
      <3>1. s3' = [s3 EXCEPT ![a] = [does |-> "clear", at |-> 0, from |-> 0]]
        BY <1>2, <2>3 DEF Day!Applies
      <3>2. [does |-> "clear", at |-> 0, from |-> 0] \in DayWork
        BY <1>0, <1>w DEF Day!Steps
      <3> QED
        BY <1>0, <1>s, <2>1, <2>2, <3>1, <3>2, DayGoes, DayCloser DEF DayUndone, Day!Rest
    <2>4. CASE s3[a].at # Day!Top
      <3> DEFINE next == [does |-> "apply", at |-> s3[a].at + 1, from |-> 0]
      <3>1. s3' = [s3 EXCEPT ![a] = next]
        BY <1>2, <2>4 DEF Day!Applies
      <3>2. s3[a].at + 1 \in Day!Places /\ s3[a].at + 1 \in 0 .. Day!Top
        BY <1>0, <2>1, <2>4
      <3>3. next \in DayWork /\ next.at \in Day!Places
        BY <1>0, <1>w, <3>2 DEF Day!Steps
      <3> HIDE DEF next
      <3> QED
        BY <1>0, <1>s, <2>1, <2>2, <3>1, <3>3, DayGoes, DayCloser DEF DayUndone, Day!Rest
    <2> QED
      BY <2>3, <2>4
  <1>3. CASE Day!CannotApply(a)
    <2>1. s3[a].does = "apply" /\ Day!Rest /\ s3[a].at \in Day!Places /\ UNCHANGED <<s4, s5>>
      BY <1>0, <1>3 DEF Day!CannotApply, DayOrder
    <2> DEFINE back == [does |-> "undo", at |-> s3[a].at - 1, from |-> s3[a].at]
    <2>2. PICK next \in {Day!Idle, back} :
            s3' = [s3 EXCEPT ![a] = next] /\ (next = back => s3[a].at # 1)
      BY <1>3, <1>i DEF Day!CannotApply
    <2>3. s3[a].at # 1 => s3[a].at - 1 \in Day!Places /\ s3[a].at - 1 \in 0 .. Day!Top /\ s3[a].at \in 0 .. Day!Top + 1
      BY <1>0, <2>1
    <2>4. next \in DayWork /\ (next.does \in {"apply", "undo", "restore"} => next.at \in Day!Places)
      BY <1>i, <1>w, <2>2, <2>3 DEF Day!Steps
    <2> HIDE DEF back
    <2> QED
      BY <1>0, <1>s, <2>1, <2>2, <2>4, DayGoes, DayCloser DEF DayUndone, Day!Rest
  <1>4. CASE Day!Undoes(a)
    <2> DEFINE s == s3[a].at
               n == IF s \notin s6 THEN s - 1 ELSE Day!NextUndone(s3[a].from, s)
               on == [does |-> "undo", at |-> n, from |-> s3[a].from]
    <2>1. s3[a].does = "undo" /\ Day!Rest /\ s \in Day!Places /\ s5' = s5
      BY <1>0, <1>4 DEF Day!Undoes, DayOrder
    <2>2. s4' \in [Day!Places -> {"game", "ours"}]
      BY <1>0, <1>4, <1>s, <2>1, DaySites DEF Day!Undoes
    <2>3. n \in 0 .. Day!Top /\ s3[a].from \in 0 .. Day!Top + 1
      <3>1. s - 1 \in 0 .. Day!Top
        BY <1>0, <2>1
      <3> QED
        BY <1>0, <2>1, <3>1, NextUndoneType DEF DayWork
    <2>4. PICK next \in {Day!Idle, on} : s3' = [s3 EXCEPT ![a] = next] /\ (next = on => n # 0)
      BY <1>4, <1>i DEF Day!Undoes
    <2> HIDE DEF n
    <2>5. next \in DayWork /\ (next.does \in {"apply", "undo", "restore"} => next.at \in Day!Places)
      BY <1>0, <1>i, <1>w, <2>3, <2>4 DEF Day!Steps
    <2> HIDE DEF on
    <2> QED
      BY <1>0, <1>s, <2>1, <2>2, <2>4, <2>5, DayGoes, DayCloser DEF DayUndone, Day!Rest
  <1>5. CASE Day!Clears(a) \/ Day!ClearsCave(a) \/ Day!Brightens(a)
    <2>1. /\ s3[a].does \in {"clear", "cave", "colours"} /\ Day!Rest /\ UNCHANGED s4
          /\ s5' \in {"bright", "natural"}
      BY <1>5, <1>s DEF Day!Clears, Day!ClearsCave, Day!Brightens
    <2>2. PICK next \in {Day!Idle, [does |-> "cave", at |-> 0, from |-> 0], [does |-> "colours", at |-> 0, from |-> 0],
                         [does |-> "undo", at |-> Day!Top, from |-> Day!Top + 1]} :
            s3' = [s3 EXCEPT ![a] = next]
      BY <1>5 DEF Day!Clears, Day!ClearsCave, Day!Brightens
    <2>3. Day!Top \in Day!Places /\ Day!Top \in 0 .. Day!Top /\ {0, Day!Top + 1} \subseteq 0 .. Day!Top + 1 /\ 0 \in 0 .. Day!Top
      BY <1>0
    <2>4. next \in DayWork /\ (next.does \in {"apply", "undo", "restore"} => next.at \in Day!Places)
      BY <1>i, <1>w, <2>3 DEF Day!Steps
    <2> QED
      BY <1>0, <1>s, <2>1, <2>2, <2>4, DayGoes, DayCloser DEF DayUndone, Day!Rest
  <1>6. CASE Day!Restores(a)
    <2> DEFINE p == s3[a].at
               next == IF p = 1 THEN [does |-> "refresh", at |-> 0, from |-> 0]
                       ELSE [does |-> "restore", at |-> p - 1, from |-> 0]
    <2>1. /\ s3[a].does = "restore" /\ Day!Rest /\ p \in Day!Places /\ s5' = s5
          /\ s4' = [s4 EXCEPT ![p] = "game"] /\ s3' = [s3 EXCEPT ![a] = next]
      BY <1>0, <1>6 DEF Day!Restores, DayOrder
    <2>2. s4' \in [Day!Places -> {"game", "ours"}] /\ s4'[p] = "game" /\ \A s \in Day!Places \ {p} : s4'[s] = s4[s]
      BY <1>0, <2>1, DaySites
    <2>3. p # 1 => p - 1 \in Day!Places /\ p - 1 \in 0 .. Day!Top
      BY <1>0, <2>1
    <2>4. next \in DayWork /\ (next.does \in {"apply", "undo", "restore"} => next.at \in Day!Places)
      BY <1>0, <1>w, <2>3 DEF Day!Steps
    <2>5. ASSUME s2 = "off" PROVE DayUndone'
      <3> SUFFICES ASSUME ~s7' PROVE DayUndone'
        BY DEF DayUndone
      <3>1. ~s7 /\ a = "closer" /\ \A s \in Day!Places : s > p => s4[s] = "game"
        BY <2>1, <2>5, DayCloser DEF Day!Rest
      <3>2. s3'["closer"] = next
        BY <1>0, <2>1, <3>1 DEF Day!TypeOK
      <3>3. CASE p = 1
        <4>1. \A s \in Day!Places : s = p \/ s > p
          BY <1>0, <3>3
        <4>2. AllPut'
          BY <2>2, <3>1, <4>1 DEF AllPut
        <4> QED
          BY <3>2, <3>3, <4>2 DEF DayUndone
      <3>4. CASE p # 1
        <4>1. \A s \in Day!Places : s > p - 1 => s = p \/ s > p
          BY <1>0, <2>1
        <4>2. s3'["closer"].does = "restore" /\ s3'["closer"].at = p - 1
          BY <3>2, <3>4
        <4>3. \A s \in Day!Places : s > p - 1 => s4'[s] = "game"
          BY <2>2, <3>1, <4>1
        <4> QED
          BY <4>2, <4>3 DEF DayUndone
      <3> QED
        BY <3>3, <3>4
    <2> HIDE DEF next
    <2> QED
      BY <1>0, <1>s, <2>1, <2>2, <2>4, <2>5, DayGoes
  <1>7. CASE Day!CannotRestore(a)
    <2>1. s3[a].does = "restore" /\ s3[a].at \in s6 /\ Day!Rest /\ s3' = [s3 EXCEPT ![a] = Day!Idle] /\ UNCHANGED <<s4, s5>>
      BY <1>7 DEF Day!CannotRestore
    <2>2. s2 = "off" => s7'
      BY <2>1, DayCloser DEF Day!Rest
    <2> QED
      BY <1>0, <1>i, <1>s, <2>1, <2>2, DayGoes DEF DayUndone
  <1>8. CASE Day!Refreshes(a)
    <2>1. /\ s3[a].does = "refresh" /\ Day!Rest /\ s3' = [s3 EXCEPT ![a] = Day!Idle] /\ s4' = s4
          /\ s5' = IF ~Day!Legible THEN s5 ELSE IF s4[1] = "ours" THEN "bright" ELSE "natural"
      BY <1>8 DEF Day!Refreshes
    <2>2. ASSUME s2 = "off" PROVE DayUndone'
      <3> SUFFICES ASSUME ~s7' PROVE DayUndone'
        BY DEF DayUndone
      <3>1. ~s7 /\ a = "closer" /\ s6 = {} /\ AllPut
        BY <2>1, <2>2, DayCloser DEF Day!Rest
      <3>2. 1 \in Day!Places /\ s4[1] = "game" /\ Day!Legible
        BY <1>0, <3>1 DEF AllPut, Day!Legible
      <3>3. AllPut' /\ s5' = "natural"
        BY <2>1, <3>1, <3>2 DEF AllPut
      <3>4. s3'["closer"].does = "none"
        BY <1>0, <1>i, <2>1, <3>1 DEF Day!TypeOK
      <3> QED
        BY <3>3, <3>4 DEF DayUndone
    <2> QED
      BY <1>0, <1>i, <1>s, <2>1, <2>2, DayGoes
  <1> QED
    BY <1>1, <1>2, <1>3, <1>4, <1>5, <1>6, <1>7, <1>8 DEF Day!Step

\* An actor that is idle begins.
LEMMA DayBeginsWork ==
    ASSUME Day!DayAssumption, DayInvariant, NEW a \in Day!Actors, NEW w \in BOOLEAN, Day!Begins(a, w),
           s2' = "off" => a = "closer" /\ ~w /\ s3["page"].does = "none" /\ s3["tick"].does = "none",
           s2' # "off" => a # "closer" /\ s3["closer"].does = "none",
           s1' \in BOOLEAN, s2' \in {"on", "closing", "off"}, UNCHANGED <<s4, s5, s6, s7>>
    PROVE  DayInvariant'
  <1> DEFINE next == [does |-> "find", at |-> 0, from |-> IF w THEN 0 ELSE 1]
  <1>1. next \in DayWork /\ next.does = "find" /\ (~w => next.from = 1)
    BY DayTop DEF DayWork, Day!Steps
  <1>2. s3' = [s3 EXCEPT ![a] = next]
    BY DEF Day!Begins, Day!Goes
  <1>3. s4' \in [Day!Places -> {"game", "ours"}] /\ s5' \in {"bright", "natural"}
    BY DEF DayInvariant, Day!TypeOK
  <1> HIDE DEF next
  <1>4. Day!TypeOK' /\ DayOrder'
    BY <1>1, <1>2, <1>3, DayMoves DEF DayInvariant
  <1>5. DayUndone'
    BY <1>1, <1>2 DEF DayUndone, DayInvariant, Day!TypeOK
  <1> QED
    BY <1>4, <1>5 DEF DayInvariant

LEMMA DayKeeps ==
    ASSUME Day!DayAssumption, DayInvariant, [Day!Next]_(Day!vars) PROVE DayInvariant'
  <1> USE DEF Day!Is
  <1>0. Day!TypeOK /\ DayOrder /\ DayUndone /\ {"page", "tick", "closer"} = Day!Actors
    BY DEF DayInvariant, Day!Actors
  <1>1. CASE \E a \in Day!Actors : Day!Step(a)
    BY <1>1, DayStepKeeps
  <1>2. CASE Day!TickBegins
    BY <1>0, <1>2, DayBeginsWork DEF Day!TickBegins, DayOrder, Day!TypeOK
  <1>3. CASE Day!Joined
    BY <1>0, <1>3, DayBeginsWork DEF Day!Joined, DayOrder, Day!TypeOK
  <1>4. CASE Day!Leave
    BY <1>4 DEF Day!Leave, DayInvariant, DayOrder, DayUndone, Day!TypeOK
  <1>5. CASE Day!BadChanges
    <2>1. s6' \subseteq Day!Places /\ s7' = TRUE /\ UNCHANGED <<s1, s2, s3, s4, s5>>
      BY <1>5 DEF Day!BadChanges
    <2> QED
      BY <2>1 DEF DayInvariant, DayOrder, DayUndone, Day!TypeOK
  <1>6. ASSUME NEW w \in BOOLEAN, Day!Click(w) PROVE DayInvariant'
    BY <1>0, <1>6, DayBeginsWork DEF Day!Click, DayOrder
  <1>7. ASSUME NEW w \in BOOLEAN, Day!ComesBack(w) PROVE DayInvariant'
    <2>1. /\ s2 = "off" /\ s2' = "on" /\ s3["closer"].does = "none" /\ s1' \in BOOLEAN /\ s7' \in BOOLEAN
          /\ (~s7' => s6 = {}) /\ UNCHANGED <<s3, s4, s5, s6>>
      BY <1>7 DEF Day!ComesBack
    <2> QED
      BY <2>1 DEF DayInvariant, DayOrder, DayUndone, Day!TypeOK
  <1>8. CASE UNCHANGED Day!vars
    BY <1>8 DEF Day!vars, DayInvariant, DayOrder, DayUndone, AllPut, Day!TypeOK
  <1> QED
    BY <1>0, <1>1, <1>2, <1>3, <1>4, <1>5, <1>6, <1>7, <1>8 DEF Day!Next, Day!Tick, Day!Others, Day!Player

LEMMA DayPromises == ASSUME DayInvariant PROVE Day!TypeOK /\ Day!NothingLeft /\ Day!ColoursLeft
  BY DEF DayInvariant, DayUndone, AllPut, Day!NothingLeft, Day!ColoursLeft, Day!Closed, Day!Is

-----------------------------------------------------------------------------
(* The water.                                                              *)

\* Who is at work, and that water which we hid is hidden.
WaterOrder ==
    /\ s2 = "off" => s3["page"] = "none" /\ s3["tick"] = "none"
    /\ s2 # "off" => s3["closer"] = "none"
    /\ s3["closer"] \notin {"hide", "mark"}
    /\ s6 = "us" => s4 = "hidden"
\* As long as nobody has crossed another: what we hid is marked or about to be, and
\* nobody takes the mark away before it is shown.
WaterMarks ==
    ~s7 =>
        /\ \A a, b \in Water!Actors : ~(Water!Enabling(a) /\ Water!Disabling(b))
        /\ s6 = "us" => s5 \/ \E a \in Water!Actors : s3[a] = "mark"
        /\ \A a \in Water!Actors : s3[a] = "unmark" => s6 # "us"
        /\ s2 = "off" /\ s3["closer"] = "none" => s6 # "us"
WaterInvariant == Water!TypeOK /\ WaterOrder /\ WaterMarks

LEMMA WaterBegins == ASSUME Water!Init PROVE WaterInvariant
  BY DEF Water!Init, WaterInvariant, Water!TypeOK, WaterOrder, WaterMarks, Water!Actors, Water!Steps,
     Water!Enabling, Water!Disabling

LEMMA WaterStepKeeps == ASSUME WaterInvariant, NEW a \in Water!Actors, Water!Step(a) PROVE WaterInvariant'
  <1> USE DEF Water!Is, Water!Goes, Water!Rest
  <1>0. /\ Water!TypeOK /\ WaterOrder /\ WaterMarks /\ Water!Actors = {"page", "tick", "closer"}
        /\ s3 \in [Water!Actors -> Water!Steps]
    BY DEF WaterInvariant, Water!Actors, Water!TypeOK
  <1>1. PICK next \in Water!Steps :
            /\ s3' = [s3 EXCEPT ![a] = next] /\ s3[a] # "none" /\ UNCHANGED <<s1, s2, s7>>
            /\ next \in {"hide", "mark"} => s3[a] \in {"hide", "mark"}
            /\ next \in {"look", "show", "unmark"} => s3[a] \in {"look", "show", "unmark"}
    BY DEF Water!Step, Water!Hides, Water!Marks, Water!Looks, Water!Shows, Water!Unmarks, Water!Steps
  <1>2. s3'[a] = next /\ s3' \in [Water!Actors -> Water!Steps] /\ \A b \in Water!Actors \ {a} : s3'[b] = s3[b]
    BY <1>0, <1>1
  <1>3. (s2 = "off" <=> a = "closer") /\ (a = "closer" => s3[a] \notin {"hide", "mark"})
    BY <1>0, <1>1 DEF WaterOrder
  <1>4. Water!TypeOK'
    BY <1>0, <1>1, <1>2 DEF Water!TypeOK, Water!Step, Water!Hides, Water!Marks, Water!Looks, Water!Shows, Water!Unmarks
  <1>5. WaterOrder'
    <2>1. s6' = "us" => s4' = "hidden"
      BY <1>0 DEF WaterOrder, Water!Step, Water!Hides, Water!Marks, Water!Looks, Water!Shows, Water!Unmarks
    <2> QED
      BY <1>0, <1>1, <1>2, <1>3, <2>1 DEF WaterOrder
  <1>6. WaterMarks'
    <2> SUFFICES ASSUME ~s7' PROVE WaterMarks'
      BY DEF WaterMarks
    <2>1. /\ \A b, c \in Water!Actors : ~(Water!Enabling(b) /\ Water!Disabling(c))
          /\ s6 = "us" => s5 \/ \E b \in Water!Actors : s3[b] = "mark"
          /\ \A b \in Water!Actors : s3[b] = "unmark" => s6 # "us"
      BY <1>0, <1>1 DEF WaterMarks
    <2>2. \A b, c \in Water!Actors : ~(Water!Enabling(b)' /\ Water!Disabling(c)')
      BY <1>1, <1>2, <2>1 DEF Water!Enabling, Water!Disabling
    <2>3. CASE Water!Hides(a)
      <3>1. s3[a] = "hide" /\ s5' = s5 /\ a # "closer" /\ s2 # "off"
        BY <1>0, <1>1, <1>3, <2>3 DEF Water!Hides
      <3>2. \A b \in Water!Actors : s3'[b] # "unmark" /\ s3[b] # "unmark"
        BY <1>1, <1>2, <2>1, <3>1 DEF Water!Enabling, Water!Disabling
      <3>3. s6' = "us" => s5' \/ \E b \in Water!Actors : s3'[b] = "mark"
        <4>1. CASE s4 = "other"
          <5>1. s6' = s6 /\ \A b \in Water!Actors : s3[b] = "mark" => s3'[b] = "mark"
            BY <1>2, <2>3, <3>1, <4>1 DEF Water!Hides
          <5> QED
            BY <2>1, <3>1, <5>1
        <4>2. CASE s4 # "other"
          BY <1>0, <2>3, <4>2 DEF Water!Hides
        <4> QED
          BY <4>1, <4>2
      <3> QED
        BY <1>1, <2>2, <3>1, <3>2, <3>3 DEF WaterMarks
    <2>4. CASE Water!Marks(a)
      <3>1. s3[a] = "mark" /\ s5' = TRUE /\ s6' = s6 /\ a # "closer" /\ s2 # "off" /\ s3'[a] = "none"
        BY <1>0, <1>1, <1>2, <1>3, <2>4 DEF Water!Marks
      <3> QED
        BY <1>1, <1>2, <2>1, <2>2, <3>1 DEF WaterMarks
    <2>5. CASE Water!Looks(a)
      <3>1. /\ s3[a] = "look" /\ UNCHANGED <<s5, s6>> /\ s3'[a] = IF s5 THEN "show" ELSE "none"
        BY <1>0, <2>5 DEF Water!Looks
      <3>2. \A b \in Water!Actors : s3[b] # "mark"
        BY <2>1, <3>1 DEF Water!Enabling, Water!Disabling
      <3>3. s6 = "us" => s5
        BY <2>1, <3>2
      <3>4. \A b \in Water!Actors : s3'[b] = "unmark" => s6' # "us"
        BY <1>2, <2>1, <3>1
      <3>5. s2' = "off" /\ s3'["closer"] = "none" => s6' # "us"
        BY <1>0, <1>1, <1>3, <3>1, <3>3
      <3> QED
        BY <2>2, <3>1, <3>3, <3>4, <3>5 DEF WaterMarks
    <2>6. CASE Water!Shows(a)
      <3>1. s3[a] = "show" /\ s5' = s5
        BY <2>6 DEF Water!Shows
      <3>2. s6' # "us"
        BY <1>0, <2>6 DEF Water!Shows, WaterOrder
      <3> QED
        BY <2>2, <3>2 DEF WaterMarks
    <2>7. CASE Water!Unmarks(a)
      <3>1. s3[a] = "unmark" /\ s6' = s6
        BY <2>7 DEF Water!Unmarks
      <3> QED
        BY <2>1, <2>2, <3>1 DEF WaterMarks
    <2> QED
      BY <2>3, <2>4, <2>5, <2>6, <2>7 DEF Water!Step
  <1> QED
    BY <1>4, <1>5, <1>6 DEF WaterInvariant

\* Whoever begins what another is about to undo has crossed it.
LEMMA WaterBeginsWork ==
    ASSUME WaterInvariant, NEW a \in Water!Actors, NEW w \in BOOLEAN, Water!Begins(a, w), s3[a] = "none",
           s2' = "off" => a = "closer" /\ ~w /\ s3["page"] = "none" /\ s3["tick"] = "none",
           s2' # "off" => a # "closer" /\ s3["closer"] = "none",
           s1' \in BOOLEAN, s2' \in {"on", "closing", "off"}, UNCHANGED <<s4, s5, s6>>
    PROVE  WaterInvariant'
  <1> DEFINE next == IF w THEN "hide" ELSE "look"
  <1>0. /\ Water!TypeOK /\ WaterOrder /\ WaterMarks /\ Water!Actors = {"page", "tick", "closer"}
        /\ s3 \in [Water!Actors -> Water!Steps]
    BY DEF WaterInvariant, Water!Actors, Water!TypeOK
  <1>1. s3' = [s3 EXCEPT ![a] = next] /\ s7' \in BOOLEAN
        /\ (~s7' => ~s7 /\ \A b \in Water!Actors \ {a} : IF w THEN ~Water!Disabling(b) ELSE ~Water!Enabling(b))
    BY <1>0 DEF Water!Begins, Water!Goes, Water!TypeOK
  <1>2. s3'[a] = next /\ s3' \in [Water!Actors -> Water!Steps] /\ \A b \in Water!Actors \ {a} : s3'[b] = s3[b]
    BY <1>0, <1>1 DEF Water!Steps
  <1>3. Water!TypeOK'
    BY <1>0, <1>1, <1>2 DEF Water!TypeOK
  <1>4. WaterOrder'
    BY <1>0, <1>2 DEF WaterOrder
  <1>5. WaterMarks'
    <2> SUFFICES ASSUME ~s7' PROVE WaterMarks'
      BY DEF WaterMarks
    <2>1. /\ \A b, c \in Water!Actors : ~(Water!Enabling(b) /\ Water!Disabling(c))
          /\ s6 = "us" => s5 \/ \E b \in Water!Actors : s3[b] = "mark"
          /\ \A b \in Water!Actors : s3[b] = "unmark" => s6 # "us"
      BY <1>0, <1>1 DEF WaterMarks
    <2>2. \A b, c \in Water!Actors : ~(Water!Enabling(b)' /\ Water!Disabling(c)')
      BY <1>1, <1>2, <2>1 DEF Water!Enabling, Water!Disabling
    <2>3. s6' = "us" => s5' \/ \E b \in Water!Actors : s3'[b] = "mark"
      BY <1>2, <2>1
    <2>4. \A b \in Water!Actors : s3'[b] = "unmark" => s6' # "us"
      BY <1>2, <2>1
    <2>5. ~(s2' = "off" /\ s3'["closer"] = "none")
      BY <1>2
    <2> QED
      BY <2>2, <2>3, <2>4, <2>5 DEF WaterMarks
  <1> QED
    BY <1>3, <1>4, <1>5 DEF WaterInvariant

LEMMA WaterKeeps == ASSUME WaterInvariant, [Water!Next]_(Water!vars) PROVE WaterInvariant'
  <1> USE DEF Water!Is
  <1>0. Water!TypeOK /\ WaterOrder /\ WaterMarks /\ {"page", "tick", "closer"} = Water!Actors
    BY DEF WaterInvariant, Water!Actors
  <1>1. CASE \E a \in Water!Actors : Water!Step(a)
    BY <1>1, WaterStepKeeps
  <1>2. CASE Water!TickBegins
    BY <1>0, <1>2, WaterBeginsWork DEF Water!TickBegins, WaterOrder, Water!TypeOK
  <1>3. CASE Water!Joined
    BY <1>0, <1>3, WaterBeginsWork DEF Water!Joined, WaterOrder, Water!TypeOK
  <1>4. CASE Water!Leave
    BY <1>4 DEF Water!Leave, WaterInvariant, WaterOrder, WaterMarks, Water!TypeOK, Water!Enabling, Water!Disabling
  <1>5. ASSUME NEW w \in {"hidden", "visible", "other"}, Water!GameChanges(w) PROVE WaterInvariant'
    BY <1>5 DEF Water!GameChanges, WaterInvariant, WaterOrder, WaterMarks, Water!TypeOK, Water!Enabling, Water!Disabling
  <1>6. ASSUME NEW w \in BOOLEAN, Water!Click(w) PROVE WaterInvariant'
    BY <1>0, <1>6, WaterBeginsWork DEF Water!Click, WaterOrder
  <1>7. ASSUME NEW w \in BOOLEAN, Water!ComesBack(w) PROVE WaterInvariant'
    BY <1>7 DEF Water!ComesBack, WaterInvariant, WaterOrder, WaterMarks, Water!TypeOK, Water!Enabling, Water!Disabling
  <1>8. CASE UNCHANGED Water!vars
    BY <1>8 DEF Water!vars, WaterInvariant, WaterOrder, WaterMarks, Water!TypeOK, Water!Enabling, Water!Disabling
  <1> QED
    BY <1>0, <1>1, <1>2, <1>3, <1>4, <1>5, <1>6, <1>7, <1>8 DEF Water!Next, Water!Tick, Water!Others, Water!Player

LEMMA WaterPromises == ASSUME WaterInvariant PROVE Water!TypeOK /\ Water!WaterIsBack /\ Water!HiddenIsMarked
  BY DEF WaterInvariant, WaterMarks, Water!WaterIsBack, Water!HiddenIsMarked, Water!Closed, Water!Is

-----------------------------------------------------------------------------
(* The colours.                                                            *)

NoColour == Colours!NoColour
\* The page puts the colours back after the thread has ended, and then they are all back.
ScanOrder ==
    /\ s4 \in {"off", "restores"} => s5.at = "ended"
    /\ s4 = "off" => \A a \in Addresses : s6[a] = NoColour
    /\ s5.at = "writes" => s5.on \in Addresses
\* Either what is remembered of a being is its own colour, or it wears it; and what is
\* about to be written was read of it as it is.
ColourKept(a) ==
    /\ IF s6[a] = NoColour THEN s2[a] = s1[a].own ELSE s6[a] = s1[a].own
    /\ s5.at = "writes" /\ s5.on = a => s5.seen = s2[a] /\ ~s1[a].self
\* The player is not marked, and the scan knows it before it gets there.
SelfLeft(a) ==
    /\ s6[a] = NoColour /\ a \notin s8 /\ a \notin s5.marks
    /\ a \in s5.todo => s1[a] \in s5.who
LeftAlone(a) == Colours!Sure(a) => ColourKept(a) /\ (s1[a].self => SelfLeft(a))
ColourInvariant == Colours!TypeOK /\ ScanOrder /\ \A a \in Addresses : LeftAlone(a)

ScanType ==
    [at : {"ended", "rests", "looks", "writes"}, level : Levels \cup {0}, todo : SUBSET Addresses,
     on : Addresses \cup {0}, seen : Colours!Colours, color : Colours!Colours, marks : SUBSET Addresses,
     who : SUBSET Beings]
ColourPast == [reused : SUBSET Addresses, lost : SUBSET Addresses, faults : 0 .. MaxFaults, births : 0 .. MaxBirths]
ColourTable == [Addresses -> Colours!Colours]
Residents == [Addresses -> Beings \cup {Colours!Nobody}]
ColourTypes ==
    /\ s1 \in Residents /\ s2 \in ColourTable /\ s3 \in Levels /\ s4 \in {"off", "on", "joins", "restores"}
    /\ s5 \in ScanType /\ s6 \in ColourTable /\ s7 \in BOOLEAN /\ s8 \in SUBSET Addresses /\ s9 \in ColourPast

LEMMA ColourParts == (Colours!TypeOK <=> ColourTypes) /\ (Colours!TypeOK' <=> ColourTypes')
  BY DEF Colours!TypeOK, ColourTypes, ScanType, ColourPast, ColourTable, Residents

LEMMA ColourFacts ==
    ASSUME Colours!ColorsAssumption
    PROVE  /\ Addresses \subseteq Nat /\ IsFiniteSet(Addresses) /\ {MaxFaults, MaxBirths} \subseteq Nat
           /\ \A b \in Beings : /\ b.own # NoColour /\ b.own \in Colours!Colours
                                /\ {b.listed, b.sprite, b.kind, b.high, b.self} \subseteq BOOLEAN
           /\ NoColour \in Colours!Colours /\ ~Colours!Nobody.self
           /\ Colours!Features \subseteq Colours!Colours
           /\ Colours!Ended \in ScanType /\ Colours!Rests \in ScanType
           /\ Colours!Rests = [Colours!Ended EXCEPT !.at = "rests"]
  <1>1. IsFiniteSet(Addresses)
    BY DEF Colours!ColorsAssumption, Colours!IsFiniteSet, IsFiniteSet
  <1>2. NoColour \in Colours!Colours /\ ~Colours!Nobody.self /\ Colours!Features \subseteq Colours!Colours
    BY DEF NoColour, Colours!Nobody, Colours!Colours
  <1>3. Colours!Ended \in ScanType
    BY <1>2 DEF Colours!Ended, ScanType, NoColour
  <1>4. Colours!Rests = [Colours!Ended EXCEPT !.at = "rests"] /\ Colours!Rests \in ScanType
    BY <1>3 DEF Colours!Rests, ScanType
  <1>5. \A b \in Beings : b.own # NoColour /\ b.own \in Colours!Colours /\ {b.listed, b.sprite, b.kind, b.high, b.self} \subseteq BOOLEAN
    BY DEF Colours!ColorsAssumption, NoColour, Colours!Colours
  <1>6. Addresses \subseteq Nat /\ {MaxFaults, MaxBirths} \subseteq Nat
    BY DEF Colours!ColorsAssumption
  <1> QED
    BY <1>1, <1>2, <1>3, <1>4, <1>5, <1>6

LEMMA ScanRests == /\ Colours!Ended.at = "ended" /\ Colours!Ended.todo = {} /\ Colours!Ended.marks = {}
                   /\ Colours!Rests.at = "rests" /\ Colours!Rests.todo = {} /\ Colours!Rests.marks = {}
  BY DEF Colours!Ended, Colours!Rests

LEMMA ColoursBegin == ASSUME Colours!ColorsAssumption, Colours!Init PROVE ColourInvariant
  <1> USE DEF Colours!Init
  <1>1. s9 = [reused |-> {}, lost |-> {}, faults |-> 0, births |-> 0] /\ s9 \in ColourPast
    BY ColourFacts DEF ColourPast
  <1>2. s1 \in Residents /\ s2 \in ColourTable /\ s6 \in ColourTable
    BY ColourFacts DEF Residents, ColourTable, NoColour
  <1>3. Colours!TypeOK
    BY <1>1, <1>2, ColourFacts, ColourParts DEF ColourTypes
  <1>4. ScanOrder
    BY ScanRests DEF ScanOrder, NoColour
  <1>5. \A a \in Addresses : LeftAlone(a)
    BY DEF LeftAlone, Colours!Sure
  <1> QED
    BY <1>3, <1>4, <1>5 DEF ColourInvariant

\* The colour of a monster is one of those that there are.
LEMMA ColorOfType ==
    ASSUME Colours!ColorsAssumption, NEW m, NEW p PROVE Colours!ColorOf(m, p) \in Colours!Colours
  BY ColourFacts DEF Colours!ColorOf, Colours!Features, NoColour

\* What a fault leaves of the history.
LEMMA FaultType ==
    ASSUME Colours!ColorsAssumption, s9 \in ColourPast, Colours!CanFail
    PROVE  /\ Colours!Fault \in ColourPast /\ Colours!Fault.reused = s9.reused /\ Colours!Fault.lost = s9.lost
           /\ \A R \in SUBSET Addresses :
                 LET f == [Colours!Fault EXCEPT !.reused = @ \cup R]
                 IN  f \in ColourPast /\ f.reused = s9.reused \cup R /\ f.lost = s9.lost
           /\ \A L \in SUBSET Addresses :
                 LET f == [Colours!Fault EXCEPT !.lost = s9.lost \cup L]
                 IN  f \in ColourPast /\ f.reused = s9.reused /\ f.lost = s9.lost \cup L
  <1>1. s9.faults + 1 \in 0 .. MaxFaults
    BY ColourFacts DEF Colours!CanFail, ColourPast
  <1>2. Colours!Fault \in ColourPast /\ Colours!Fault.reused = s9.reused /\ Colours!Fault.lost = s9.lost
    BY <1>1 DEF Colours!Fault, ColourPast
  <1>3. s9.lost \in SUBSET Addresses
    BY DEF ColourPast
  <1> HIDE DEF Colours!Fault
  <1>4. ASSUME NEW R \in SUBSET Addresses
        PROVE  LET f == [Colours!Fault EXCEPT !.reused = @ \cup R]
               IN  f \in ColourPast /\ f.reused = s9.reused \cup R /\ f.lost = s9.lost
    BY <1>2 DEF ColourPast
  <1>5. ASSUME NEW L \in SUBSET Addresses
        PROVE  LET f == [Colours!Fault EXCEPT !.lost = s9.lost \cup L]
               IN  f \in ColourPast /\ f.reused = s9.reused /\ f.lost = s9.lost \cup L
    BY <1>2, <1>3 DEF ColourPast
  <1> QED
    BY <1>2, <1>4, <1>5

\* Between two steps of the game each address has who it had.
LEMMA SameSure ==
    ASSUME NEW a \in Addresses, s1' = s1, s9.reused \subseteq s9'.reused, s9.lost \subseteq s9'.lost,
           Colours!Sure(a)'
    PROVE  Colours!Sure(a)
  BY DEF Colours!Sure

\* A scan begins with the addresses of all objects, and knows who is the player
\* unless it counts as taken for another one.
LEMMA ScanBegins ==
    ASSUME Colours!ColorsAssumption, ColourInvariant, NEW found \in BOOLEAN, NEW fails \in BOOLEAN,
           Colours!Begins(found, fails)
    PROVE  ColourInvariant'
  <1> DEFINE next == [Colours!Ended EXCEPT !.at = "looks", !.level = s3,
                             !.who = IF fails THEN {} ELSE Colours!LocalIdentity,
                             !.todo = {a \in Addresses : s1[a] # Colours!Nobody}]
             selves == {a \in Addresses : s1[a].self}
  <1>0. ColourTypes /\ ScanOrder /\ \A a \in Addresses : LeftAlone(a)
    BY ColourParts DEF ColourInvariant
  <1>1. /\ s5.at = "rests" /\ s4 = "on" /\ s5' = next /\ s7' = (s7 \/ found)
        /\ UNCHANGED <<s1, s2, s3, s4, s6, s8>>
    BY DEF Colours!Begins
  <1>2. Colours!LocalIdentity = {s1[a] : a \in selves}
    BY DEF Colours!LocalIdentity
  <1>3. Colours!LocalIdentity \in SUBSET Beings
    BY <1>0, <1>2, ColourFacts DEF ColourTypes, Residents
  <1>4. /\ next \in ScanType /\ next.at = "looks" /\ next.marks = {}
        /\ next.who = IF fails THEN {} ELSE Colours!LocalIdentity
    <2> DEFINE known == IF fails THEN {} ELSE Colours!LocalIdentity
               there == {a \in Addresses : s1[a] # Colours!Nobody}
    <2>1. known \in SUBSET Beings /\ there \in SUBSET Addresses /\ s3 \in Levels
      BY <1>0, <1>3 DEF ColourTypes
    <2>2. Colours!Ended \in ScanType /\ Colours!Ended.marks = {}
      BY ColourFacts, ScanRests
    <2> HIDE DEF Colours!Ended, known, there
    <2>3. next = [Colours!Ended EXCEPT !.at = "looks", !.level = s3, !.who = known, !.todo = there]
      BY DEF known, there
    <2>4. next \in ScanType /\ next.at = "looks" /\ next.marks = {} /\ next.who = known
      BY <2>1, <2>2, <2>3 DEF ScanType
    <2> QED
      BY <2>4 DEF known
  <1>5. s9' \in ColourPast /\ s9.lost = s9'.lost /\ s9.reused \subseteq s9'.reused /\ (fails => selves \subseteq s9'.reused)
    <2>1. CASE fails
      <3>1. Colours!CanFail /\ s9' = [Colours!Fault EXCEPT !.reused = @ \cup selves]
        BY <2>1 DEF Colours!Begins
      <3>2. s9 \in ColourPast /\ selves \in SUBSET Addresses
        BY <1>0 DEF ColourTypes
      <3> HIDE DEF selves
      <3>3. s9' \in ColourPast /\ s9'.reused = s9.reused \cup selves /\ s9'.lost = s9.lost
        BY <3>1, <3>2, FaultType
      <3> QED
        BY <3>3
    <2>2. CASE ~fails
      BY <1>0, <2>2 DEF Colours!Begins, ColourTypes
    <2> QED
      BY <2>1, <2>2
  <1> HIDE DEF next
  <1>6. Colours!TypeOK'
    <2>1. ColourTypes'
      BY <1>0, <1>1, <1>4, <1>5 DEF ColourTypes
    <2> QED
      BY <2>1, ColourParts
  <1>7. ScanOrder'
    BY <1>0, <1>1, <1>4 DEF ScanOrder
  <1>8. ASSUME NEW a \in Addresses PROVE LeftAlone(a)'
    <2> SUFFICES ASSUME Colours!Sure(a)' PROVE ColourKept(a)' /\ (s1[a].self => SelfLeft(a)')
      BY <1>1 DEF LeftAlone
    <2>1. Colours!Sure(a) /\ ColourKept(a) /\ (s1[a].self => SelfLeft(a))
      BY <1>0, <1>1, <1>5, SameSure DEF LeftAlone
    <2>2. ColourKept(a)'
      BY <1>1, <1>4, <2>1 DEF ColourKept
    <2>3. s1[a].self => s1[a] \in next.who
      <3>1. ~(s1[a].self /\ fails)
        BY <1>5 DEF Colours!Sure
      <3> QED
        BY <1>2, <1>4, <3>1
    <2>4. s1[a].self => SelfLeft(a)'
      BY <1>1, <1>4, <2>1, <2>3 DEF SelfLeft
    <2> QED
      BY <2>2, <2>4
  <1> QED
    BY <1>6, <1>7, <1>8 DEF ColourInvariant

\* One object is read.
LEMMA ScanLooks ==
    ASSUME Colours!ColorsAssumption, ColourInvariant, Colours!Looks PROVE ColourInvariant'
  <1> DEFINE a == Colours!Min(s5.todo)
             color == Colours!Chosen(a, s1[a])
             rest == [s5 EXCEPT !.todo = s5.todo \ {a}]
             marks == IF color # NoColour THEN s5.marks \cup {a} ELSE s5.marks
             kept == [rest EXCEPT !.marks = marks]
             writing == [rest EXCEPT !.at = "writes", !.on = a, !.color = color, !.seen = s2[a], !.marks = marks]
  <1>0. ColourTypes /\ ScanOrder /\ \A b \in Addresses : LeftAlone(b)
    BY ColourParts DEF ColourInvariant
  <1>1. s5.at = "looks" /\ s5.todo # {} /\ UNCHANGED <<s1, s2, s3, s4, s6, s7, s8, s9>>
    BY DEF Colours!Looks
  <1>2. /\ Colours!Skipped(s1[a]) => s5' = rest
        /\ ~Colours!Skipped(s1[a]) => s5' \in {kept, writing}
    BY DEF Colours!Looks, NoColour
  <1>3. a \in s5.todo /\ a \in Addresses
    <2>1. s5.todo \in SUBSET Addresses
      BY <1>0 DEF ColourTypes, ScanType
    <2>2. \E least \in s5.todo : \A n \in s5.todo : least <= n
      BY <1>1, <2>1, ColourFacts, LeastOf
    <2>3. a \in s5.todo
      BY <2>2 DEF Colours!Min
    <2> QED
      BY <2>1, <2>3
  <1>4. color \in Colours!Colours /\ s2[a] \in Colours!Colours
    BY <1>0, <1>3, ColorOfType, ColourFacts DEF Colours!Chosen, ColourTypes, ColourTable, NoColour
  <1>5. s5 \in ScanType
    BY <1>0 DEF ColourTypes
  <1> HIDE DEF a, color
  <1>6. marks \in SUBSET Addresses
    BY <1>3, <1>5 DEF ScanType
  <1>7. rest \in ScanType /\ rest.at = "looks" /\ rest.todo = s5.todo \ {a} /\ rest.marks = s5.marks /\ rest.who = s5.who
    BY <1>1, <1>5 DEF ScanType
  <1> HIDE DEF marks
  <1>8. kept \in ScanType /\ kept.at = "looks" /\ kept.todo = s5.todo \ {a} /\ kept.marks = marks /\ kept.who = s5.who
    BY <1>5, <1>6, <1>7 DEF ScanType
  <1>9. /\ writing \in ScanType /\ writing.at = "writes" /\ writing.todo = s5.todo \ {a} /\ writing.marks = marks
        /\ writing.who = s5.who /\ writing.on = a /\ writing.seen = s2[a]
    BY <1>3, <1>4, <1>5, <1>6, <1>7 DEF ScanType
  <1> HIDE DEF rest, kept, writing
  <1>10. Colours!TypeOK'
    <2>1. ColourTypes'
      BY <1>0, <1>1, <1>2, <1>7, <1>8, <1>9 DEF ColourTypes
    <2> QED
      BY <2>1, ColourParts
  <1>11. ScanOrder'
    BY <1>0, <1>1, <1>2, <1>3, <1>7, <1>8, <1>9 DEF ScanOrder
  <1>12. ASSUME NEW b \in Addresses PROVE LeftAlone(b)'
    <2> SUFFICES ASSUME Colours!Sure(b)' PROVE ColourKept(b)' /\ (s1[b].self => SelfLeft(b)')
      BY <1>1 DEF LeftAlone
    <2>1. Colours!Sure(b) /\ ColourKept(b) /\ (s1[b].self => SelfLeft(b))
      BY <1>0, <1>1, SameSure DEF LeftAlone
    <2>2. s1[b].self /\ b = a => s5' = rest
      BY <1>2, <1>3, <2>1 DEF SelfLeft, Colours!Skipped
    <2>3. ColourKept(b)'
      <3>1. s5'.at = "writes" => s5' = writing
        BY <1>2, <1>7, <1>8
      <3>2. s5'.at = "writes" /\ s5'.on = b => b = a /\ s5'.seen = s2[b] /\ ~s1[b].self
        <4> SUFFICES ASSUME s5'.at = "writes", s5'.on = b PROVE b = a /\ s5'.seen = s2[b] /\ ~s1[b].self
          OBVIOUS
        <4>1. b = a /\ s5'.seen = s2[b]
          BY <1>9, <3>1
        <4> QED
          BY <1>7, <2>2, <4>1
      <3> QED
        BY <1>1, <2>1, <3>2 DEF ColourKept
    <2>4. s1[b].self => SelfLeft(b)'
      <3> SUFFICES ASSUME s1[b].self PROVE SelfLeft(b)'
        OBVIOUS
      <3>1. s5'.who = s5.who /\ s5'.todo \subseteq s5.todo
        BY <1>2, <1>7, <1>8, <1>9
      <3>2. b \notin s5'.marks
        <4>1. b # a => (b \in s5'.marks => b \in s5.marks)
          BY <1>2, <1>7, <1>8, <1>9 DEF marks
        <4> QED
          BY <1>7, <2>1, <2>2, <4>1 DEF SelfLeft
      <3> QED
        BY <1>1, <2>1, <3>1, <3>2 DEF SelfLeft
    <2> QED
      BY <2>3, <2>4
  <1> QED
    BY <1>10, <1>11, <1>12 DEF ColourInvariant

\* The scan goes on after a write, or rests after one that failed.
LEMMA ScanGoesOn ==
    ASSUME Colours!ColorsAssumption, s5 \in ScanType, s5' \in {Colours!Rests, [s5 EXCEPT !.at = "looks"]}
    PROVE  /\ s5' \in ScanType /\ s5'.at \in {"rests", "looks"}
           /\ s5'.todo = {} \/ (s5'.todo = s5.todo /\ s5'.who = s5.who)
           /\ s5'.marks \subseteq s5.marks
  <1>1. CASE s5' = Colours!Rests
    <2>1. s5' \in ScanType
      BY <1>1, ColourFacts
    <2> QED
      BY <1>1, <2>1, ScanRests
  <1>2. CASE s5' = [s5 EXCEPT !.at = "looks"]
    BY <1>2 DEF ScanType
  <1> QED
    BY <1>1, <1>2

\* A colour is written into an object; the one before it is remembered first.
LEMMA ScanWrites ==
    ASSUME Colours!ColorsAssumption, ColourInvariant, NEW fails \in BOOLEAN, Colours!WritesColor(fails)
    PROVE  ColourInvariant'
  <1> DEFINE on == s5.on
             was == Colours!Remembers(on, s5.seen)
  <1>0. ColourTypes /\ ScanOrder /\ \A b \in Addresses : LeftAlone(b)
    BY ColourParts DEF ColourInvariant
  <1>1. /\ s5.at = "writes" /\ on \in Addresses /\ s6' = [s6 EXCEPT ![on] = was]
        /\ UNCHANGED <<s1, s3, s4, s7, s8>> /\ s5' \in {Colours!Rests, [s5 EXCEPT !.at = "looks"]}
    BY <1>0 DEF Colours!WritesColor, ScanOrder
  <1>2. was = IF s6[on] = NoColour THEN s5.seen ELSE s6[on]
    BY DEF Colours!Remembers, NoColour
  <1>3. s5 \in ScanType /\ s5.seen \in Colours!Colours /\ s5.color \in Colours!Colours /\ s6 \in ColourTable /\ s2 \in ColourTable
    BY <1>0 DEF ColourTypes, ScanType
  <1>4. s6' \in ColourTable /\ s6'[on] = was /\ \A b \in Addresses \ {on} : s6'[b] = s6[b]
    BY <1>1, <1>2, <1>3 DEF ColourTable
  <1>5. s2' \in ColourTable /\ \A b \in Addresses \ {on} : s2'[b] = s2[b]
    <2>1. s2' = s2 \/ \E c \in Colours!Colours : s2' = [s2 EXCEPT ![on] = c]
      <3>1. s2[on] \in Colours!Colours
        BY <1>1, <1>3 DEF ColourTable
      <3> QED
        BY <1>3, <3>1 DEF Colours!WritesColor
    <2> QED
      BY <1>1, <1>3, <2>1 DEF ColourTable
  <1>6. s9' \in ColourPast /\ s9'.lost = s9.lost /\ s9'.reused = s9.reused
    <2>1. CASE fails
      BY <1>0, <2>1, FaultType DEF Colours!WritesColor, ColourTypes
    <2>2. CASE ~fails
      BY <1>0, <2>2 DEF Colours!WritesColor, ColourTypes
    <2> QED
      BY <2>1, <2>2
  <1>7. /\ s5' \in ScanType /\ s5'.at \in {"rests", "looks"} /\ s5'.marks \subseteq s5.marks
        /\ s5'.todo = {} \/ (s5'.todo = s5.todo /\ s5'.who = s5.who)
    BY <1>1, <1>3, ScanGoesOn
  <1> HIDE DEF on, was
  <1>8. Colours!TypeOK'
    <2>1. ColourTypes'
      BY <1>0, <1>1, <1>4, <1>5, <1>6, <1>7 DEF ColourTypes
    <2> QED
      BY <2>1, ColourParts
  <1>9. ScanOrder'
    BY <1>0, <1>1, <1>7 DEF ScanOrder
  <1>10. ASSUME NEW b \in Addresses PROVE LeftAlone(b)'
    <2> SUFFICES ASSUME Colours!Sure(b)' PROVE ColourKept(b)' /\ (s1[b].self => SelfLeft(b)')
      BY <1>1 DEF LeftAlone
    <2>1. Colours!Sure(b) /\ ColourKept(b) /\ (s1[b].self => SelfLeft(b))
      BY <1>0, <1>1, <1>6, SameSure DEF LeftAlone
    <2>2. CASE b = on
      <3>1. s5.seen = s2[b] /\ ~s1[b].self
        BY <1>1, <2>1, <2>2 DEF ColourKept, on
      <3>2. was = s1[b].own
        BY <1>2, <2>1, <2>2, <3>1 DEF ColourKept
      <3>3. s1[b].own # NoColour
        BY <1>0, <2>1, ColourFacts DEF ColourTypes, Residents, Colours!Sure
      <3>4. ColourKept(b)'
        BY <1>1, <1>4, <1>7, <2>2, <3>2, <3>3 DEF ColourKept, NoColour, Colours!NoColour
      <3> QED
        BY <3>1, <3>4
    <2>3. CASE b # on
      <3>1. s6'[b] = s6[b] /\ s2'[b] = s2[b]
        BY <1>4, <1>5, <2>3
      <3> QED
        BY <1>1, <1>7, <2>1, <3>1 DEF ColourKept, SelfLeft, NoColour, Colours!NoColour
    <2> QED
      BY <2>2, <2>3
  <1> QED
    BY <1>8, <1>9, <1>10 DEF ColourInvariant

\* The colour that was remembered is written back, or counts as lost.
LEMMA ScanRestores ==
    ASSUME Colours!ColorsAssumption, ColourInvariant, NEW fails \in BOOLEAN, Colours!Restores(fails)
    PROVE  ColourInvariant'
  <1> DEFINE on == s5.on
             was == s6[on]
             writes == was # NoColour /\ was # s5.seen
  <1>0. ColourTypes /\ ScanOrder /\ \A b \in Addresses : LeftAlone(b)
    BY ColourParts DEF ColourInvariant
  <1>1. /\ s5.at = "writes" /\ on \in Addresses /\ s6' = [s6 EXCEPT ![on] = NoColour]
        /\ UNCHANGED <<s1, s3, s4, s7, s8>> /\ s5' \in {Colours!Rests, [s5 EXCEPT !.at = "looks"]}
    BY <1>0 DEF Colours!Restores, ScanOrder, NoColour
  <1>2. s5 \in ScanType /\ s6 \in ColourTable /\ s2 \in ColourTable /\ was \in Colours!Colours
    BY <1>0, <1>1 DEF ColourTypes, ColourTable
  <1>3. s6' \in ColourTable /\ s6'[on] = NoColour /\ \A b \in Addresses \ {on} : s6'[b] = s6[b]
    BY <1>1, <1>2, ColourFacts DEF ColourTable
  <1>4. s2' = s2 \/ s2' = [s2 EXCEPT ![on] = was]
    <2>1. s2 = [s2 EXCEPT ![on] = s2[on]]
      BY <1>1, <1>2 DEF ColourTable
    <2> QED
      BY <2>1 DEF Colours!Restores
  <1>5. s2' \in ColourTable /\ \A b \in Addresses \ {on} : s2'[b] = s2[b]
    BY <1>1, <1>2, <1>4 DEF ColourTable
  <1>6. /\ s9' \in ColourPast /\ s9.lost \subseteq s9'.lost /\ s9'.reused = s9.reused /\ (fails => on \in s9'.lost)
    <2>1. CASE fails
      <3>1. Colours!CanFail /\ s9' = [Colours!Fault EXCEPT !.lost = s9.lost \cup {on}]
        BY <2>1 DEF Colours!Restores
      <3>2. s9 \in ColourPast /\ {on} \in SUBSET Addresses
        BY <1>0, <1>1 DEF ColourTypes
      <3> HIDE DEF on
      <3>3. s9' \in ColourPast /\ s9'.lost = s9.lost \cup {on} /\ s9'.reused = s9.reused
        BY <3>1, <3>2, FaultType
      <3> QED
        BY <3>3
    <2>2. CASE ~fails
      BY <1>0, <2>2 DEF Colours!Restores, ColourTypes
    <2> QED
      BY <2>1, <2>2
  <1>7. /\ s5' \in ScanType /\ s5'.at \in {"rests", "looks"} /\ s5'.marks \subseteq s5.marks
        /\ s5'.todo = {} \/ (s5'.todo = s5.todo /\ s5'.who = s5.who)
    BY <1>1, <1>2, ScanGoesOn
  <1>8. ~fails => s2'[on] = IF writes /\ s1[on] # Colours!Nobody THEN was ELSE s2[on]
    BY <1>1, <1>2 DEF Colours!Restores, ColourTable, NoColour
  <1> HIDE DEF on, was
  <1>9. Colours!TypeOK'
    <2>1. ColourTypes'
      BY <1>0, <1>1, <1>3, <1>5, <1>6, <1>7 DEF ColourTypes
    <2> QED
      BY <2>1, ColourParts
  <1>10. ScanOrder'
    BY <1>0, <1>1, <1>7 DEF ScanOrder
  <1>11. ASSUME NEW b \in Addresses PROVE LeftAlone(b)'
    <2> SUFFICES ASSUME Colours!Sure(b)' PROVE ColourKept(b)' /\ (s1[b].self => SelfLeft(b)')
      BY <1>1 DEF LeftAlone
    <2>1. Colours!Sure(b) /\ ColourKept(b) /\ (s1[b].self => SelfLeft(b))
      BY <1>0, <1>1, <1>6, SameSure DEF LeftAlone
    <2>2. CASE b = on
      <3>1. s5.seen = s2[b] /\ ~s1[b].self /\ ~fails /\ s1[b] # Colours!Nobody
        BY <1>1, <1>6, <2>1, <2>2 DEF ColourKept, on, Colours!Sure
      <3>2. s2'[b] = s1[b].own
        BY <1>8, <2>1, <2>2, <3>1 DEF ColourKept, was
      <3>3. ColourKept(b)'
        BY <1>1, <1>3, <1>7, <2>2, <3>2 DEF ColourKept, NoColour, Colours!NoColour
      <3> QED
        BY <3>1, <3>3
    <2>3. CASE b # on
      <3>1. s6'[b] = s6[b] /\ s2'[b] = s2[b]
        BY <1>3, <1>5, <2>3
      <3> QED
        BY <1>1, <1>7, <2>1, <3>1 DEF ColourKept, SelfLeft, NoColour, Colours!NoColour
    <2> QED
      BY <2>2, <2>3
  <1> QED
    BY <1>9, <1>10, <1>11 DEF ColourInvariant

\* Steps that leave the colours and what is remembered of them as they are.
LEMMA ColoursStand ==
    ASSUME Colours!ColorsAssumption, ColourInvariant, UNCHANGED <<s1, s2, s6>>,
           s3' \in Levels, s4' \in {"off", "on", "joins", "restores"}, s7' \in BOOLEAN,
           s5' \in ScanType, s8' \in SUBSET Addresses, s8' \subseteq s8 \cup s5.marks,
           s9' \in ColourPast, s9'.reused = s9.reused, s9'.lost = s9.lost,
           s5' = s5 \/ (s5'.at \in {"rests", "ended"} /\ s5'.todo = {} /\ s5'.marks = {}),
           s4' \in {"off", "restores"} => s5'.at = "ended",
           s4' = "off" => \A a \in Addresses : s6[a] = NoColour
    PROVE  ColourInvariant'
  <1>0. ColourTypes /\ ScanOrder /\ \A b \in Addresses : LeftAlone(b)
    BY ColourParts DEF ColourInvariant
  <1>1. Colours!TypeOK'
    <2>1. ColourTypes'
      BY <1>0 DEF ColourTypes
    <2> QED
      BY <2>1, ColourParts
  <1>2. ScanOrder'
    BY <1>0 DEF ScanOrder, NoColour, Colours!NoColour
  <1>3. ASSUME NEW b \in Addresses PROVE LeftAlone(b)'
    <2> SUFFICES ASSUME Colours!Sure(b)' PROVE ColourKept(b)' /\ (s1[b].self => SelfLeft(b)')
      BY DEF LeftAlone
    <2>1. Colours!Sure(b) /\ ColourKept(b) /\ (s1[b].self => SelfLeft(b))
      BY <1>0, SameSure DEF LeftAlone
    <2> QED
      BY <2>1 DEF ColourKept, SelfLeft, NoColour, Colours!NoColour
  <1> QED
    BY <1>1, <1>2, <1>3 DEF ColourInvariant

LEMMA ScanMarks ==
    ASSUME Colours!ColorsAssumption, ColourInvariant, NEW fails \in BOOLEAN, Colours!Marks(fails)
    PROVE  ColourInvariant'
  <1>0. ColourTypes /\ ScanOrder
    BY ColourParts DEF ColourInvariant
  <1>1. s5.at = "looks" /\ s5' = Colours!Rests /\ UNCHANGED <<s1, s2, s3, s4, s6, s7>>
    BY DEF Colours!Marks
  <1>2. s8' \in SUBSET Addresses /\ s8' \subseteq s8 \cup s5.marks
    <2>1. s5.marks \in SUBSET Addresses /\ s8 \in SUBSET Addresses
      BY <1>0 DEF ColourTypes, ScanType
    <2>2. s8' = s8 \/ s8' \subseteq s5.marks
      BY DEF Colours!Marks
    <2> QED
      BY <2>1, <2>2
  <1>3. s9' \in ColourPast /\ s9'.lost = s9.lost /\ s9'.reused = s9.reused
    BY <1>0, FaultType DEF Colours!Marks, ColourTypes
  <1>4. /\ s5' \in ScanType /\ s5'.at \in {"rests", "ended"} /\ s5'.todo = {} /\ s5'.marks = {}
    BY <1>1, ColourFacts, ScanRests
  <1>5. s4' \notin {"off", "restores"} /\ s3' \in Levels /\ s4' \in {"off", "on", "joins", "restores"} /\ s7' \in BOOLEAN
    BY <1>0, <1>1 DEF ScanOrder, ColourTypes
  <1> QED
    BY <1>1, <1>2, <1>3, <1>4, <1>5, ColoursStand

LEMMA PageKeeps ==
    ASSUME Colours!ColorsAssumption, ColourInvariant,
           Colours!Ends \/ Colours!Uninstall \/ Colours!Joined \/ Colours!Restored
                \/ (\E l \in Levels : Colours!LevelChanges(l)) \/ UNCHANGED Colours!vars
    PROVE  ColourInvariant'
  <1>0. ColourTypes /\ ScanOrder
    BY ColourParts DEF ColourInvariant
  <1>t. /\ s3 \in Levels /\ s4 \in {"off", "on", "joins", "restores"} /\ s7 \in BOOLEAN
        /\ s5 \in ScanType /\ s8 \in SUBSET Addresses /\ s9 \in ColourPast
    BY <1>0 DEF ColourTypes
  <1>1. CASE Colours!Ends
    <2>1. s4 = "joins" /\ s5' = Colours!Ended /\ UNCHANGED <<s1, s2, s3, s4, s6, s7, s8, s9>>
      BY <1>1 DEF Colours!Ends
    <2>2. s5' \in ScanType /\ s5'.at \in {"rests", "ended"} /\ s5'.todo = {} /\ s5'.marks = {}
      BY <2>1, ColourFacts, ScanRests
    <2> QED
      BY <1>t, <2>1, <2>2, ColoursStand
  <1>2. CASE Colours!Uninstall
    BY <1>t, <1>2, ColoursStand DEF Colours!Uninstall
  <1>3. CASE Colours!Joined
    BY <1>t, <1>3, ColoursStand DEF Colours!Joined
  <1>4. CASE Colours!Restored
    <2>1. s4' = "off" /\ s4 = "restores" /\ UNCHANGED <<s1, s2, s3, s5, s6, s7, s8, s9>> /\ \A a \in Addresses : s6[a] = NoColour
      BY <1>4 DEF Colours!Restored, Colours!Remembered, NoColour
    <2>2. s5.at = "ended"
      BY <1>0, <2>1 DEF ScanOrder
    <2> QED
      BY <1>t, <2>1, <2>2, ColoursStand
  <1>5. CASE \E l \in Levels : Colours!LevelChanges(l)
    <2>1. s3' \in Levels /\ UNCHANGED <<s1, s2, s4, s5, s6, s7, s8, s9>>
      BY <1>5 DEF Colours!LevelChanges
    <2> QED
      BY <1>0, <1>t, <2>1, ColoursStand DEF ScanOrder
  <1>6. CASE UNCHANGED Colours!vars
    <2>1. UNCHANGED <<s1, s2, s3, s4, s5, s6, s7, s8, s9>>
      BY <1>6 DEF Colours!vars
    <2> QED
      BY <1>0, <1>t, <2>1, ColoursStand DEF ScanOrder
  <1> QED
    BY <1>1, <1>2, <1>3, <1>4, <1>5, <1>6

LEMMA PageInstalls ==
    ASSUME Colours!ColorsAssumption, ColourInvariant, Colours!Install PROVE ColourInvariant'
  <1>0. ColourTypes /\ ScanOrder /\ \A b \in Addresses : LeftAlone(b)
    BY ColourParts DEF ColourInvariant
  <1>1. /\ s4 = "off" /\ s4' = "on" /\ s5' = Colours!Rests /\ s6' = [a \in Addresses |-> NoColour] /\ s7' = FALSE /\ s8' = {}
        /\ UNCHANGED <<s1, s2, s3, s9>>
    BY DEF Colours!Install, NoColour
  <1>2. \A a \in Addresses : s6[a] = NoColour /\ s6'[a] = NoColour
    BY <1>0, <1>1 DEF ScanOrder
  <1>3. s5' \in ScanType /\ s5'.at = "rests" /\ s5'.todo = {} /\ s5'.marks = {}
    BY <1>1, ColourFacts, ScanRests
  <1>4. Colours!TypeOK'
    <2>1. s6' \in ColourTable
      BY <1>1, ColourFacts DEF ColourTable
    <2>2. ColourTypes'
      BY <1>0, <1>1, <1>3, <2>1 DEF ColourTypes
    <2> QED
      BY <2>2, ColourParts
  <1>5. ScanOrder'
    BY <1>1, <1>3 DEF ScanOrder
  <1>6. ASSUME NEW b \in Addresses PROVE LeftAlone(b)'
    <2> SUFFICES ASSUME Colours!Sure(b)' PROVE ColourKept(b)' /\ (s1[b].self => SelfLeft(b)')
      BY <1>1 DEF LeftAlone
    <2>1. Colours!Sure(b) /\ ColourKept(b)
      BY <1>0, <1>1, SameSure DEF LeftAlone
    <2> QED
      BY <1>1, <1>2, <1>3, <2>1 DEF ColourKept, SelfLeft, NoColour, Colours!NoColour
  <1> QED
    BY <1>4, <1>5, <1>6 DEF ColourInvariant

\* The page writes one colour back, or forgets them all.
LEMMA PagePutsBack ==
    ASSUME Colours!ColorsAssumption, ColourInvariant, NEW a \in Addresses, NEW fails \in BOOLEAN,
           Colours!PutsBack(a, fails)
    PROVE  ColourInvariant'
  <1> DEFINE all == {x \in Addresses : s6[x] # NoColour}
  <1>0. ColourTypes /\ ScanOrder /\ \A b \in Addresses : LeftAlone(b)
    BY ColourParts DEF ColourInvariant
  <1>1. /\ s4 = "restores" /\ a \in all /\ UNCHANGED <<s1, s3, s4, s5, s7, s8>>
        /\ s5.at = "ended"
    BY <1>0 DEF Colours!PutsBack, Colours!Remembered, NoColour, ScanOrder
  <1>2. s6 \in ColourTable /\ s2 \in ColourTable /\ s6[a] \in Colours!Colours /\ all \in SUBSET Addresses
    BY <1>0 DEF ColourTypes, ColourTable
  <1>3. CASE fails
    <2>1. /\ Colours!CanFail /\ s9' = [Colours!Fault EXCEPT !.lost = s9.lost \cup all]
          /\ s6' = [x \in Addresses |-> NoColour] /\ s2' = s2
      BY <1>3 DEF Colours!PutsBack, Colours!Remembered, NoColour
    <2>2. s9 \in ColourPast
      BY <1>0 DEF ColourTypes
    <2>3. \A x \in Addresses : s6'[x] = NoColour /\ (x \notin all => s6[x] = NoColour)
      BY <2>1
    <2> HIDE DEF all
    <2>4. s9' \in ColourPast /\ s9'.lost = s9.lost \cup all /\ s9'.reused = s9.reused
      BY <1>2, <2>1, <2>2, FaultType
    <2>5. s6' \in ColourTable
      BY <2>1, ColourFacts DEF ColourTable
    <2>6. Colours!TypeOK'
      <3>1. ColourTypes'
        BY <1>0, <1>1, <2>1, <2>4, <2>5 DEF ColourTypes
      <3> QED
        BY <3>1, ColourParts
    <2>7. ScanOrder'
      BY <1>0, <1>1 DEF ScanOrder
    <2>8. ASSUME NEW b \in Addresses PROVE LeftAlone(b)'
      <3> SUFFICES ASSUME Colours!Sure(b)' PROVE ColourKept(b)' /\ (s1[b].self => SelfLeft(b)')
        BY <1>1 DEF LeftAlone
      <3>1. Colours!Sure(b) /\ ColourKept(b) /\ (s1[b].self => SelfLeft(b))
        BY <1>0, <1>1, <2>4, SameSure DEF LeftAlone
      <3>2. s6[b] = NoColour /\ s6'[b] = NoColour
        BY <2>3, <2>4 DEF Colours!Sure
      <3> QED
        BY <1>1, <2>1, <3>1, <3>2 DEF ColourKept, SelfLeft, NoColour, Colours!NoColour
    <2> QED
      BY <2>6, <2>7, <2>8 DEF ColourInvariant
  <1>4. CASE ~fails
    <2>1. /\ s2' = [s2 EXCEPT ![a] = IF s1[a] = Colours!Nobody THEN @ ELSE s6[a]]
          /\ s6' = [s6 EXCEPT ![a] = NoColour] /\ s9' = s9
      BY <1>4 DEF Colours!PutsBack, NoColour
    <2>2. /\ s6' \in ColourTable /\ s6'[a] = NoColour /\ \A b \in Addresses \ {a} : s6'[b] = s6[b]
      BY <1>2, <2>1, ColourFacts DEF ColourTable
    <2>3. /\ s2' \in ColourTable /\ (s1[a] # Colours!Nobody => s2'[a] = s6[a])
          /\ \A b \in Addresses \ {a} : s2'[b] = s2[b]
      BY <1>2, <2>1 DEF ColourTable
    <2>4. Colours!TypeOK'
      <3>1. ColourTypes'
        BY <1>0, <1>1, <2>1, <2>2, <2>3 DEF ColourTypes
      <3> QED
        BY <3>1, ColourParts
    <2>5. ScanOrder'
      BY <1>0, <1>1 DEF ScanOrder
    <2>6. ASSUME NEW b \in Addresses PROVE LeftAlone(b)'
      <3> SUFFICES ASSUME Colours!Sure(b)' PROVE ColourKept(b)' /\ (s1[b].self => SelfLeft(b)')
        BY <1>1 DEF LeftAlone
      <3>1. Colours!Sure(b) /\ ColourKept(b) /\ (s1[b].self => SelfLeft(b))
        BY <1>0, <1>1, <2>1, SameSure DEF LeftAlone
      <3>2. CASE b = a
        <4>1. s2'[b] = s1[b].own /\ s6'[b] = NoColour
          BY <1>1, <2>2, <2>3, <3>1, <3>2 DEF ColourKept, Colours!Sure
        <4> QED
          BY <1>1, <3>1, <4>1 DEF ColourKept, SelfLeft, NoColour, Colours!NoColour
      <3>3. CASE b # a
        <4>1. s2'[b] = s2[b] /\ s6'[b] = s6[b]
          BY <2>2, <2>3, <3>3
        <4> QED
          BY <1>1, <3>1, <4>1 DEF ColourKept, SelfLeft, NoColour, Colours!NoColour
      <3> QED
        BY <3>2, <3>3
    <2> QED
      BY <2>4, <2>5, <2>6 DEF ColourInvariant
  <1> QED
    BY <1>3, <1>4

\* Of another one nothing has changed when somebody comes to an address or leaves it.
LEMMA OthersStay ==
    ASSUME NEW a \in Addresses, NEW b \in Addresses, b # a, LeftAlone(b), Colours!Sure(b)',
           s1'[b] = s1[b], s2'[b] = s2[b], b \in s9.reused => b \in s9'.reused,
           b \in s9.lost => b \in s9'.lost, UNCHANGED <<s5, s6, s8>>
    PROVE  LeftAlone(b)'
  <1>1. Colours!Sure(b)
    BY DEF Colours!Sure
  <1>2. ColourKept(b)' /\ (s1'[b].self => SelfLeft(b)')
    BY <1>1 DEF LeftAlone, ColourKept, SelfLeft, NoColour, Colours!NoColour
  <1> QED
    BY <1>2 DEF LeftAlone

\* Somebody comes: to an address nothing is known of, or it counts as used again.
LEMMA SomebodyComes ==
    ASSUME Colours!ColorsAssumption, ColourInvariant, NEW a \in Addresses, NEW being \in Beings,
           Colours!Comes(a, being)
    PROVE  ColourInvariant'
  <1>0. ColourTypes /\ ScanOrder /\ \A b \in Addresses : LeftAlone(b)
    BY ColourParts DEF ColourInvariant
  <1> DEFINE reused == IF Colours!InUse(a) THEN s9.reused \cup {a} ELSE s9.reused \ {a}
  <1>1. /\ s1' = [s1 EXCEPT ![a] = being] /\ s2' = [s2 EXCEPT ![a] = being.own]
        /\ s9.births < MaxBirths /\ UNCHANGED <<s3, s4, s5, s6, s7, s8>>
    BY DEF Colours!Comes
  <1>2. s9' = [s9 EXCEPT !.births = s9.births + 1, !.lost = s9.lost \ {a}, !.reused = reused]
    BY <1>0 DEF Colours!Comes, ColourTypes, ColourPast
  <1>3. s1 \in Residents /\ s2 \in ColourTable /\ s9 \in ColourPast
    BY <1>0 DEF ColourTypes
  <1>4. /\ s1' \in Residents /\ s1'[a] = being /\ \A b \in Addresses \ {a} : s1'[b] = s1[b]
    BY <1>1, <1>3 DEF Residents
  <1>5. /\ s2' \in ColourTable /\ s2'[a] = being.own /\ \A b \in Addresses \ {a} : s2'[b] = s2[b]
    <2>1. being.own \in Colours!Colours
      BY ColourFacts
    <2> QED
      BY <1>1, <1>3, <2>1 DEF ColourTable
  <1>6. s9' \in ColourPast /\ s9'.lost = s9.lost \ {a} /\ s9'.reused = reused
    <2>1. s9.births + 1 \in 0 .. MaxBirths
      BY <1>1, <1>3, ColourFacts DEF ColourPast
    <2>2. s9.lost \ {a} \in SUBSET Addresses /\ reused \in SUBSET Addresses
      BY <1>3 DEF ColourPast
    <2> HIDE DEF reused
    <2> QED
      BY <1>2, <1>3, <2>1, <2>2 DEF ColourPast
  <1>7. Colours!TypeOK'
    <2>1. ColourTypes'
      BY <1>0, <1>1, <1>4, <1>5, <1>6 DEF ColourTypes
    <2> QED
      BY <2>1, ColourParts
  <1>8. ScanOrder'
    BY <1>0, <1>1 DEF ScanOrder, NoColour, Colours!NoColour
  <1>9. ASSUME NEW b \in Addresses PROVE LeftAlone(b)'
    <2> SUFFICES ASSUME Colours!Sure(b)' PROVE LeftAlone(b)'
      BY DEF LeftAlone
    <2>1. CASE b = a
      <3>1. ~Colours!InUse(a)
        BY <1>6, <2>1 DEF Colours!Sure
      <3>2. /\ s6[a] = NoColour /\ a \notin s8 \cup s5.marks \cup s5.todo /\ ~(s5.at = "writes" /\ s5.on = a)
        BY <3>1 DEF Colours!InUse, NoColour
      <3>3. ColourKept(a)' /\ SelfLeft(a)'
        BY <1>1, <1>4, <1>5, <3>2 DEF ColourKept, SelfLeft, NoColour, Colours!NoColour
      <3> QED
        BY <2>1, <3>3 DEF LeftAlone
    <2>2. CASE b # a
      <3>1. s1'[b] = s1[b] /\ s2'[b] = s2[b] /\ LeftAlone(b)
        BY <1>0, <1>4, <1>5, <2>2
      <3>2. (b \in s9.reused => b \in s9'.reused) /\ (b \in s9.lost => b \in s9'.lost)
        BY <1>6, <2>2
      <3> QED
        BY <1>1, <2>2, <3>1, <3>2, OthersStay
    <2> QED
      BY <2>1, <2>2
  <1> QED
    BY <1>7, <1>8, <1>9 DEF ColourInvariant

LEMMA SomebodyGoes ==
    ASSUME Colours!ColorsAssumption, ColourInvariant, NEW a \in Addresses, Colours!Goes(a) PROVE ColourInvariant'
  <1>0. ColourTypes /\ ScanOrder /\ \A b \in Addresses : LeftAlone(b)
    BY ColourParts DEF ColourInvariant
  <1>1. /\ s1' = [s1 EXCEPT ![a] = Colours!Nobody] /\ s2' = [s2 EXCEPT ![a] = NoColour]
        /\ UNCHANGED <<s3, s4, s5, s6, s7, s8, s9>>
    BY DEF Colours!Goes, NoColour
  <1>2. s1' \in Residents /\ s1'[a] = Colours!Nobody /\ \A b \in Addresses \ {a} : s1'[b] = s1[b]
    BY <1>0, <1>1 DEF ColourTypes, Residents
  <1>3. s2' \in ColourTable /\ \A b \in Addresses \ {a} : s2'[b] = s2[b]
    BY <1>0, <1>1, ColourFacts DEF ColourTypes, ColourTable
  <1>4. Colours!TypeOK'
    <2>1. ColourTypes'
      BY <1>0, <1>1, <1>2, <1>3 DEF ColourTypes
    <2> QED
      BY <2>1, ColourParts
  <1>5. ScanOrder'
    BY <1>0, <1>1 DEF ScanOrder, NoColour, Colours!NoColour
  <1>6. ASSUME NEW b \in Addresses PROVE LeftAlone(b)'
    <2> SUFFICES ASSUME Colours!Sure(b)' PROVE LeftAlone(b)'
      BY DEF LeftAlone
    <2>1. b # a
      BY <1>2 DEF Colours!Sure
    <2>2. s1'[b] = s1[b] /\ s2'[b] = s2[b] /\ LeftAlone(b) /\ UNCHANGED <<s5, s6, s8, s9>>
      BY <1>0, <1>1, <1>2, <1>3, <2>1
    <2> QED
      BY <2>1, <2>2, OthersStay
  <1> QED
    BY <1>4, <1>5, <1>6 DEF ColourInvariant

LEMMA ColoursKeep ==
    ASSUME Colours!ColorsAssumption, ColourInvariant, [Colours!Next]_(Colours!vars) PROVE ColourInvariant'
  <1>1. CASE Colours!Thread
    BY <1>1, ScanBegins, ScanLooks, ScanWrites, ScanRestores, ScanMarks, PageKeeps DEF Colours!Thread
  <1>2. CASE Colours!Page
    BY <1>2, PageKeeps, PagePutsBack DEF Colours!Page
  <1>3. CASE Colours!User
    BY <1>3, PageKeeps, PageInstalls DEF Colours!User
  <1>4. CASE Colours!World
    BY <1>4, PageKeeps, SomebodyComes, SomebodyGoes DEF Colours!World
  <1>5. CASE UNCHANGED Colours!vars
    BY <1>5, PageKeeps
  <1> QED
    BY <1>1, <1>2, <1>3, <1>4, <1>5 DEF Colours!Next

LEMMA ColoursPromise ==
    ASSUME ColourInvariant
    PROVE  /\ Colours!TypeOK /\ Colours!OriginalKept /\ Colours!AllRestored /\ Colours!SelfKeepsColour
           /\ Colours!SelfLooksAsEver
  <1>0. Colours!TypeOK /\ ScanOrder /\ \A a \in Addresses : LeftAlone(a)
    BY DEF ColourInvariant
  <1>1. Colours!OriginalKept
    BY <1>0 DEF LeftAlone, ColourKept, Colours!OriginalKept, NoColour
  <1>2. Colours!AllRestored
    BY <1>0 DEF ScanOrder, LeftAlone, ColourKept, Colours!AllRestored
  <1>3. Colours!SelfKeepsColour
    BY <1>0 DEF LeftAlone, ColourKept, SelfLeft, Colours!SelfKeepsColour
  <1>4. Colours!SelfLooksAsEver
    BY <1>0 DEF LeftAlone, SelfLeft, Colours!SelfLooksAsEver, Colours!HighlightsName, Colours!HighlightsSelected,
       Colours!InTable
  <1> QED
    BY <1>0, <1>1, <1>2, <1>3, <1>4

-----------------------------------------------------------------------------
(* All that starts a game.                                                 *)

LaunchInvariant ==
    /\ part = "proxy" => RelayInvariant
    /\ part = "window" => WindowInvariant
    /\ part = "stage2" => StageInvariant

LEMMA LaunchBegins == MCInit => LaunchInvariant
  BY PartsAssumption, RelayBegins, WindowBegins, StageBegins DEF MCInit, LaunchInvariant

LEMMA LaunchKeeps == LaunchInvariant /\ [MCNext]_mcVars => LaunchInvariant'
  <1> SUFFICES ASSUME LaunchInvariant, [MCNext]_mcVars PROVE LaunchInvariant'
    OBVIOUS
  <1>0. part' = part
    BY DEF MCNext, mcVars, DayRest, WaterRest, ColoursRest, RelayRest, WindowRest, StageRest
  <1>1. CASE part = "proxy"
    <2>1. [Relay!Next]_(Relay!vars)
      BY <1>1 DEF MCNext, mcVars, DayRest, WaterRest, ColoursRest, WindowRest, StageRest, Relay!vars
    <2> QED
      BY <1>0, <1>1, <2>1, PartsAssumption, RelayKeeps DEF LaunchInvariant
  <1>2. CASE part = "window"
    <2>1. [Window!Next]_(Window!vars)
      BY <1>2 DEF MCNext, mcVars, DayRest, WaterRest, ColoursRest, RelayRest, StageRest, Window!vars
    <2> QED
      BY <1>0, <1>2, <2>1, PartsAssumption, WindowKeeps DEF LaunchInvariant
  <1>3. CASE part = "stage2"
    <2>1. [Stage!Next]_(Stage!vars)
      BY <1>3 DEF MCNext, mcVars, DayRest, WaterRest, ColoursRest, RelayRest, WindowRest, Stage!vars
    <2> QED
      BY <1>0, <1>3, <2>1, PartsAssumption, StageKeeps DEF LaunchInvariant
  <1> QED
    BY <1>0, <1>1, <1>2, <1>3 DEF LaunchInvariant

\* Whatever fails and whenever it is closed: a recorded version was eaten and not
\* written over by an older one, an unhurried player starts one thing at a time and
\* is never left before a locked or hidden window, the process stays as long as a
\* game talks through it, the proxy passes every byte on once and in order and tells
\* of the end after all of them, and stage 2 neither touches a packed game nor leaves
\* one suspended.  For every number of offers, clicks and features and every
\* conversation.
THEOREM LaunchesAreSound == MCSpec => []LaunchIsSound
  <1>1. LaunchInvariant => LaunchIsSound
    <2> SUFFICES ASSUME LaunchInvariant PROVE LaunchIsSound
      OBVIOUS
    <2>1. part = "proxy" => Relay!PassesOn /\ Relay!EndAfterAll
      BY PartsAssumption, RelayPromises DEF LaunchInvariant
    <2>2. part = "window" => Window!OneThing /\ Window!NotStuck
      BY WindowPromises DEF LaunchInvariant
    <2>3. part = "window" => Window!RecordedIsEaten /\ Window!NoOldFiles /\ Window!ProxyStays
      BY DEF LaunchInvariant, WindowInvariant
    <2>4. part = "stage2" => Stage!GameGoesOn /\ Stage!NotWhilePacked
      BY DEF LaunchInvariant, StageInvariant
    <2> QED
      BY <2>1, <2>2, <2>3, <2>4 DEF LaunchIsSound, RecordedIsEaten, NoOldFiles, OneThing, ProxyStays, NotStuck,
         GameGoesOn, NotWhilePacked, PassesOn, EndAfterAll
  <1> QED
    BY <1>1, LaunchBegins, LaunchKeeps, PTL DEF MCSpec

-----------------------------------------------------------------------------
(* The toggles.                                                            *)

PartOK == part \in {"day", "water", "colours", "proxy", "window", "stage2"}
ToggleInvariant ==
    /\ part = "day" => DayInvariant
    /\ part = "water" => WaterInvariant
    /\ part = "colours" => ColourInvariant

LEMMA TogglesBegin == MCInit => PartOK /\ ToggleInvariant
  BY PartsAssumption, DayBegins, WaterBegins, ColoursBegin DEF MCInit, PartOK, ToggleInvariant

LEMMA TogglesKeep == PartOK /\ ToggleInvariant /\ [MCNext]_mcVars => PartOK' /\ ToggleInvariant'
  <1> SUFFICES ASSUME PartOK, ToggleInvariant, [MCNext]_mcVars PROVE PartOK' /\ ToggleInvariant'
    OBVIOUS
  <1>0. part' = part
    BY DEF MCNext, mcVars, DayRest, WaterRest, ColoursRest, RelayRest, WindowRest, StageRest
  <1>1. CASE part = "day"
    <2>1. [Day!Next]_(Day!vars)
      BY <1>1 DEF MCNext, mcVars, WaterRest, ColoursRest, RelayRest, WindowRest, StageRest, Day!vars
    <2> QED
      BY <1>0, <1>1, <2>1, PartsAssumption, DayKeeps DEF PartOK, ToggleInvariant
  <1>2. CASE part = "water"
    <2>1. [Water!Next]_(Water!vars)
      BY <1>2 DEF MCNext, mcVars, DayRest, ColoursRest, RelayRest, WindowRest, StageRest, Water!vars
    <2> QED
      BY <1>0, <1>2, <2>1, WaterKeeps DEF PartOK, ToggleInvariant
  <1>3. CASE part = "colours"
    <2>1. [Colours!Next]_(Colours!vars)
      BY <1>3 DEF MCNext, mcVars, DayRest, WaterRest, RelayRest, WindowRest, StageRest, Colours!vars
    <2> QED
      BY <1>0, <1>3, <2>1, PartsAssumption, ColoursKeep DEF PartOK, ToggleInvariant
  <1> QED
    BY <1>0, <1>1, <1>2, <1>3 DEF PartOK, ToggleInvariant

\* Whatever fails, whoever turns a toggle off and whatever ran at that moment: the
\* game's code and palette are its own again after the session, hidden water is known
\* to be hidden and shown at the end, the colour kept for a name is its own and is
\* put back, and the player keeps its own, in the look of its name as well.  For every
\* number of places, groups, objects, levels and faults.
THEOREM ClientIsGivenBack == MCSpec => []ClientComesBack
  <1>1. PartOK /\ ToggleInvariant /\ LaunchInvariant => ClientComesBack
    <2> SUFFICES ASSUME PartOK, ToggleInvariant, LaunchInvariant PROVE ClientComesBack
      OBVIOUS
    <2>1. part = "day" => Day!TypeOK /\ Day!NothingLeft /\ Day!ColoursLeft
      BY DayPromises DEF ToggleInvariant
    <2>2. part = "water" => Water!TypeOK /\ Water!WaterIsBack /\ Water!HiddenIsMarked
      BY WaterPromises DEF ToggleInvariant
    <2>3. part = "colours" => /\ Colours!TypeOK /\ Colours!OriginalKept /\ Colours!AllRestored
                              /\ Colours!SelfKeepsColour /\ Colours!SelfLooksAsEver
      BY ColoursPromise DEF ToggleInvariant
    <2>4. part = "proxy" => Relay!TypeOK
      BY PartsAssumption, RelayPromises DEF LaunchInvariant
    <2>5. part = "window" => Window!TypeOK
      BY DEF LaunchInvariant, WindowInvariant
    <2>6. part = "stage2" => Stage!TypeOK
      BY DEF LaunchInvariant, StageInvariant
    <2>7. TypeOK
      BY <2>1, <2>2, <2>3, <2>4, <2>5, <2>6 DEF TypeOK, PartOK
    <2> QED
      BY <2>1, <2>2, <2>3, <2>7 DEF ClientComesBack, NothingLeft, ColoursLeft, WaterIsBack, HiddenIsMarked,
         OriginalKept, AllRestored, SelfKeepsColour, SelfLooksAsEver
  <1>2. MCInit => PartOK /\ ToggleInvariant /\ LaunchInvariant
    BY LaunchBegins, TogglesBegin
  <1>3. PartOK /\ ToggleInvariant /\ LaunchInvariant /\ [MCNext]_mcVars
        => PartOK' /\ ToggleInvariant' /\ LaunchInvariant'
    BY LaunchKeeps, TogglesKeep
  <1> QED
    BY <1>1, <1>2, <1>3, PTL DEF MCSpec
===============================================================================
