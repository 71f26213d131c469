------------------------------- MODULE Profiles -------------------------------
(***************************************************************************)
(* The settings of the auxiliary between its sessions (aux/profile.rs, and     *)
(* LhxActiveSession of main.rs): one file for each character, read when a       *)
(* session starts and written when it ends.  The name is read from the game,    *)
(* for five seconds; the file's name is the character's without the letters     *)
(* that a file's name cannot have.  The session ends when the listener sees     *)
(* that the player has left the world; it does not see one who has left and     *)
(* come back between two looks.                                               *)
(***************************************************************************)
EXTENDS Naturals, FiniteSets

CONSTANTS
    Characters, Nobody,
    Files,    \* names of files
    FileOf,   \* sanitize_filename of the characters' names
    Fallback, \* the file of the name "default"
    Values,   \* what settings there are
    Default,  \* AuxSettings::default
    MaxSteps  \* bound: what players do, and faults

ProfilesAssumption ==
    /\ FileOf \in [Characters -> Files] /\ Fallback \in Files /\ Nobody \notin Characters
    /\ Default \in Values /\ {"none", "garbled"} \cap Values = {} /\ MaxSteps \in Nat

VARIABLES
    player,   \* the character in the world
    session,  \* whether there is one, its file and settings, for whom it was started
    disk,     \* the files: "none", "garbled", or what they hold
    wish,     \* history: what each character set last
    excuse,   \* history: the characters whose settings a fault has disturbed
    steps

vars == <<player, session, disk, wish, excuse, steps>>

NoSession == [on |-> FALSE, file |-> Fallback, settings |-> Default, for |-> Nobody]

TypeOK ==
    /\ player \in Characters \cup {Nobody}
    /\ session \in [on : BOOLEAN, file : Files, settings : Values, for : Characters \cup {Nobody}]
    /\ disk \in [Files -> Values \cup {"none", "garbled"}]
    /\ wish \in [Characters -> Values] /\ excuse \subseteq Characters /\ steps \in 0 .. MaxSteps

Init ==
    /\ player = Nobody /\ session = NoSession
    /\ disk = [f \in Files |-> "none"]
    /\ wish = [c \in Characters |-> Default] /\ excuse = {} /\ steps = 0

Step == steps < MaxSteps /\ steps' = steps + 1

\* External: the player enters and leaves.
Enters(c) ==
    /\ player = Nobody /\ Step /\ player' = c
    /\ UNCHANGED <<session, disk, wish, excuse>>

Leaves ==
    /\ player # Nobody /\ player' = Nobody
    /\ UNCHANGED <<session, disk, wish, excuse, steps>>

\* load: what cannot be read is the default.
Loaded(f) == IF disk[f] \in {"none", "garbled"} THEN Default ELSE disk[f]

Sharing(f) == {c \in Characters : FileOf[c] = f}

\* start_lhx_session: with the character's file, with "default" if the name could
\* not be read, or with the default settings if the file could not.
Begins(file, readable) ==
    /\ player # Nobody /\ ~session.on
    /\ session' = [on |-> TRUE, file |-> file, for |-> player,
                   settings |-> IF readable THEN Loaded(file) ELSE Default]
    /\ UNCHANGED <<player, disk, wish>>

Starts ==
    /\ Begins(FileOf[player], TRUE)
    /\ excuse' = IF disk[FileOf[player]] = "garbled" THEN excuse \cup Sharing(FileOf[player]) ELSE excuse
    /\ UNCHANGED steps

StartsUnread ==
    /\ Step /\ Begins(FileOf[player], FALSE)
    /\ excuse' = excuse \cup Sharing(FileOf[player])

StartsNameless ==
    /\ Step /\ Begins(Fallback, TRUE)
    /\ excuse' = excuse \cup {player} \cup Sharing(Fallback)

\* The player changes settings in the window: those of the session, whoever is in
\* the world.
Sets(v) ==
    /\ session.on /\ player # Nobody /\ Step
    /\ session' = [session EXCEPT !.settings = v]
    /\ wish' = [wish EXCEPT ![player] = v]
    /\ excuse' = excuse \cup IF player # session.for THEN {player} \cup Sharing(session.file)
                             ELSE Sharing(session.file) \ {player}
    /\ UNCHANGED <<player, disk>>

\* A wrong version, to show that the properties below can fail.
FileAtEnd == IF player = Nobody THEN session.file ELSE FileOf[player]

\* The name that the session was started with.
FileToWrite == session.file

\* LhxActiveSession::shutdown, when the listener sees that the player has left,
\* which takes its threads a while: another may have entered meanwhile.
Ends ==
    /\ session.on /\ player # session.for
    /\ disk' = [disk EXCEPT ![FileToWrite] = session.settings]
    /\ session' = NoSession
    /\ UNCHANGED <<player, wish, excuse, steps>>

\* The file cannot be written, or only half of it.
EndsUnwritten ==
    /\ session.on /\ player # session.for /\ Step
    /\ disk' \in {disk, [disk EXCEPT ![FileToWrite] = "garbled"]}
    /\ session' = NoSession
    /\ excuse' = excuse \cup Sharing(FileToWrite)
    /\ UNCHANGED <<player, wish>>

Listener == Starts \/ StartsUnread \/ StartsNameless \/ Ends \/ EndsUnwritten
Player == Leaves \/ (\E c \in Characters : Enters(c)) \/ \E v \in Values : Sets(v)

Next == Listener \/ Player

Spec == Init /\ [][Next]_vars

-------------------------------------------------------------------------------
\* What a character set is in force when its next session runs, and in its file
\* in between: only a name that could not be read, a file that could not be read
\* or written, a file shared with another name, and a player who comes back
\* under another name before the session has ended make a difference.
SettingsComeBack ==
    \A c \in Characters \ excuse :
        IF session.on /\ session.for = c THEN session.settings = wish[c]
        ELSE disk[FileOf[c]] = wish[c] \/ (disk[FileOf[c]] = "none" /\ wish[c] = Default)

\* What makes it inductive: a session has the file of the character for whom it was
\* started, and the settings that everybody wants who has this file.
ProfileTypes ==
    /\ player \in Characters \cup {Nobody}
    /\ session \in [on : BOOLEAN, file : Files, settings : Values, for : Characters \cup {Nobody}]
    /\ disk \in [Files -> Values \cup {"none", "garbled"}]
    /\ wish \in [Characters -> Values]
ProfileInvariant ==
    /\ ProfileTypes /\ SettingsComeBack
    /\ \A c \in Characters \ excuse :
           /\ session.on /\ session.for = c => session.file = FileOf[c]
           /\ session.on /\ session.file = FileOf[c] => session.settings = wish[c]
===============================================================================
