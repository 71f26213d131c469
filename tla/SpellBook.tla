------------------------------- MODULE SpellBook -------------------------------
(***************************************************************************)
(* The table of the spells that the player has learned (aux/spell_book) and   *)
(* that of all spells (aux/spell_db).  The threads of a session share them;   *)
(* whoever needs a spell first refreshes them from the game's memory, while   *)
(* the player may leave and come back as somebody else.  The age of the       *)
(* table is told by the address that the game's own book has.                 *)
(***************************************************************************)
EXTENDS Naturals

CONSTANTS
    Casters,    \* threads that cast
    Careful,    \* those that do not cast when the refresh fails: drink, hotkey
    WithTable,  \* those that take a spell of the first level from the other table
    Addresses,  \* where the game may allocate a book
    MaxLogins   \* bound: logins of a behaviour

BookAssumption ==
    /\ Careful \subseteq Casters /\ WithTable \subseteq Casters
    /\ 0 \notin Addresses /\ MaxLogins \in Nat

VARIABLES
    game,    \* who plays, and [SPELL_BOOK_PTR]; 0 is nobody, and no book
    legible, \* reads of the game's memory do not fail
    logins,
    book,    \* spell_book: the address it was read at, and whose spells
    table,   \* spell_db has been built
    caster,  \* per thread: where it is, and the book that it is reading
    doubt    \* history, per thread: why its spell may be another character's

vars == <<game, legible, logins, book, table, caster, doubt>>

Nobody == 0
NoBook == [at |-> 0, of |-> Nobody]
\* Whose book the last cast was from: 0 for none, or the table of all spells.
FromTable == MaxLogins + 1
Spells == 0 .. FromTable

TypeOK ==
    /\ game \in [who : 0 .. MaxLogins, at : Addresses \cup {0}]
    /\ legible \in BOOLEAN /\ logins \in 0 .. MaxLogins
    /\ book \in [at : Addresses \cup {0}, of : 0 .. MaxLogins]
    /\ table \in BOOLEAN
    /\ caster \in [Casters -> [pc : {"rest", "check", "read", "store", "look"},
                               at : Addresses \cup {0}, of : 0 .. MaxLogins, spell : Spells]]
    /\ doubt \in [Casters -> BOOLEAN]

Resting == [pc |-> "rest", at |-> 0, of |-> Nobody, spell |-> Nobody]

Init ==
    /\ game = [who |-> Nobody, at |-> 0] /\ legible = TRUE /\ logins = 0
    /\ book = NoBook /\ table = FALSE
    /\ caster = [c \in Casters |-> Resting]
    /\ doubt = [c \in Casters |-> FALSE]

-------------------------------------------------------------------------------
(* The game.  A new book may be allocated where the last one was.             *)

Doubted == [c \in Casters |-> doubt[c] \/ caster[c].pc # "rest"]

Login ==
    /\ game.who = Nobody /\ logins < MaxLogins
    /\ logins' = logins + 1
    /\ \E a \in Addresses : game' = [who |-> logins', at |-> a]
    /\ doubt' = Doubted
    /\ UNCHANGED <<legible, book, table, caster>>

Logout ==
    /\ game.who # Nobody
    /\ game' = [who |-> Nobody, at |-> 0]
    /\ doubt' = Doubted
    /\ UNCHANGED <<legible, logins, book, table, caster>>

Fails ==
    /\ legible' = ~legible
    /\ UNCHANGED <<game, logins, book, table, caster, doubt>>

-------------------------------------------------------------------------------
(* ensure_fresh                                                               *)

To(c, pc) == caster' = [caster EXCEPT ![c].pc = pc]

\* A tick begins only in the world; the spell of the last one is done with.
Begin(c) ==
    /\ caster[c].pc = "rest" /\ game.who # Nobody
    /\ caster' = [caster EXCEPT ![c] = [Resting EXCEPT !.pc = "check"]]
    /\ doubt' = [doubt EXCEPT ![c] = FALSE]
    /\ UNCHANGED <<game, legible, logins, book, table>>

\* A wrong version, to show that the properties below can fail.
StaleWhenMissing(at) == at = 0 \/ book.at = 0

IsStaleFor(at) == at = 0 \/ book.at # at

Check(c) ==
    /\ caster[c].pc = "check"
    \* a read that fails counts as no book
    /\ To(c, IF IsStaleFor(IF legible THEN game.at ELSE 0) THEN "read" ELSE "look")
    /\ UNCHANGED <<game, legible, logins, book, table, doubt>>

\* A wrong version, to show that the properties below can fail.
CastAnyway(c) == "look"

\* What the caller makes of a refresh that failed.
AfterFailure(c) == IF c \in Careful THEN "rest" ELSE "look"

BuildFails(c) ==
    /\ To(c, AfterFailure(c))
    /\ doubt' = [doubt EXCEPT ![c] = AfterFailure(c) = "look" \/ @]

\* build: first the address, then the spells.
ReadAddress(c) ==
    /\ caster[c].pc = "read" /\ caster[c].at = 0
    /\ \/ /\ legible /\ game.at # 0
          /\ caster' = [caster EXCEPT ![c].at = game.at, ![c].of = game.who]
          /\ UNCHANGED doubt
       \/ (~legible \/ game.at = 0) /\ BuildFails(c)
    /\ UNCHANGED <<game, legible, logins, book, table>>

\* The memory of a book that is gone may still be there.
ReadSpells(c) ==
    /\ caster[c].pc = "read" /\ caster[c].at # 0
    /\ \/ /\ legible
          /\ caster' = [caster EXCEPT ![c].pc = "store",
                            ![c].of = IF caster[c].at = game.at THEN game.who ELSE @]
          /\ UNCHANGED doubt
       \/ (~legible \/ game.at # caster[c].at) /\ BuildFails(c)
    /\ UNCHANGED <<game, legible, logins, book, table>>

Store(c) ==
    /\ caster[c].pc = "store"
    /\ book' = [at |-> caster[c].at, of |-> caster[c].of]
    /\ To(c, "look")
    /\ doubt' = IF caster[c].of = game.who THEN doubt ELSE Doubted
    /\ UNCHANGED <<game, legible, logins, table>>

\* The spell is in the book, or the player has not learned it.
Found(c) ==
    (IF book = NoBook THEN {} ELSE {book.of})
        \cup {IF c \in WithTable /\ table' THEN FromTable ELSE Nobody}

\* lookup, and the cast that follows.
Look(c) ==
    /\ caster[c].pc = "look"
    /\ table' \in IF c \in WithTable /\ game.who # Nobody THEN {table, TRUE} ELSE {table}
    /\ \E spell \in Found(c) :
          caster' = [caster EXCEPT ![c] = [Resting EXCEPT !.spell = spell]]
    /\ UNCHANGED <<game, legible, logins, book, doubt>>

Tick(c) == Begin(c) \/ Check(c) \/ ReadAddress(c) \/ ReadSpells(c) \/ Store(c) \/ Look(c)
Player == Login \/ Logout \/ Fails

Next == Player \/ \E c \in Casters : Tick(c)

\* The threads run.
Spec ==
    /\ Init /\ [][Next]_vars
    /\ \A c \in Casters : WF_vars(Tick(c))

-------------------------------------------------------------------------------
\* A thread casts another character's spell only if the player has left or
\* come back during its tick, or came back to a book at the old address, or if
\* it is one of those that ignore that they could not read the book.
CastsOwnSpell ==
    \A c \in Casters :
          Look(c) /\ caster'[c].spell \in 1 .. MaxLogins
              => \/ caster'[c].spell = game.who
                 \/ doubt[c] \/ book.at = game.at

\* The two threads that look at the result of the refresh have a book of the
\* address that was current when they checked, even if the read has failed.
CarefulHaveABook ==
    \A c \in Careful : caster[c].pc = "look" => book # NoBook

\* When the player stays, the book becomes his and stays so, whatever the
\* threads that were still reading the last character's write over it.
Playing == game.who # Nobody /\ legible
UpToDate == book.at = game.at
BookCatchesUp == <>[]Playing => <>[]UpToDate
===============================================================================
