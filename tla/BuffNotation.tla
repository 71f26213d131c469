----------------------------- MODULE BuffNotation -----------------------------
(***************************************************************************)
(* How the auxiliary writes down what is to be used on whom                  *)
(* (aux/lhx_window.rs): an older notation, id_name/SUFFIX, and a newer one,    *)
(* name_id_SUFFIX or name_target_SUFFIX.  An entry of the list of buffs goes   *)
(* from the list's file through the list on the screen into the settings, and  *)
(* is compared with the file when the settings are shown again; a command of  *)
(* a function key is rewritten whenever it is typed.                          *)
(*                                                                         *)
(* A text is a record of its parts; numbers are written as strings, as in the  *)
(* code, and names have neither '_' nor '/' in them.                          *)
(***************************************************************************)
EXTENDS Naturals

CONSTANTS
    Names,    \* of spells and items
    Numbers,  \* what parses as an integer
    Targets,  \* names of what a spell or an item is used on
    Suffixes  \* bound: of the lines that change in the file

Nameless == "no target"

NotationAssumption ==
    /\ "-1" \in Numbers /\ Numbers \cap Targets = {}
    /\ Nameless \notin Numbers \cup Targets

VARIABLES
    written, \* the entry in the file
    listed,  \* its text in the list on the screen
    kept,    \* the entry in the settings
    command  \* a command of a function key, as a text

vars == <<written, listed, kept, command>>

Keys == {"F1", "F12"}
SlashSuffixes == {"", "M", "ME", "MME", "MT", "MI", "MIA", "MIW", "I", "IA", "IW", "IT", "IME", "ID",
                  "INFO", "KEY=F1", "DKEY=F12", "KEY=F13"}
SlashAimed == {"MI=", "M=", "I=", "IA=", "IW=", "IT="}
BarSuffixes == (SlashSuffixes \ {"ME"}) \cup {"IIA", "IIW", "II"}

Texts ==
    [form : {"slash"}, id : Numbers \cup {""}, name : Names, suffix : SlashSuffixes, target : {Nameless}]
    \cup [form : {"slash"}, id : Numbers \cup {""}, name : Names, suffix : SlashAimed, target : Targets]
    \cup [form : {"bars"}, id : Numbers \cup Targets, name : Names, suffix : BarSuffixes, target : {Nameless}]

Text(form, id, name, suffix, target) ==
    [form |-> form, id |-> id, name |-> name, suffix |-> suffix, target |-> target]

-------------------------------------------------------------------------------
Aims == {"item", "none", "self", "hover", "entity", "selfItem", "inUse", "wielded", "named",
         "key", "delayKey", "drop", "info"}

Use(type, aim, target) == [type |-> type, aim |-> aim, target |-> target]

KeyOf(s) == IF s \in {"KEY=F1", "DKEY=F1"} THEN "F1" ELSE "F12"
IsKey(s) == s \in {"KEY=F1", "KEY=F12"}
IsDelayKey(s) == s \in {"DKEY=F1", "DKEY=F12"}

\* parse_buff_item_legacy, the part behind the slash.
ParseSlash(s, target) ==
    CASE IsKey(s) -> Use("K", "key", KeyOf(s))
      [] IsDelayKey(s) -> Use("K", "delayKey", KeyOf(s))
      [] s \in {"MI=", "M="} -> Use("S", "named", target)
      [] s = "I=" -> Use("I", "named", target)
      [] s = "IA=" -> Use("I", "inUse", target)
      [] s = "IW=" -> Use("I", "wielded", target)
      [] s = "IT=" -> Use("I", "entity", target)
      [] s = "IME" -> Use("I", "selfItem", Nameless)
      [] s \in {"M", "MI"} -> Use("S", "none", Nameless)
      [] s = "ME" -> Use("S", "self", Nameless)
      [] s = "MIA" -> Use("S", "inUse", Nameless)
      [] s = "MIW" -> Use("S", "wielded", Nameless)
      [] s = "IA" -> Use("I", "inUse", Nameless)
      [] s = "IW" -> Use("I", "wielded", Nameless)
      [] s = "IT" -> Use("I", "hover", Nameless)
      [] s = "ID" -> Use("I", "drop", Nameless)
      [] s = "INFO" -> Use("I", "info", Nameless)
      [] OTHER -> Use("I", "item", Nameless)

\* parse_suffix_70: the part in the middle is the target if it is no number.
ParseBars(s, middle) ==
    LET target == IF middle \in Numbers THEN Nameless ELSE middle IN
    CASE IsKey(s) -> Use("K", "key", KeyOf(s))
      [] IsDelayKey(s) -> Use("K", "delayKey", KeyOf(s))
      [] s = "ID" -> Use("I", "drop", Nameless)
      [] s \in {"IA", "IIA"} -> Use("I", "inUse", target)
      [] s \in {"IW", "IIW"} -> Use("I", "wielded", target)
      [] s = "II" -> Use("I", "named", middle)
      [] s = "IT" -> IF target = Nameless THEN Use("I", "hover", Nameless) ELSE Use("I", "entity", target)
      [] s = "IME" -> Use("I", "selfItem", Nameless)
      [] s = "M" -> Use("S", "none", Nameless)
      [] s = "MME" -> Use("S", "self", Nameless)
      [] s = "MT" -> Use("S", "hover", Nameless)
      [] s = "MIA" -> Use("S", "inUse", Nameless)
      [] s = "MIW" -> Use("S", "wielded", Nameless)
      [] s = "MI" -> Use("S", "named", middle)
      [] s = "INFO" -> Use("I", "info", Nameless)
      [] OTHER -> Use("I", "item", Nameless)

\* parse_buff_item.
Parse(t) ==
    [id |-> IF t.id \in Numbers THEN t.id ELSE "-1", name |-> t.name,
     use |-> IF t.form = "slash" THEN ParseSlash(t.suffix, t.target) ELSE ParseBars(t.suffix, t.id)]

\* The suffix of the older notation; "IT" and "ID" are also those of the newer.
SlashOf(use) ==
    CASE use.aim = "item" -> "" [] use.aim = "none" -> "M" [] use.aim = "self" -> "ME"
      [] use.aim = "key" -> IF use.target = "F1" THEN "KEY=F1" ELSE "KEY=F12"
      [] use.aim = "delayKey" -> IF use.target = "F1" THEN "DKEY=F1" ELSE "DKEY=F12"
      [] use.aim \in {"hover", "entity"} -> IF use.target = Nameless THEN "IT" ELSE "IT="
      [] use.aim = "selfItem" -> "IME"
      [] use.aim = "inUse" -> IF use.target = Nameless THEN "IA" ELSE "IA="
      [] use.aim = "wielded" -> IF use.target = Nameless THEN "IW" ELSE "IW="
      [] use.aim = "named" -> "I="
      [] use.aim = "drop" -> "ID"
      [] OTHER -> "INFO"

OnTarget(use) == IF use.aim \in {"key", "delayKey"} THEN Nameless ELSE use.target

BarsOf(use) ==
    CASE use.aim \in {"hover", "entity"} -> "MT" [] use.aim = "inUse" -> "MIA" [] use.aim = "wielded" -> "MIW"
      [] use.aim = "named" -> "MI" [] use.aim = "drop" -> "ID" [] OTHER -> "INFO"

\* What the older notation cannot say of a spell is written in the newer.
InBars(use) ==
    \/ use.type = "S" /\ use.aim \in {"hover", "entity", "inUse", "wielded", "named"}
    \/ use.aim \in {"drop", "info"}

\* A wrong version, to show that the properties below can fail.
FormatSlash(b) == Text("slash", b.id, b.name, SlashOf(b.use), OnTarget(b.use))

\* format_buff_item.
Format(b) ==
    IF InBars(b.use)
    THEN Text("bars", IF b.use.aim = "named" THEN b.use.target ELSE b.id, b.name, BarsOf(b.use), Nameless)
    ELSE Text("slash", b.id, b.name, SlashOf(b.use), OnTarget(b.use))

\* A wrong version, to show that the properties below can fail.
FormatLikeTheList(b) ==
    IF InBars(b.use) THEN Text("slash", "", b.name, "", Nameless)
    ELSE Text("slash", "", b.name, SlashOf(b.use), OnTarget(b.use))

\* format_command_item: always the older notation, without the number.
FormatCommand(b) ==
    IF InBars(b.use)
    THEN Text("slash", "", b.name, IF b.use.aim = "named" THEN "MI=" ELSE BarsOf(b.use),
              IF b.use.aim = "named" THEN b.use.target ELSE Nameless)
    ELSE Text("slash", "", b.name, SlashOf(b.use), OnTarget(b.use))

-------------------------------------------------------------------------------
Init ==
    /\ written \in Texts /\ command \in {written}
    /\ listed = written /\ kept = Parse(written)

\* A line of [AllState] in the left list; what is added to the right list is its
\* text there.
AddsToList ==
    /\ listed' = Format(Parse(written))
    /\ kept' = Parse(listed')
    /\ UNCHANGED <<written, command>>

\* The right list is filled from the settings, and any change of it makes the
\* settings from its texts again.
ShowsList ==
    /\ listed' = Format(kept)
    /\ UNCHANGED <<written, kept, command>>

ChangesList ==
    /\ kept' = Parse(listed)
    /\ UNCHANGED <<written, listed, command>>

\* A wrong version, to show that the properties below can fail.
SameName(entry) == entry.name = kept.name

Canonical(entry) == entry.name = kept.name /\ entry.id = kept.id

\* migrate_buff_items_against_ini, of a file in which the line may have changed
\* since the entry was added; then the list is filled.
Migrates(text) ==
    LET entry == Parse(text) IN
    /\ Canonical(entry) /\ entry.use.aim # kept.use.aim
    /\ kept' = [kept EXCEPT !.use = entry.use]
    /\ written' = text /\ listed' = Format(kept')
    /\ UNCHANGED command

\* on_status_change, apply_status_tab.
TypesCommand ==
    /\ command' = FormatCommand(Parse(command))
    /\ UNCHANGED <<written, listed, kept>>

Next == AddsToList \/ ShowsList \/ ChangesList \/ TypesCommand \/ (\E text \in Texts : text.suffix \in Suffixes /\ Migrates(text))

Spec == Init /\ [][Next]_vars

-------------------------------------------------------------------------------
TypeOK ==
    /\ written \in Texts /\ kept.name \in Names /\ kept.use.aim \in Aims /\ kept.use.type \in {"I", "S", "K"}
    /\ listed.suffix \in SlashSuffixes \cup SlashAimed \cup BarSuffixes
    /\ command.suffix \in SlashSuffixes \cup SlashAimed \cup BarSuffixes

\* An entry means what its line in the file means, however often it was shown,
\* changed with the list, saved and read again: format_buff_item loses nothing
\* that parse_buff_item would have to find (the number of a spell that is cast
\* on a named thing excepted).
KeepsItsMeaning == kept.use = Parse(written).use /\ kept.name = written.name

\* Typing a command again does not change it: what is shown after the first
\* time is stable, and it means what was typed, except that a spell for what is
\* under the mouse becomes an item (the older notation has no suffix for it).
CommandsSettle ==
    TypesCommand /\ ~(Parse(command).use.type = "S" /\ Parse(command).use.aim = "hover")
        => Parse(command').use = Parse(command).use

\* An entry whose line has changed in the file takes over the new use only if it
\* has the line's name and number: those of others stay as the player made them.
OthersKeepTheirUse == kept'.use # kept.use => kept.id = Parse(written').id

\* What makes these inductive: an entry has one of the uses that there are, and its
\* text in the list means the same.
Uses ==
    [type : {"K"}, aim : {"key", "delayKey"}, target : Keys]
    \cup [type : {"S"}, aim : {"none", "self", "hover", "inUse", "wielded"}, target : {Nameless}]
    \cup [type : {"I"}, aim : {"item", "hover", "selfItem", "drop", "info"}, target : {Nameless}]
    \cup [type : {"I"}, aim : {"inUse", "wielded"}, target : Targets \cup {Nameless}]
    \cup [type : {"I"}, aim : {"entity"}, target : Targets]
    \cup [type : {"I", "S"}, aim : {"named"}, target : Targets \cup Numbers]
NotationInvariant ==
    /\ written \in Texts /\ kept \in [id : Numbers, name : Names, use : Uses]
    /\ KeepsItsMeaning
    /\ Parse(listed).use = kept.use /\ listed.name = kept.name
    /\ Parse(command).use \in Uses
===============================================================================
