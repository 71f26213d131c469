-------------------------------- MODULE AuxForm --------------------------------
(***************************************************************************)
(* The pages of the auxiliary's window and the settings (aux/lhx_window.rs).   *)
(* The window fills its widgets from the settings when it is shown, and makes  *)
(* the settings from the widgets, a whole page at a time, whenever one of them *)
(* changes.  Filling a text box raises the same event as the player who types  *)
(* in it; the flag applying tells the two apart.                               *)
(*                                                                         *)
(* Of the widgets the model has text boxes on four pages, the lists of items    *)
(* of the potions, and lists with entries that are added, moved and removed.   *)
(***************************************************************************)
EXTENDS Naturals, Sequences, SequencesExt, FiniteSets

CONSTANTS
    Rows,      \* of the page of potions
    InFile,    \* the items of the file's list, in its order
    Carried,   \* what the bag may hold
    NoItem,    \* no item chosen
    MaxChanges \* bound: of the player and of the bag

FormAssumption ==
    /\ Rows \in Nat \ {0} /\ NoItem \notin Carried \cup ToSet(InFile)
    /\ InFile \in Seq(ToSet(InFile)) \ {<<>>} /\ MaxChanges \in Nat

VARIABLES
    settings, \* AuxSettings: the numbers, the items, the choice between their lists,
              \* the buffs, what is deleted
    form,     \* the widgets
    applying, \* the flag, and the next box to be filled
    shown,    \* the window is visible, and was filled
    bag,      \* the items in the bag
    wish,     \* history: what the player last chose, by row
    changes   \* history: how many changes there were

vars == <<settings, form, applying, shown, bag, wish, changes>>

RowSet == 1 .. Rows
Things == Carried \cup ToSet(InFile)

\* The text boxes, in the order in which they are filled.
Order == [r \in RowSet |-> <<"potions", r>>] \o <<<<"status", 1>>, <<"shout", 1>>, <<"timer", 1>>, <<"timer", 2>>>>
Boxes == ToSet(Order)
BoxesOf(page) == {b \in Boxes : b[1] = page}

Unread == "?" \* a text that is no number
Texts == {Unread, "0", "5", "9"}
Lists == {"buffs", "deleted", "shouts"}

TypeOK ==
    /\ settings.text \in [Boxes -> Texts] /\ form.text \in [Boxes -> Texts]
    /\ settings.item \in [RowSet -> Things \cup {NoItem}] /\ form.item \in [RowSet -> Things \cup {NoItem}]
    /\ settings.ofBag \in BOOLEAN /\ ToSet(form.choice) \subseteq Things
    /\ \A l \in Lists : ToSet(settings.list[l]) \cup ToSet(form.list[l]) \subseteq 1 .. MaxChanges
    /\ applying.flag = (applying.next # 0) /\ applying.next \in 0 .. Len(Order)
    /\ shown \in BOOLEAN /\ bag \subseteq Carried /\ changes \in 0 .. MaxChanges

Empty == [l \in Lists |-> <<>>]

Init ==
    /\ settings = [text |-> [b \in Boxes |-> "9"], item |-> [r \in RowSet |-> Head(InFile)],
                   ofBag |-> FALSE, list |-> Empty]
    /\ form = [text |-> [b \in Boxes |-> Unread], item |-> [r \in RowSet |-> NoItem],
               choice |-> <<>>, list |-> Empty]
    /\ applying = [flag |-> FALSE, next |-> 0] /\ shown = FALSE
    /\ bag = {} /\ wish = settings.item /\ changes = 0

Changes == changes < MaxChanges /\ changes' = changes + 1
Idle == shown /\ applying.next = 0

-------------------------------------------------------------------------------
(* The handlers of what changes in the widgets: each reads its whole page.      *)

\* What is no number is 0, and 5 on the timer's page.
Number(page, text) == IF text # Unread THEN text ELSE IF page = "timer" THEN "5" ELSE "0"

Read(page, f) ==
    [b \in Boxes |-> IF b \in BoxesOf(page) THEN Number(page, f.text[b]) ELSE settings.text[b]]

\* on_potion_change: nothing for a list in which nothing is selected.
WritesPotions(f) == settings' = [settings EXCEPT !.text = Read("potions", f), !.item = f.item]

\* on_status_change: the commands of the function keys, as texts.
WritesStatus(f) == settings' = [settings EXCEPT !.text[<<"status", 1>>] = f.text[<<"status", 1>>]]

\* on_shout_change.
WritesShout(f) == settings' = [settings EXCEPT !.text = Read("shout", f)]

\* on_timer_change.
WritesTimer(f) == settings' = [settings EXCEPT !.text = Read("timer", f)]

Writes(page, f) ==
    CASE page = "potions" -> WritesPotions(f) [] page = "status" -> WritesStatus(f)
      [] page = "shout" -> WritesShout(f)     [] OTHER -> WritesTimer(f)

\* A wrong version, to show that the properties below can fail.
HeardAlways(b, f) == Writes(b[1], f)

\* The event of a text box, from the player or from filling it.
Heard(b, f) == IF applying.flag THEN UNCHANGED settings ELSE Writes(b[1], f)

-------------------------------------------------------------------------------
(* Filling the window.                                                         *)

\* refresh_inventory: the bag's items, or the file's if those are wanted or the
\* bag is empty.
ListFor(ofBag) == IF ofBag /\ bag # {} THEN SetToSeq(bag) ELSE InFile

\* A wrong version, to show that the properties below can fail.
SelectedOrFirst(item, list) == IF item \in ToSet(list) THEN item ELSE Head(list)

\* apply_potion_combo_selections: what is not in the list is not selected.
Selected(item, list) == IF item \in ToSet(list) THEN item ELSE NoItem

\* The lists forget what was selected when they are filled again.
Refilled(ofBag) ==
    [form EXCEPT !.choice = ListFor(ofBag),
                 !.item = [r \in RowSet |-> Selected(settings.item[r], ListFor(ofBag))]]

\* apply_settings, up to the boxes.
Shows ==
    /\ ~shown /\ shown' = TRUE
    /\ applying' = [flag |-> TRUE, next |-> 1]
    /\ form' = [Refilled(settings.ofBag) EXCEPT !.list = settings.list]
    /\ UNCHANGED <<settings, bag, wish, changes>>

\* apply_potion_tab and those of the other pages: the text of a box is set, and
\* its event is handled before the next box is filled.
FillsBox ==
    /\ applying.next > 0
    /\ LET b == Order[applying.next]
           f == [form EXCEPT !.text[b] = settings.text[b]]
       IN form' = f /\ Heard(b, f)
    /\ applying' = IF applying.next = Len(Order) THEN [flag |-> FALSE, next |-> 0]
                   ELSE [applying EXCEPT !.next = @ + 1]
    /\ UNCHANGED <<shown, bag, wish, changes>>

\* on_close, on_visible_tick: hidden, and filled again when it is shown.
Hides ==
    /\ Idle /\ shown' = FALSE
    /\ UNCHANGED <<settings, form, applying, bag, wish, changes>>

\* on_inv_refresh_tick: every 500 ms with the bag's items, unless a list is open.
Refills ==
    /\ Idle /\ settings.ofBag /\ form' = Refilled(TRUE)
    /\ UNCHANGED <<settings, applying, shown, bag, wish, changes>>

-------------------------------------------------------------------------------
(* The player, and the bag.                                                    *)

Types(b, text) ==
    /\ Idle /\ Changes
    /\ LET f == [form EXCEPT !.text[b] = text] IN form' = f /\ Heard(b, f)
    /\ UNCHANGED <<applying, shown, bag, wish>>

\* An item of the list as it is on the screen.
Chooses(r, i) ==
    /\ Idle /\ i \in ToSet(form.choice) /\ Changes
    /\ LET f == [form EXCEPT !.item[r] = i] IN form' = f /\ WritesPotions(f)
    /\ wish' = [wish EXCEPT ![r] = i]
    /\ UNCHANGED <<applying, shown, bag>>

\* on_show_inv_toggle; the boxes are filled with what they hold.
TogglesList ==
    /\ Idle /\ Changes
    /\ settings' = [settings EXCEPT !.ofBag = ~@]
    /\ form' = [Refilled(~settings.ofBag) EXCEPT
                    !.text = [b \in Boxes |-> IF b[1] = "potions" THEN settings.text[b] ELSE form.text[b]]]
    /\ UNCHANGED <<applying, shown, bag, wish>>

\* write_buff_items, write_delete_lists, write_shout_messages.
WritesList(l, entries) ==
    /\ form' = [form EXCEPT !.list[l] = entries]
    /\ settings' = [settings EXCEPT !.list[l] = form'.list[l]]
    /\ UNCHANGED <<applying, shown, bag, wish>>

\* on_buff_add, add_to_delete_list, on_shout_add; entries are told apart by when
\* they were added.
Adds(l) == Idle /\ Changes /\ WritesList(l, Append(form.list[l], changes'))

\* on_buff_remove, remove_from_delete_list, on_shout_remove.
Removes(l, k) ==
    /\ Idle /\ k \in DOMAIN form.list[l] /\ Changes
    /\ WritesList(l, RemoveAt(form.list[l], k))

\* A wrong version, to show that the properties below can fail.
MovedOver(list, k, to) == [list EXCEPT ![to] = list[k]]

Moved(list, k, to) == [list EXCEPT ![k] = list[to], ![to] = list[k]]

\* on_buff_up, on_buff_down.
Moves(k, to) ==
    /\ Idle /\ {k, to} \subseteq DOMAIN form.list["buffs"] /\ to \in {k - 1, k + 1} /\ Changes
    /\ WritesList("buffs", Moved(form.list["buffs"], k, to))

BagChanges ==
    /\ Changes
    /\ \E i \in Carried : bag' = IF i \in bag THEN bag \ {i} ELSE bag \cup {i}
    /\ UNCHANGED <<settings, form, applying, shown, wish>>

Player ==
    \/ \E b \in Boxes, text \in Texts : Types(b, text)
    \/ \E r \in RowSet, i \in Things : Chooses(r, i)
    \/ TogglesList \/ Hides
    \/ \E l \in Lists : Adds(l) \/ \E k \in 1 .. MaxChanges : Removes(l, k)
    \/ \E k, to \in 1 .. MaxChanges : Moves(k, to)

Next == Shows \/ FillsBox \/ Refills \/ BagChanges \/ Player

Spec == Init /\ [][Next]_vars

-------------------------------------------------------------------------------
\* Filling the window changes no setting, although every box that is filled
\* raises the event that writes its whole page, of which the boxes that come
\* later still hold what they had.
FillingKeepsSettings == settings' # settings => changes' # changes

\* A row never uses another item than the player chose for it: the lists are
\* filled again under it, from the bag or from the file, in another order and
\* without what was used up; then the row has its item or none.
NeverAnotherItem == \A r \in RowSet : settings.item[r] \in {wish[r], NoItem}

\* The lists on the screen are those of the settings as soon as the window is
\* shown, and no buff comes twice or gets lost by being moved.
ListsAgree ==
    /\ shown => form.list = settings.list
    /\ \A l \in Lists : IsInjective(settings.list[l])

\* What makes these inductive: the rows of the page have the items of the settings,
\* and the flag is set as long as a box is still to be filled.  The entries of a list
\* carry the numbers of the changes that made them.
Items == [RowSet -> Things \cup {NoItem}]
Entries == [Lists -> Seq(1 .. changes)]
FormTypes ==
    /\ changes \in Nat /\ wish \in Items /\ shown \in BOOLEAN
    /\ settings \in [text : [Boxes -> Texts], item : Items, ofBag : BOOLEAN, list : Entries]
    /\ form \in [text : [Boxes -> Texts], item : Items, choice : {form.choice}, list : Entries]
    /\ applying \in [flag : BOOLEAN, next : Nat]
FormInvariant ==
    /\ FormTypes /\ NeverAnotherItem /\ ListsAgree
    /\ \A r \in RowSet : form.item[r] \in {wish[r], NoItem}
    /\ applying.next > 0 => applying.flag
===============================================================================
