------------------------------- MODULE AuxDelete -------------------------------
(***************************************************************************)
(* The tick of the auxiliary that throws things away (aux/runtime:            *)
(* delete_tick, pick_delete_action).  Every half second it lists the bag,     *)
(* takes the first name of the list of things to delete, then of those to     *)
(* dissolve, that an item not in use goes by, and sends the packet for that   *)
(* item.  Meanwhile the player takes things up, puts them on and off, and the *)
(* server answers, or does not.                                              *)
(***************************************************************************)
EXTENDS Naturals, Sequences

CONSTANTS
    Items, Name,   \* what may be in the bag, and the name of each
    DeleteList, DissolveList, \* sequences of names
    Solvent,       \* the item that dissolves others
    Kept,          \* items that the server refuses to give up
    MaxFinds       \* bound: the player finds so many things

DeleteAssumption ==
    /\ Solvent \in Items /\ Kept \subseteq Items /\ DOMAIN Name = Items /\ MaxFinds \in Nat

VARIABLES
    on,      \* the feature is on, the player is seen to be in the world, and
             \* calls into the game work
    finds,
    bag,     \* items in the bag
    worn,    \* those that are in use; their names say so
    tick,    \* the item that is being sent away, and since when
    sent,    \* items whose packet the server has not answered
    putOn    \* history: items put on since the tick listed the bag

vars == <<on, finds, bag, worn, tick, sent, putOn>>

NoItem == [how |-> "none"]
Sending == [how : {"delete", "dissolve"}, item : Items]

TypeOK ==
    /\ on \in BOOLEAN /\ finds \in 0 .. MaxFinds
    /\ bag \subseteq Items /\ worn \subseteq bag
    /\ tick \in [pc : {"sleep", "call"}, does : Sending \cup {NoItem}]
    /\ sent \subseteq Items /\ putOn \subseteq Items

Init ==
    /\ on = TRUE /\ finds = 0
    /\ bag = Items /\ worn \in SUBSET (Items \ {Solvent})
    /\ tick = [pc |-> "sleep", does |-> NoItem]
    /\ sent = {} /\ putOn = {}

-------------------------------------------------------------------------------
(* The player and the server.                                                 *)

Switches ==
    /\ on' = ~on
    /\ UNCHANGED <<finds, bag, worn, tick, sent, putOn>>

PutsOn(i) ==
    /\ i \in bag \ (worn \cup {Solvent})
    /\ worn' = worn \cup {i} /\ putOn' = putOn \cup {i}
    /\ UNCHANGED <<on, finds, bag, tick, sent>>

TakesOff(i) ==
    /\ i \in worn
    /\ worn' = worn \ {i}
    /\ UNCHANGED <<on, finds, bag, tick, sent, putOn>>

Finds(i) ==
    /\ i \notin bag /\ finds < MaxFinds /\ finds' = finds + 1
    /\ bag' = bag \cup {i}
    /\ UNCHANGED <<on, worn, tick, sent, putOn>>

Loses(i) ==
    /\ bag' = bag \ {i} /\ worn' = worn \ {i}
    /\ UNCHANGED <<on, finds, tick, sent, putOn>>

Answers(i) ==
    /\ i \in sent
    /\ sent' = sent \ {i}
    /\ IF i \in Kept THEN UNCHANGED <<bag, worn>> ELSE bag' = bag \ {i} /\ worn' = worn \ {i}
    /\ UNCHANGED <<on, finds, tick, putOn>>

-------------------------------------------------------------------------------
(* delete_tick                                                               *)

\* A wrong version, to show that the properties below can fail.
InBag(name) == {i \in bag : Name[i] = name}

\* Items that a name of a list stands for: one that is in use has more in its
\* name and is passed over.
Safe(name) == {i \in bag \ worn : Name[i] = name}

Present(names) == {n \in DOMAIN names : Safe(names[n]) # {}}
FirstOf(names) == CHOOSE n \in Present(names) : \A m \in Present(names) : n <= m

\* A wrong version, to show that the properties below can fail.
DissolveFirst ==
    IF Present(DissolveList) # {} THEN [how |-> "dissolve", name |-> DissolveList[FirstOf(DissolveList)]]
    ELSE IF Present(DeleteList) # {} THEN [how |-> "delete", name |-> DeleteList[FirstOf(DeleteList)]]
    ELSE NoItem

Picked ==
    IF Present(DeleteList) # {} THEN [how |-> "delete", name |-> DeleteList[FirstOf(DeleteList)]]
    ELSE IF Present(DissolveList) # {} THEN [how |-> "dissolve", name |-> DissolveList[FirstOf(DissolveList)]]
    ELSE NoItem

Chooses ==
    /\ tick.pc = "sleep" /\ on /\ Picked # NoItem
    /\ Picked.how = "dissolve" => Solvent \in bag
    /\ \E i \in Safe(Picked.name) :
          /\ tick' = [pc |-> "call", does |-> [how |-> Picked.how, item |-> i]]
          \* the history of an item whose packet is still away goes on
          /\ putOn' = putOn \cap (sent \ {i})
    /\ UNCHANGED <<on, finds, bag, worn, sent>>

\* The call sends the packet, or fails; the next tick looks again.
Returns ==
    /\ tick.pc = "call"
    /\ sent' \in {sent \cup ({tick.does.item} \cap bag)} \cup (IF on THEN {} ELSE {sent})
    /\ tick' = [pc |-> "sleep", does |-> NoItem]
    /\ UNCHANGED <<on, finds, bag, worn, putOn>>

Next ==
    \/ Switches \/ Chooses \/ Returns
    \/ \E i \in Items : PutsOn(i) \/ TakesOff(i) \/ Finds(i) \/ Loses(i) \/ Answers(i)

\* The thread runs, calls end, and the server answers.
Spec ==
    /\ Init /\ [][Next]_vars
    /\ WF_vars(Chooses) /\ WF_vars(Returns)
    /\ \A i \in Items : WF_vars(Answers(i))

-------------------------------------------------------------------------------
\* Nothing that is in use is thrown away, unless it was put on after the tick
\* that sent its packet had listed the bag.
WornStays == \A i \in Items : Answers(i) /\ i \in worn /\ i \notin bag' => i \in putOn

\* What is on a list goes, unless the server keeps it or something that comes
\* before it: that is asked for again at each tick, and nothing after it is.
Order(i) ==
    LET pos(names, from) == {from + n : n \in {m \in DOMAIN names : names[m] = Name[i]}}
    IN  pos(DeleteList, 0) \cup pos(DissolveList, Len(DeleteList))
Ahead(i) == {j \in Items : \E m \in Order(j), n \in Order(i) : m <= n}
Listed == {i \in Items : Order(i) # {} /\ Ahead(i) \cap Kept = {}}
Lies(i) == on /\ i \in bag \ worn /\ Solvent \in bag
ListedGoes == \A i \in Listed : []<>~Lies(i)
===============================================================================
