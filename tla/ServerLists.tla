------------------------------ MODULE ServerLists ------------------------------
(***************************************************************************)
(* The encoder (bin/encoder.rs): its form, the servers it keeps in memory,     *)
(* and the files it writes.  The form shows one slot at a time; encoding puts  *)
(* the slot that it shows into list.txt and the options into config.ini; a new *)
(* pair of keys goes at once into the file for the server and into the slot.   *)
(*                                                                         *)
(* list.txt has no place for a slot without a server: what is read from it     *)
(* moves up.  A server is its name and its key; a key is the number of the      *)
(* pair.                                                                     *)
(***************************************************************************)
EXTENDS Naturals, Sequences, SequencesExt

CONSTANTS
    Slots,   \* MAX_SERVERS
    Typed,   \* names that are typed, as numbers; Server<i> is the name i
    NoName,  \* the empty name
    MaxKeys, \* bound: pairs of keys
    MaxSteps \* bound: of the user

ListsAssumption ==
    /\ Slots \in Nat \ {0} /\ NoName \in Typed /\ MaxKeys \in Nat /\ MaxSteps \in Nat
    /\ \A i \in 1 .. Slots : i \notin Typed

VARIABLES
    list,    \* list.txt: whether it can be parsed, its servers
    config,  \* config.ini: "none", "garbled", "old" with servers in it; "default" or
             \* "chosen" options
    server,  \* pack.properties: the number of the key, 0 if there is none
    slots,   \* the servers in memory
    current, \* the slot in the form
    form,    \* the name in the form; the options
    keys,    \* how many pairs of keys there were
    saved,   \* history: what each slot has put into list.txt
    typed,   \* history: what was typed last in each slot
    past     \* history: steps; servers moved up or cut off; a file that could not be
             \* read or written; a pair of keys that is in no slot; the slot of the last pair

vars == <<list, config, server, slots, current, form, keys, saved, typed, past>>

SlotSet == 1 .. Slots
None == [name |-> NoName, key |-> 0]
Servers == [name : Typed \cup SlotSet, key : 0 .. MaxKeys]

TypeOK ==
    /\ list.readable \in BOOLEAN /\ ToSet(list.servers) \subseteq Servers /\ Len(list.servers) <= Slots
    /\ config \in {"none", "garbled", "old", "default", "chosen"}
    /\ server \in 0 .. MaxKeys /\ keys \in 0 .. MaxKeys
    /\ slots \in [SlotSet -> Servers] /\ current \in SlotSet
    /\ form.name \in Typed \cup SlotSet /\ form.options \in {"default", "chosen"}
    /\ saved \in [SlotSet -> Servers] /\ typed \in [SlotSet -> Typed \cup SlotSet]
    /\ past.steps \in 0 .. MaxSteps /\ past.of \in 0 .. Slots

-------------------------------------------------------------------------------
\* on_load: the list's servers, then slots with the names Server1, Server2, ...
Filled(servers) ==
    [i \in SlotSet |-> IF i <= Len(servers) THEN servers[i] ELSE [name |-> i, key |-> 0]]

\* A list that cannot be read is taken for an empty one.
Existing == IF list.readable THEN list.servers ELSE <<>>

\* The servers in an old config.ini are taken if there are none in list.txt; here it
\* is full of servers that have not the names given above.
Old == [i \in SlotSet |-> [name |-> Slots + 1 - i, key |-> 0]]

Loaded == Filled(IF Existing = <<>> /\ config = "old" THEN Old ELSE Existing)

\* The options that were saved, or the defaults.
LoadedOptions == IF config = "chosen" THEN "chosen" ELSE "default"

Init ==
    /\ list \in [readable : {TRUE}, servers : {<<>>, <<[name |-> 1, key |-> 0]>>}]
    /\ config \in {"none", "old", "default", "chosen"} /\ server = 0
    /\ slots = Loaded /\ current = 1
    /\ form = [name |-> Loaded[1].name, options |-> LoadedOptions]
    /\ keys = 0
    /\ saved = [i \in SlotSet |-> IF i <= Len(list.servers) THEN list.servers[i] ELSE None]
    /\ typed = [i \in SlotSet |-> Loaded[i].name]
    /\ past = [steps |-> 0, moved |-> FALSE, unread |-> FALSE, lost |-> FALSE, of |-> 0]

Step(p) == past.steps < MaxSteps /\ past' = [p EXCEPT !.steps = @ + 1]

\* flush_form_to_server.
Flushed == [slots EXCEPT ![current].name = form.name]

Types(name) ==
    /\ Step(past) /\ form' = [form EXCEPT !.name = name]
    /\ typed' = [typed EXCEPT ![current] = name]
    /\ UNCHANGED <<list, config, server, slots, current, keys, saved>>

ChoosesOptions ==
    /\ Step(past) /\ form' = [form EXCEPT !.options = "chosen"]
    /\ UNCHANGED <<list, config, server, slots, current, keys, saved, typed>>

\* A wrong version, to show that the properties below can fail.
FlushedLate(i) == [slots EXCEPT ![i].name = form.name]

\* on_server_combo_change: what the form says is kept before it shows another.
Kept(i) == Flushed

Selects(i) ==
    /\ i # current /\ Step(past)
    /\ slots' = Kept(i) /\ current' = i
    /\ form' = [form EXCEPT !.name = slots'[i].name]
    /\ UNCHANGED <<list, config, server, keys, saved, typed>>

-------------------------------------------------------------------------------
(* on_save.                                                                    *)

\* A wrong version, to show that the properties below can fail.
PutOneBefore(this) ==
    IF current \in 2 .. Len(Existing) + 1 THEN [Existing EXCEPT ![current - 1] = this] ELSE Append(Existing, this)

\* The server takes its slot's place in the list, or the next one that is free.
Put(this) ==
    IF current <= Len(Existing) THEN [Existing EXCEPT ![current] = this] ELSE Append(Existing, this)

\* The server's file for config.ini is written after list.txt; neither is
\* undone if the other fails.
Saves(config1) ==
    /\ Flushed[current].name # NoName /\ Step([past EXCEPT
           !.moved = @ \/ current > Len(Existing) + 1 \/ ~list.readable,
           !.unread = @ \/ ~list.readable])
    /\ slots' = Flushed
    /\ Len(Put(Flushed[current])) <= Slots
    /\ list' = [readable |-> TRUE, servers |-> Put(Flushed[current])]
    /\ saved' = [saved EXCEPT ![current] = Flushed[current]]
    /\ config' = config1
    /\ UNCHANGED <<server, current, form, keys, typed>>

SavesBoth == Saves(form.options)

\* config.ini cannot be opened, or is cut off while it is written.
SavesList == \E c \in {config, "garbled"} : Saves(c)

\* An empty name is refused; a list that cannot be opened leaves all as it was.
SaveFails ==
    /\ Step(past) /\ slots' = Flushed
    /\ UNCHANGED <<list, config, server, current, form, keys, saved, typed>>

\* The file is emptied before it is written: a write that fails leaves the first
\* servers, or half of one that cannot be read.
CutOff ==
    LET written == Put(Flushed[current])
    IN  /\ Flushed[current].name # NoName /\ Len(written) <= Slots
        /\ Step([past EXCEPT !.moved = TRUE, !.unread = TRUE])
        /\ slots' = Flushed
        /\ \/ \E n \in 0 .. Len(written) - 1 : list' = [readable |-> TRUE, servers |-> SubSeq(written, 1, n)]
           \/ list' = [list EXCEPT !.readable = FALSE]
        /\ UNCHANGED <<config, server, current, form, keys, saved, typed>>

-------------------------------------------------------------------------------
\* on_keygen: the slot in memory, the file for the server.  A pair of an earlier
\* time is gone for good.
Generates(written) ==
    /\ keys < MaxKeys /\ Step([past EXCEPT !.lost = ~written, !.of = current])
    /\ keys' = keys + 1
    /\ slots' = [Flushed EXCEPT ![current].key = keys']
    /\ server' = IF written THEN keys' ELSE server
    /\ UNCHANGED <<list, config, current, form, saved, typed>>

\* on_load: what was typed or generated since the last save is forgotten.
Loads ==
    /\ Step([past EXCEPT !.moved = FALSE, !.unread = @ \/ ~list.readable,
                         !.lost = @ \/ (server # 0 /\ \A i \in SlotSet : Loaded[i].key # server),
                         !.of = IF \E i \in SlotSet : Loaded[i].key = server THEN CHOOSE i \in SlotSet : Loaded[i].key = server
                                ELSE 0])
    /\ slots' = Loaded /\ current' = 1
    /\ form' = [name |-> Loaded[1].name, options |-> LoadedOptions]
    /\ saved' = [i \in SlotSet |-> IF i <= Len(Existing) THEN Existing[i] ELSE None]
    /\ typed' = [i \in SlotSet |-> Loaded[i].name]
    /\ UNCHANGED <<list, config, server, keys>>

\* External: a file is damaged.
Garbles ==
    /\ Step(past)
    /\ \/ list' = [list EXCEPT !.readable = FALSE] /\ config' = config
       \/ config' = "garbled" /\ list' = list
    /\ UNCHANGED <<server, slots, current, form, keys, saved, typed>>

User ==
    \/ \E name \in Typed : Types(name)
    \/ ChoosesOptions \/ SavesBoth \/ SavesList \/ SaveFails \/ CutOff \/ Loads
    \/ \E i \in SlotSet : Selects(i)
    \/ \E written \in BOOLEAN : Generates(written)

Next == User \/ Garbles

Spec == Init /\ [][Next]_vars

-------------------------------------------------------------------------------
\* A slot has the name that was typed in it last, whatever slots were shown in
\* between and whatever was saved and generated meanwhile.
TypedIsKept ==
    \A i \in SlotSet : (IF i = current THEN form.name ELSE slots[i].name) = typed[i]

\* "Other slots are kept": what each slot has put into the list stays there
\* until the slot puts something else.
OthersAreKept ==
    list.readable /\ ~past.unread => \A i \in SlotSet : saved[i] # None => saved[i] \in ToSet(list.servers)

\* So it is as long as every slot was encoded after all those before it: a list
\* cannot leave a place free.  It must have been readable, too.
KeptWithoutGaps == ~past.moved => OthersAreKept

\* The key that the server was given is that of a slot, and once that slot is
\* encoded the list has it for the players: no later save of another slot takes
\* it away.
ServerKeyReachesList ==
    /\ server # 0 /\ ~past.lost => slots[past.of].key = server
    /\ server # 0 /\ ~past.lost /\ ~past.moved /\ list.readable /\ saved[past.of].key = server
           => \E i \in 1 .. Len(list.servers) : list.servers[i].key = server

\* What makes these inductive: as long as nothing moves up each slot has its own place
\* in the list, and the last pair of keys is that of its slot.
ListTypes ==
    /\ list \in [readable : BOOLEAN, servers : Seq(Servers)]
    /\ server \in Nat /\ keys \in 0 .. MaxKeys
    /\ slots \in [SlotSet -> Servers] /\ current \in SlotSet
    /\ form \in [name : Typed \cup SlotSet, options : {"default", "chosen"}]
    /\ saved \in [SlotSet -> Servers] /\ typed \in [SlotSet -> Typed \cup SlotSet]
    /\ past \in [steps : Nat, moved : BOOLEAN, unread : BOOLEAN, lost : BOOLEAN, of : 0 .. Slots]
InItsPlace ==
    ~past.moved /\ list.readable =>
        \A i \in SlotSet : saved[i] # None => i <= Len(list.servers) /\ list.servers[i] = saved[i]
LastPair == server # 0 /\ ~past.lost => past.of \in SlotSet /\ slots[past.of].key = server
ListsInvariant == ListTypes /\ TypedIsKept /\ InItsPlace /\ LastPair
===============================================================================
