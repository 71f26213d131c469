------------------------------ MODULE SmoothRun ------------------------------
(***************************************************************************)
(* The preparation of the list of shapes (smooth_run): a client that walks   *)
(* only shall show a run of two steps, left and right.  The list is read      *)
(* (parse), each sprite gets a role (classify), the frames of both steps are   *)
(* looked for (extract), every walker is given the frames of a runner of its   *)
(* look (pair), and the list is written with them in the slots 98 and 99      *)
(* (emit).                                                                 *)
(*                                                                         *)
(* A line is a record of what the functions of helpers.rs find in it.  Of an  *)
(* action's frames there are the first two pictures, of a name the class that  *)
(* the tests of names tell apart.  No two sprites of a file share an id.      *)
(***************************************************************************)
EXTENDS Integers, Sequences, FiniteSets, SequencesExt

CONSTANTS Files    \* what may lie in the folder: [form, sound, prepared, lines]

VARIABLES file,    \* the file
          phase,   \* how far it is
          sprites, \* SpriteFile.sprites
          roles, runs, pairs,
          output   \* the lines the game gets

vars == <<file, phase, sprites, roles, runs, pairs, output>>

WalkActions == {0, 4, 11, 20, 24, 40, 46, 50, 54, 58, 62, 83, 88, 119}
InlineScanActions == <<0, 4, 11, 20, 24, 40, 46, 50, 54, 58, 62, 83, 88, 119, 32, 33>>
OverflowSlot == 121      \* the client knows the actions up to 120
RunL == 98
RunR == 99
CrossSpriteGap == 16
NoRate == 0
NoGfx == 0
Nothing == [none |-> TRUE]

Left == {"runl", "runl sword"}     \* what starts with "runl"
Right == {"runr", "runr sword"}
Fast == {"walkfast"}
CleanRunSource == {"", "walk", "runl", "runr"} \cup Fast
ExplicitRunSource == Left \cup Right \cup Fast \cup {"runone"}
LRWalk == Left \cup Right \cup Fast \cup {"runone"}

Init ==
    /\ file \in Files
    /\ phase = "load"
    /\ sprites = <<>> /\ roles = <<>> /\ runs = <<>> /\ pairs = <<>> /\ output = <<>>

-----------------------------------------------------------------------------
(* Loading: a .pak is opened only if its seal is good, anything else is taken  *)
(* as it is.                                                               *)

Load ==
    /\ phase = "load"
    /\ IF file.form # "pak" \/ (file.sound /\ ~ file.prepared)
         THEN phase' = "loaded" /\ output' = file.lines
         ELSE phase' = (IF file.sound THEN "parse" ELSE "refused") /\ UNCHANGED output
    /\ UNCHANGED <<file, sprites, roles, runs, pairs>>

-----------------------------------------------------------------------------
(* Parsing.                                                                *)

Header(lines, i) == lines[i].kind = "sprite"
HeaderOf(lines, i) == SelectLastInSubSeq(lines, 1, i, LAMBDA x : x.kind = "sprite")   \* 0: before the first

\* cur_framerate at a line: forgotten where a sprite begins.
RateAt(lines, i) ==
    LET r == SelectLastInSubSeq(lines, HeaderOf(lines, i), i, LAMBDA x : x.kind = "rate")
    IN  IF r = 0 THEN NoRate ELSE lines[r].rate

ActionAt(lines, i) ==
    LET x == lines[i]
    IN  [line |-> i, base |-> x.base, variant |-> x.variant, name |-> x.name, content |-> x.content,
         rate |-> RateAt(lines, i)]

\* Of the variants only -1 and -2 are taken.
Captured(x) == x.kind = "action" /\ x.variant \in {0, 1, 2}

\* Actions in the line of the header itself.
InlineActions(lines, h) ==
    LET within == SelectSeq(InlineScanActions, LAMBDA b : \E x \in ToSet(lines[h].inline) : x.base = b)
    IN  [k \in DOMAIN within |->
            LET x == lines[h].inline[SelectInSeq(lines[h].inline, LAMBDA y : y.base = within[k])]
            IN  [line |-> h, base |-> x.base, variant |-> 0, name |-> x.name, content |-> x.content, rate |-> NoRate]]

SpriteAt(lines, h) ==
    LET rest == SelectSeq([i \in DOMAIN lines |-> i], LAMBDA i : Captured(lines[i]) /\ HeaderOf(lines, i) = h)
    IN  [sid |-> lines[h].sid, header |-> h, count |-> lines[h].count, gfx |-> lines[h].gfx,
         actions |-> InlineActions(lines, h) \o [k \in DOMAIN rest |-> ActionAt(lines, rest[k])]]

Parsed(lines) ==
    LET headers == SelectSeq([i \in DOMAIN lines |-> i], LAMBDA i : Header(lines, i))
    IN  [k \in DOMAIN headers |-> SpriteAt(lines, headers[k])]

Parse ==
    /\ phase = "parse" /\ phase' = "classify"
    /\ sprites' = Parsed(file.lines)
    /\ UNCHANGED <<file, roles, runs, pairs, output>>

-----------------------------------------------------------------------------
(* Roles.                                                                  *)

First(actions) == IF actions = <<>> THEN Nothing ELSE actions[1]
Plain(s, base) == First(SelectSeq(s.actions, LAMBDA a : a.variant = 0 /\ a.base = base))
Named(s, names) == First(SelectSeq(s.actions, LAMBDA a : a.variant = 0 /\ a.name \in names))
Dash(s, variant) == First(SelectSeq(s.actions, LAMBDA a : a.variant = variant /\ a.base < OverflowSlot))

Spr(a) == a.content.rows[1]
FullTurn(a) == a.content.dir = 1 /\ a.content.fc = 8
Gap(a, b) == IF Spr(a) < Spr(b) THEN Spr(b) - Spr(a) ELSE Spr(a) - Spr(b)

\* The one starts where the other goes on, and the other way round.
Interleaved(c, d) ==
    /\ c.dir = d.dir /\ c.fc = d.fc /\ Len(c.rows) = Len(d.rows) /\ Len(c.rows) >= 2
    /\ c.rows[1] # d.rows[1]
    /\ \A i \in 2..Len(c.rows) : c.rows[i] = d.rows[1] /\ d.rows[i] = c.rows[1]

Steps(a, b) == a # Nothing /\ b # Nothing /\ FullTurn(a) /\ FullTurn(b) /\ Gap(a, b) = 8

TemplateA(s) ==
    LET a == Plain(s, 0) b == Plain(s, 4)
    IN  /\ Steps(a, b)
        /\ a.name \in CleanRunSource \/ b.name \in CleanRunSource \/ Interleaved(a.content, b.content)

HasRun(s) ==
    \/ Dash(s, 1) # Nothing \/ Dash(s, 2) # Nothing
    \/ Named(s, Left \cup Right) # Nothing
    \/ Steps(Plain(s, 32), Plain(s, 33))
    \/ TemplateA(s)

HasWalk(s) ==
    \E a \in ToSet(s.actions) :
        a.variant = 0 /\ a.base \in WalkActions /\ ~ (HasRun(s) /\ a.name \in Left \cup Right)

RoleAlone(s) ==
    CASE HasWalk(s) /\ HasRun(s) -> IF TemplateA(s) THEN "Run" ELSE "Both"
      [] HasWalk(s) /\ ~ HasRun(s) -> "Walk"
      [] ~ HasWalk(s) /\ HasRun(s) -> "Run"
      [] OTHER -> "None"

\* Those of one look whose pictures lie far behind the first ones are runners.
TemplateB(all, s) ==
    LET a == Plain(s, 0) b == Plain(s, 4)
    IN  /\ s.gfx # NoGfx /\ a # Nothing
        /\ \E t \in ToSet(all) : /\ t.gfx = s.gfx /\ Plain(t, 0) # Nothing
                                 /\ Spr(a) >= Spr(Plain(t, 0)) + CrossSpriteGap
        /\ IF b # Nothing
             THEN Interleaved(a.content, b.content) \/ {a.name, b.name} \cap ExplicitRunSource # {}
             ELSE a.content.fc = 8 /\ a.name \in ExplicitRunSource

Sids(all) == {s.sid : s \in ToSet(all)}
Of(all, sid) == all[SelectInSeq(all, LAMBDA s : s.sid = sid)]

Roles(all) ==
    [n \in Sids(all) |-> IF TemplateB(all, Of(all, n)) THEN "Run" ELSE RoleAlone(Of(all, n))]

Classify ==
    /\ phase = "classify" /\ phase' = "extract"
    /\ roles' = Roles(sprites)
    /\ UNCHANGED <<file, sprites, runs, pairs, output>>

-----------------------------------------------------------------------------
(* The frames of both steps: the first convention that fits.                 *)

Content(a) == IF a = Nothing THEN Nothing ELSE a.content
Rate(a) == IF a = Nothing THEN NoRate ELSE a.rate
OrElse(r, q) == IF r = NoRate THEN q ELSE r
RunPair(l, r, rate, s) == [l |-> Content(l), r |-> Content(r), rate |-> rate, count |-> s.count]
CleanTemplateA(s) ==
    /\ Steps(Plain(s, 0), Plain(s, 4))
    /\ {Plain(s, 0).name, Plain(s, 4).name} \cap CleanRunSource # {}
WalkRate(s) == OrElse(Rate(Plain(s, 0)), Rate(Plain(s, 4)))
TemplateRate(s) == IF CleanTemplateA(s) THEN WalkRate(s) ELSE NoRate

ByDash(s) == RunPair(Dash(s, 1), Dash(s, 2), NoRate, s)
ByName(s) == RunPair(Named(s, Left), Named(s, Right), OrElse(Rate(Named(s, Left)), Rate(Named(s, Right))), s)
By32And33(s) ==
    LET a == Plain(s, 32) b == Plain(s, 33)
    IN  IF Spr(a) < Spr(b) THEN RunPair(a, b, TemplateRate(s), s) ELSE RunPair(b, a, TemplateRate(s), s)

\* The walk itself is a run: one action, two that interleave, or the clean ones of
\* two whose pictures are a step apart.
ByWalk(s, role) ==
    LET a == Plain(s, 0) b == Plain(s, 4) only == IF a = Nothing THEN b ELSE a
        clean(x) == IF x.name \in CleanRunSource THEN x ELSE Nothing
    IN  CASE a = Nothing /\ b = Nothing -> Nothing
          [] (a = Nothing) # (b = Nothing) ->
               IF role = "Run" /\ FullTurn(only) /\ only.name \in CleanRunSource
                 THEN RunPair(a, b, only.rate, s) ELSE Nothing
          [] a # Nothing /\ b # Nothing ->
               CASE role = "Run" /\ Interleaved(a.content, b.content) -> RunPair(a, b, WalkRate(s), s)
                 [] CleanTemplateA(s) /\ ~ (role = "Run" /\ Interleaved(a.content, b.content)) ->
                      RunPair(clean(a), clean(b), WalkRate(s), s)
                 [] OTHER -> Nothing

ExtractOne(s, role) ==
    CASE Dash(s, 1) # Nothing \/ Dash(s, 2) # Nothing -> ByDash(s)
      [] Named(s, Left \cup Right) # Nothing /\ Dash(s, 1) = Nothing /\ Dash(s, 2) = Nothing -> ByName(s)
      [] OTHER -> IF Steps(Plain(s, 32), Plain(s, 33)) THEN By32And33(s) ELSE ByWalk(s, role)

WithRate(p, s) ==
    IF p # Nothing THEN [p EXCEPT !.rate = OrElse(@, TemplateRate(s))] ELSE p
Runs(all, role) == [n \in Sids(all) |-> WithRate(ExtractOne(Of(all, n), role[n]), Of(all, n))]

Extract ==
    /\ phase = "extract" /\ phase' = "pair"
    /\ runs' = Runs(sprites, roles)
    /\ UNCHANGED <<file, sprites, roles, pairs, output>>

-----------------------------------------------------------------------------
(* Who runs with whose frames: one's own, then those of one's look, then those *)
(* of a runner that names one's id as its look; who has none of these may be   *)
(* a walker whose two walks are a run.                                       *)

\* A wrong version, to show that the properties below can fail.
FillOver(p, q) ==
    [p EXCEPT !.l = IF q.l = Nothing THEN @ ELSE q.l, !.r = IF q.r = Nothing THEN @ ELSE q.r,
              !.rate = OrElse(q.rate, @)]
\* What is missing in p is taken from q.
Fill(p, q) ==
    [p EXCEPT !.l = IF @ = Nothing THEN q.l ELSE @, !.r = IF @ = Nothing THEN q.r ELSE @,
              !.rate = OrElse(@, q.rate)]
FillOnly(p, q) ==
    CASE q = Nothing -> p
      [] p = Nothing -> q
      [] OTHER -> Fill(p, q)
\* A wrong version, to show that the properties below can fail.
FirstTakesAll(p, q) == IF p = Nothing THEN q ELSE p
FillAndGrow(p, q) ==
    CASE q = Nothing -> p
      [] p = Nothing -> q
      [] OTHER -> [Fill(p, q) EXCEPT !.count = IF @ < q.count THEN q.count ELSE @]

Walker(role, n) == role[n] \in {"Walk", "Both"}
OwnPair(role, run, n) == IF role[n] \in {"Both", "Run"} THEN run[n] ELSE Nothing
Sorted(S) == SetToSortSeq(S, LAMBDA a, b : a < b)
RunnersOf(all, role, gfx) == {n \in Sids(all) : role[n] = "Run" /\ Of(all, n).gfx = gfx}
RunsOf(run, ids) == [k \in DOMAIN ids |-> run[ids[k]]]

\* A wrong version, to show that the properties below can fail.
FromAnyLook(all, role, run, n) ==
    LET own == OwnPair(role, run, n)
    IN  IF Walker(role, n)
          THEN FoldLeft(FillAndGrow, own, RunsOf(run, Sorted(RunnersOf(all, role, Of(all, n).gfx)))) ELSE own
\* A wrong version, to show that the properties below can fail.
FromLookAsListed(all, role, run, n) ==
    LET own == OwnPair(role, run, n) gfx == Of(all, n).gfx
        listed == SelectSeq([k \in DOMAIN all |-> all[k].sid], LAMBDA m : m \in RunnersOf(all, role, gfx))
    IN  IF Walker(role, n) /\ gfx # NoGfx THEN FoldLeft(FillAndGrow, own, RunsOf(run, listed)) ELSE own
FromLook(all, role, run, n) ==
    LET own == OwnPair(role, run, n) gfx == Of(all, n).gfx
    IN  IF Walker(role, n) /\ gfx # NoGfx
          THEN FoldLeft(FillAndGrow, own, RunsOf(run, Sorted(RunnersOf(all, role, gfx))))
          ELSE own
FromPointer(all, role, run, n) ==
    LET far == FromLook(all, role, run, n)
    IN  IF Walker(role, n) THEN FoldLeft(FillOnly, far, RunsOf(run, Sorted(RunnersOf(all, role, n)))) ELSE far
BuiltinLR(s) ==
    LET a == Plain(s, 0) b == Plain(s, 4)
    IN  IF a # Nothing /\ b # Nothing /\ a.name \in LRWalk /\ Spr(a) # Spr(b) /\ a.content.fc = b.content.fc
          THEN RunPair(a, b, WalkRate(s), s) ELSE Nothing

Pairs(all, role, run) ==
    [n \in Sids(all) |->
        LET p == FromPointer(all, role, run, n) IN IF p = Nothing THEN BuiltinLR(Of(all, n)) ELSE p]

PairUp ==
    /\ phase = "pair" /\ phase' = "emit"
    /\ pairs' = Pairs(sprites, roles, runs)
    /\ UNCHANGED <<file, sprites, roles, runs, output>>

-----------------------------------------------------------------------------
(* Writing.  The digits of the number of pictures are replaced where the line  *)
(* has them first, which may be in the id: clash.                            *)

\* A wrong version, to show that the properties below can fail.
VariantsSkipped(x) == x.kind = "action" /\ (x.variant # 0 \/ x.base >= OverflowSlot)
Skipped(x) ==
    \/ x.kind = "action" /\ x.variant \in {1, 2}
    \/ x.kind = "action" /\ x.variant = 0 /\ x.base >= OverflowSlot
Recounted(x, count) == IF x.clash THEN [x EXCEPT !.sid = x.sid + count] ELSE [x EXCEPT !.count = count]
LastKept(lines, h) ==
    LET ends == {i \in h..Len(lines) : HeaderOf(lines, i) = h /\ ~ Skipped(lines[i])}
    IN  CHOOSE i \in ends : \A j \in ends : j =< i

SlotLine(slot, content) ==
    [kind |-> "action", base |-> slot, variant |-> 0, name |-> "walk", content |-> content]
RateLine(rate) == [kind |-> "rate", rate |-> rate]
Injected(p) ==
    (IF (p.l # Nothing \/ p.r # Nothing) /\ p.rate # NoRate THEN <<RateLine(p.rate)>> ELSE <<>>)
    \o (IF p.l # Nothing THEN <<SlotLine(RunL, p.l)>> ELSE <<>>)
    \o (IF p.r # Nothing THEN <<SlotLine(RunR, p.r)>> ELSE <<>>)

\* A header that is rewritten is done with, even if it is the sprite's last line.
Emitted(lines, pair, i) ==
    LET x == lines[i] h == HeaderOf(lines, i) p == IF h = 0 THEN Nothing ELSE pair[lines[h].sid]
    IN  CASE h = 0 -> <<x>>
          [] h # 0 /\ Skipped(x) -> <<>>
          [] h = i /\ p # Nothing /\ p.count > x.count -> <<Recounted(x, p.count)>>
          [] OTHER -> <<x>> \o (IF p # Nothing /\ LastKept(lines, h) = i THEN Injected(p) ELSE <<>>)
Written(lines, pair) == FlattenSeq([i \in DOMAIN lines |-> Emitted(lines, pair, i)])

Emit ==
    /\ phase = "emit" /\ phase' = "done"
    /\ output' = Written(file.lines, pairs)
    /\ UNCHANGED <<file, sprites, roles, runs, pairs>>

Next == Load \/ Parse \/ Classify \/ Extract \/ PairUp \/ Emit
Spec == Init /\ [][Next]_vars

-----------------------------------------------------------------------------
(* What holds.                                                             *)

TypeOK ==
    /\ file \in Files
    /\ phase \in {"load", "loaded", "refused", "parse", "classify", "extract", "pair", "emit", "done"}
    /\ \A s \in ToSet(sprites) : s.sid \in Nat /\ \A a \in ToSet(s.actions) : a.line \in DOMAIN file.lines
    /\ roles = <<>> \/ roles \in [Sids(sprites) -> {"Walk", "Run", "Both", "None"}]
    /\ \A f \in {runs, pairs} : f = <<>> \/ DOMAIN f = Sids(sprites)

Readable(x) == x.kind = "action" => x.variant \notin {1, 2} /\ x.base =< 120
Given(x) == x.kind # "rate" /\ ~ (x.kind = "action" /\ x.base \in {98, 99})
Uncounted(x) ==
    IF x.kind = "sprite" THEN [x EXCEPT !.count = 0, !.sid = IF x.clash THEN 0 ELSE @] ELSE x
Bare(lines) ==
    LET given == SelectSeq(lines, Given) IN [i \in DOMAIN given |-> Uncounted(given[i])]

\* Every line that the client can read stays, in its place, and nothing is added
\* but the two steps and their frame rate (emit).
LinesStay == phase = "done" => Bare(output) = Bare(SelectSeq(file.lines, Readable))

\* A sprite that brings frames of a run of its own shows these, whoever else has its
\* look or names its id (pair_walks_to_runs, stages 1 to 4).
OwnFramesFirst ==
    phase = "done" =>
        \A n \in Sids(sprites) :
            roles[n] \in {"Both", "Run"} /\ runs[n] # Nothing =>
                /\ runs[n].l # Nothing => pairs[n].l = runs[n].l
                /\ runs[n].r # Nothing => pairs[n].r = runs[n].r
                /\ runs[n].rate # NoRate => pairs[n].rate = runs[n].rate

\* Nobody runs with the body of another look: the frames are the sprite's own, or
\* those of one of its look, or of one that names it.
RunsAsOneself ==
    phase = "done" =>
        \A n \in Sids(sprites) : pairs[n] # Nothing =>
            \A c \in {pairs[n].l, pairs[n].r} \ {Nothing} :
                \E t \in ToSet(sprites) :
                    /\ t.sid = n \/ t.gfx = n \/ (t.gfx = Of(sprites, n).gfx /\ t.gfx # NoGfx)
                    /\ \E a \in ToSet(t.actions) : a.content = c

\* Who runs with whose frames does not depend on the order of the sprites in the file
\* (the sorted ids of pair_walks_to_runs and apply_template_b).
InAnyOrder ==
    phase = "done" =>
        LET all == Reverse(sprites) IN pairs = Pairs(all, Roles(all), Runs(all, Roles(all)))

\* A walker is given each step that some runner of its look has, though no runner has
\* both, and both stand in the file; except where the rewritten header is the last line
\* of the walker's, which emit leaves without them.
BothSteps ==
    phase = "done" =>
        \A n \in Sids(sprites) :
            LET s == Of(sprites, n) shown == Of(Parsed(output), n)
                bare == \A i \in DOMAIN file.lines : i > s.header /\ HeaderOf(file.lines, i) = s.header
                                                     => ~ Readable(file.lines[i])
            IN  Walker(roles, n) /\ s.gfx # NoGfx /\ ~ bare /\ ~ file.lines[s.header].clash =>
                    \A m \in RunnersOf(sprites, roles, s.gfx) : runs[m] # Nothing =>
                        /\ runs[m].l # Nothing => Plain(shown, 98) # Nothing
                        /\ runs[m].r # Nothing => Plain(shown, 99) # Nothing

\* A walker's header counts the pictures of every runner of its look, so that the frames
\* it was given can be shown; a runner that merely names its id is not counted.
HeaderCounts ==
    phase = "done" =>
        \A n \in Sids(sprites) :
            LET s == Of(sprites, n)
            IN  Walker(roles, n) /\ s.gfx # NoGfx /\ ~ file.lines[s.header].clash =>
                    \A m \in RunnersOf(sprites, roles, s.gfx) : runs[m] # Nothing =>
                        Of(Parsed(output), n).count >= Of(sprites, m).count

=============================================================================
