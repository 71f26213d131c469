------------------------------- MODULE AuxExp -------------------------------
(***************************************************************************)
(* The line about experience that the auxiliary writes into the chat          *)
(* (aux/exp_tracker, aux/runtime: exp_tick).  Ten times a second it reads the *)
(* total; the level and what is left to the next are worked out from it.      *)
(***************************************************************************)
EXTENDS Integers, Sequences

CONSTANTS
    Thresholds, \* LEVEL_THRESHOLDS: what each level of the table starts with
    HighRange,  \* what a level beyond the table takes
    Totals      \* totals that a character may have

TableSize == Len(Thresholds)

ExpAssumption ==
    /\ Thresholds \in Seq(Nat) /\ TableSize > 0 /\ Thresholds[1] = 0
    /\ \A l \in 2 .. TableSize : Thresholds[l - 1] < Thresholds[l]
    /\ HighRange \in Nat \ {0} /\ Totals \subseteq Nat

HighBase == Thresholds[TableSize]

level_start_threshold(l) ==
    IF l <= TableSize THEN Thresholds[l] ELSE HighBase + (l - TableSize) * HighRange

level_range(l) == level_start_threshold(l + 1) - level_start_threshold(l)

\* A wrong version, to show that the properties below can fail.
LevelOneTooFew(total) ==
    IF total >= HighBase THEN TableSize + (total - HighBase) \div HighRange
    ELSE CHOOSE l \in 1 .. TableSize :
             /\ total > Thresholds[l] \/ l = 1
             /\ \A m \in l + 1 .. TableSize : total <= Thresholds[m]

\* From the highest level of the table down.
level_from_total_exp(total) ==
    IF total >= HighBase THEN TableSize + (total - HighBase) \div HighRange
    ELSE CHOOSE l \in 1 .. TableSize :
             /\ total >= Thresholds[l]
             /\ \A m \in l + 1 .. TableSize : total < Thresholds[m]

\* The experience that is missing to the next whole percent.
exp_to_next_pct(within, range) ==
    LET next == (within * 100) \div range + 1
    IN  (range * next + 99) \div 100 - within

VARIABLES
    world,   \* game_state == 3
    want,    \* status_show_exp
    total,   \* the total of the character
    tracker, \* ExpTracker, with the last total and the baseline
    report,  \* the last line that was written
    sum,     \* history: the sum of the gains that were written since the baseline,
             \* 0 when the total
    fell     \* fell since the baseline, or is another's

vars == <<world, want, total, tracker, report, sum, fell>>

Off == [enabled |-> FALSE, last |-> 0, baseline |-> 0]
NoReport == [level |-> 0, delta |-> 0, toPct |-> 1, toLevel |-> 1, session |-> 0, up |-> FALSE]

TypeOK ==
    /\ world \in BOOLEAN /\ want \in BOOLEAN /\ total \in Totals
    /\ tracker = Off \/ tracker \in [enabled : {TRUE}, last : Totals, baseline : Totals]
    /\ report.level \in Nat /\ report.delta \in Nat /\ report.session \in Nat
    /\ sum \in Nat /\ fell \in BOOLEAN

Init ==
    /\ world = FALSE /\ want \in BOOLEAN /\ total \in Totals
    /\ tracker = Off /\ report = NoReport /\ sum = 0 /\ fell = FALSE

-------------------------------------------------------------------------------
Toggles ==
    /\ want' = ~want
    /\ UNCHANGED <<world, total, tracker, report, sum, fell>>

\* Experience is won, and lost by dying; outside the world another character
\* may be chosen.
TotalChanges ==
    /\ total' \in Totals \ {total}
    /\ fell' = (fell \/ total' < total \/ ~world)
    /\ sum' = IF fell' THEN 0 ELSE sum
    /\ UNCHANGED <<world, want, tracker, report>>

EntersOrLeaves ==
    /\ world' = ~world
    /\ UNCHANGED <<want, total, tracker, report, sum, fell>>

\* exp_tick while the switch and the tracker differ: it can be switched off
\* anywhere, and on only in the world, where the total is the character's.
Enables ==
    /\ world /\ want /\ ~tracker.enabled
    /\ tracker' = [enabled |-> TRUE, last |-> total, baseline |-> total]
    /\ sum' = 0 /\ fell' = FALSE /\ report' = NoReport
    /\ UNCHANGED <<world, want, total>>

Disables ==
    /\ ~want /\ tracker.enabled
    /\ tracker' = Off
    /\ UNCHANGED <<world, want, total, report, sum, fell>>

\* A wrong version, to show that the properties below can fail.
MinusBelowZero(a, b) == a - b

Minus(a, b) == IF a > b THEN a - b ELSE 0

\* A wrong version, to show that the properties below can fail.
LevelOfLast == level_from_total_exp(tracker.last)

LevelNow == level_from_total_exp(total)

\* A wrong version, to show that the properties below can fail.
LastOfLevel == IF LevelNow = level_from_total_exp(tracker.last) THEN total ELSE tracker.last

NewLast == total

\* ExpTracker::tick; the line is written to the chat, or the write fails.
Reports ==
    /\ world /\ want /\ tracker.enabled /\ total # tracker.last
    /\ LET level  == LevelNow
           within == Minus(total, level_start_threshold(level))
           range  == level_range(level)
       IN  /\ report' = [level   |-> level,
                         delta   |-> Minus(total, tracker.last),
                         toPct   |-> exp_to_next_pct(within, range),
                         toLevel |-> Minus(range, within),
                         session |-> Minus(total, tracker.baseline),
                         up      |-> level # level_from_total_exp(tracker.last)]
           /\ sum' = IF fell THEN 0 ELSE sum + report'.delta
    /\ tracker' = [tracker EXCEPT !.last = NewLast]
    /\ UNCHANGED <<world, want, total, fell>>

Next == Toggles \/ TotalChanges \/ EntersOrLeaves \/ Enables \/ Disables \/ Reports

Spec == Init /\ [][Next]_vars

-------------------------------------------------------------------------------
\* As long as the character only gains, the gains of the lines add up to the
\* last one's total of the session: no gain is written twice or left out,
\* also across levels and while the player was away.
ReportsAddUp ==
    tracker.enabled /\ ~fell => /\ sum = report.session
                                /\ sum = tracker.last - tracker.baseline

\* There is always something left to the next percent and to the next level,
\* and never more than the level takes: the level is that of the new total.
SomethingLeft ==
    report # NoReport =>
        /\ report.toPct >= 1 /\ report.toLevel >= 1
        /\ report.toPct <= report.toLevel /\ report.toLevel <= level_range(report.level)

\* The level that the scan finds is the one whose range the total is in.
LevelOfTotal ==
    LET l == level_from_total_exp(total)
    IN  /\ level_start_threshold(l) <= total /\ total < level_start_threshold(l + 1)
        /\ exp_to_next_pct(total - level_start_threshold(l), level_range(l)) \in 1 .. level_range(l)
===============================================================================
