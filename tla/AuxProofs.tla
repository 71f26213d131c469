------------------------------ MODULE AuxProofs ------------------------------
(***************************************************************************)
(* What the threads of the auxiliary's scheduler keep, whatever the rows of  *)
(* its pages, the table of levels and the numbers of calls, sessions, items  *)
(* and addresses: the safety that MCAuxScheduler states of its parts.        *)
(***************************************************************************)
EXTENDS MCAuxScheduler, FiniteSetTheorems, TLAPS

-----------------------------------------------------------------------------
(* Sets of numbers.                                                        *)

\* A set of numbers up to a bound has a least one, since the intervals below
\* them have.
LEMMA LeastOf ==
    ASSUME NEW bound \in Nat, NEW B \in SUBSET (0 .. bound), B # {}
    PROVE  \E least \in B : \A n \in B : least <= n
  <1> DEFINE below == {1 .. n : n \in B}
  <1> DEFINE order == StrictSubsetOrdering(1 .. bound)
  <1>1. IsFiniteSet(1 .. bound)
    BY FS_Interval
  <1>2. IsWellFoundedOn(order, SUBSET (1 .. bound))
    BY <1>1, FS_StrictSubsetOrderingWellFounded, FS_FiniteSubsetsOfFinite
  <1>3. below \subseteq SUBSET (1 .. bound) /\ below # {}
    <2>1. ASSUME NEW n \in B PROVE 1 .. n \subseteq 1 .. bound
      OBVIOUS
    <2> QED
      BY <2>1, Zenon
  <1>4. \E x \in below : \A y \in below : <<y, x>> \notin order
    <2> HIDE DEF below, order
    <2> QED
      BY <1>2, <1>3, WFMin
  <1>5. PICK least \in B : \A y \in below : <<y, 1 .. least>> \notin order
    <2> HIDE DEF order
    <2> QED
      BY <1>4
  <1>6. ASSUME NEW n \in B PROVE least <= n
    <2> SUFFICES ASSUME n < least PROVE FALSE
      OBVIOUS
    <2>1. 1 .. n \subseteq 1 .. least /\ 1 .. n # 1 .. least
      <3>1. least \in 1 .. least /\ least \notin 1 .. n
        OBVIOUS
      <3> QED
        BY <3>1
    <2>2. <<1 .. n, 1 .. least>> \in order
      <3>1. 1 .. n \in SUBSET (1 .. bound) /\ 1 .. least \in SUBSET (1 .. bound)
        BY <1>3
      <3> QED
        BY <2>1, <3>1, Zenon DEF StrictSubsetOrdering
    <2> QED
      BY <1>5, <2>2
  <1> QED
    BY <1>6

\* And a greatest one.
LEMMA GreatestOf ==
    ASSUME NEW bound \in Nat, NEW B \in SUBSET (0 .. bound), B # {}
    PROVE  \E greatest \in B : \A n \in B : n <= greatest
  <1> DEFINE Mirror == {bound - n : n \in B}
  <1>1. Mirror \in SUBSET (0 .. bound) /\ Mirror # {}
    <2>1. ASSUME NEW n \in B PROVE bound - n \in 0 .. bound
      OBVIOUS
    <2> QED
      BY <2>1
  <1>2. PICK least \in Mirror : \A n \in Mirror : least <= n
    <2> HIDE DEF Mirror
    <2> QED
      BY <1>1, LeastOf
  <1>3. PICK greatest \in B : least = bound - greatest
    OBVIOUS
  <1>4. ASSUME NEW n \in B PROVE n <= greatest
    <2>1. least <= bound - n
      BY <1>2
    <2> QED
      BY <1>3, <2>1
  <1> QED
    BY <1>4

-----------------------------------------------------------------------------
(* AuxExp: levels.                                                         *)

LEMMA TableOfLevels ==
    ASSUME Exp!ExpAssumption
    PROVE  /\ Exp!TableSize \in Nat \ {0} /\ DOMAIN Thresholds = 1 .. Exp!TableSize
           /\ \A l \in 1 .. Exp!TableSize : Thresholds[l] \in Nat
           /\ Thresholds[1] = 0 /\ Exp!HighBase \in Nat /\ HighRange \in Nat \ {0}
  BY DEF Exp!ExpAssumption, Exp!TableSize, Exp!HighBase

\* The scan finds a level of the table for every total below its end.
LEMMA ScanFinds ==
    ASSUME Exp!ExpAssumption, NEW t \in Nat, t < Exp!HighBase
    PROVE  LET l == Exp!level_from_total_exp(t)
           IN  /\ l \in 1 .. Exp!TableSize - 1
               /\ Thresholds[l] <= t /\ t < Thresholds[l + 1]
  <1> DEFINE size == Exp!TableSize
             Reached == {l \in 1 .. size : t >= Thresholds[l]}
             Right(l) == t >= Thresholds[l] /\ \A m \in l + 1 .. size : t < Thresholds[m]
  <1>1. size \in Nat \ {0} /\ \A l \in 1 .. size : Thresholds[l] \in Nat
    BY TableOfLevels
  <1>2. 1 \in Reached /\ Reached \in SUBSET (0 .. size)
    BY <1>1, TableOfLevels
  <1>3. PICK top \in Reached : \A n \in Reached : n <= top
    <2> HIDE DEF Reached
    <2> QED
      BY <1>1, <1>2, GreatestOf
  <1>4. top \in 1 .. size /\ Right(top)
    <2>1. ASSUME NEW m \in top + 1 .. size PROVE t < Thresholds[m]
      <3>1. m \in 1 .. size /\ m > top
        BY <1>1, <1>3
      <3>2. m \notin Reached
        BY <1>1, <1>3, <3>1
      <3> QED
        BY <1>1, <3>1, <3>2
    <2> QED
      BY <1>3, <2>1
  <1>5. DEFINE found == CHOOSE l \in 1 .. size : Right(l)
  <1>6. found \in 1 .. size /\ Right(found)
    <2> HIDE DEF Right
    <2> QED
      BY <1>4
  <1>7. Exp!level_from_total_exp(t) = found
    <2>1. ~(t >= Exp!HighBase)
      BY TableOfLevels
    <2> QED
      BY <2>1 DEF Exp!level_from_total_exp
  <1>8. found # size
    BY <1>1, <1>6, TableOfLevels DEF Exp!HighBase
  <1>9. found \in 1 .. size - 1 /\ found + 1 \in found + 1 .. size
    <2> HIDE DEF found
    <2> QED
      BY <1>1, <1>6, <1>8
  <1> QED
    BY <1>6, <1>7, <1>9

\* A quotient: how often it goes into the number, and that it goes no more.
LEMMA Quotient ==
    ASSUME NEW n \in Nat, NEW d \in Nat \ {0}
    PROVE  LET q == n \div d
           IN  q \in Nat /\ q * d \in Nat /\ q * d <= n /\ n < (q + 1) * d /\ (q + 1) * d \in Nat
  OBVIOUS

\* Each total lies between the start of its level and that of the next.
LEMMA LevelHolds ==
    ASSUME Exp!ExpAssumption, NEW t \in Nat
    PROVE  LET l == Exp!level_from_total_exp(t)
               from == Exp!level_start_threshold(l)
               to == Exp!level_start_threshold(l + 1)
           IN  l \in Nat /\ from \in Nat /\ to \in Nat /\ from <= t /\ t < to
  <1>1. CASE t < Exp!HighBase
    <2> DEFINE l == Exp!level_from_total_exp(t)
    <2>1. l \in 1 .. Exp!TableSize - 1 /\ Thresholds[l] <= t /\ t < Thresholds[l + 1]
      BY <1>1, ScanFinds
    <2> HIDE DEF l
    <2>2. l \in 1 .. Exp!TableSize /\ l + 1 \in 1 .. Exp!TableSize /\ l \in Nat
      BY <2>1, TableOfLevels
    <2>3. Exp!level_start_threshold(l) = Thresholds[l] /\ Exp!level_start_threshold(l + 1) = Thresholds[l + 1]
      BY <2>2, TableOfLevels DEF Exp!level_start_threshold
    <2> QED
      BY <2>1, <2>2, <2>3, TableOfLevels DEF l
  <1>2. CASE t >= Exp!HighBase
    <2> DEFINE above == t - Exp!HighBase
               k == above \div HighRange
               size == Exp!TableSize
    <2>1. above \in Nat /\ size \in Nat \ {0} /\ Exp!HighBase \in Nat /\ HighRange \in Nat \ {0}
      BY <1>2, TableOfLevels
    <2>2. Exp!level_from_total_exp(t) = size + k
      BY <1>2 DEF Exp!level_from_total_exp
    <2>3. /\ k \in Nat /\ k * HighRange \in Nat /\ k * HighRange <= above
          /\ above < (k + 1) * HighRange /\ (k + 1) * HighRange \in Nat
      <3> HIDE DEF above
      <3> QED
        BY <2>1, Quotient
    <2> HIDE DEF k
    <2>4. Exp!level_start_threshold(size + k) = Exp!HighBase + k * HighRange
      <3>1. CASE k = 0
        BY <2>1, <3>1 DEF Exp!level_start_threshold, Exp!HighBase
      <3>2. CASE k # 0
        <4>1. ~(size + k <= size) /\ (size + k) - size = k
          BY <2>1, <2>3, <3>2
        <4> QED
          BY <4>1 DEF Exp!level_start_threshold
      <3> QED
        BY <3>1, <3>2
    <2>5. Exp!level_start_threshold(size + k + 1) = Exp!HighBase + (k + 1) * HighRange
      <3>1. ~(size + k + 1 <= size) /\ (size + k + 1) - size = k + 1
        BY <2>1, <2>3
      <3> QED
        BY <3>1 DEF Exp!level_start_threshold
    <2> QED
      BY <2>1, <2>2, <2>3, <2>4, <2>5
  <1> QED
    BY <1>1, <1>2, TableOfLevels

\* What is missing to the next percent of a level is something, and not more than
\* what is missing to the next level.
LEMMA PercentLeft ==
    ASSUME NEW range \in Nat, NEW within \in Nat, within < range
    PROVE  Exp!exp_to_next_pct(within, range) \in 1 .. range - within
  <1> DEFINE done == (within * 100) \div range
             whole == range * (done + 1) + 99
  <1>1. range \in Nat \ {0} /\ within * 100 \in Nat
    OBVIOUS
  <1>2. /\ done \in Nat /\ done * range <= within * 100
        /\ within * 100 < (done + 1) * range /\ (done + 1) * range \in Nat
    BY <1>1, Quotient
  <1> HIDE DEF done
  <1>3. done < 100
    <2> SUFFICES ASSUME done >= 100 PROVE FALSE
      BY <1>2
    <2>1. 100 * range <= done * range
      BY <1>1, <1>2
    <2> QED
      BY <1>1, <1>2, <2>1
  <1>4. (done + 1) * range <= 100 * range
    BY <1>1, <1>2, <1>3
  <1>5. range * (done + 1) = (done + 1) * range
    BY <1>1, <1>2
  <1>6. whole \in Nat /\ (within + 1) * 100 <= whole /\ whole <= range * 100 + 99
    BY <1>1, <1>2, <1>4, <1>5
  <1>7. whole \div 100 >= within + 1 /\ whole \div 100 <= range
    <2> HIDE DEF whole
    <2> QED
      BY <1>1, <1>6
  <1>8. Exp!exp_to_next_pct(within, range) = whole \div 100 - within
    BY DEF Exp!exp_to_next_pct, done
  <1>9. whole \div 100 \in Int
    <2> HIDE DEF whole
    <2> QED
      BY <1>6
  <1> HIDE DEF whole
  <1> QED
    BY <1>7, <1>8, <1>9

-----------------------------------------------------------------------------
(* AuxExp: the tracker.                                                    *)

\* While the character only gains, the total is not below the last one seen,
\* and that one not below the one of the start.
GainsOnly == s4.enabled /\ ~s7 => s4.baseline <= s4.last /\ s4.last <= s3

ExpInvariant == Exp!TypeOK /\ Exp!SomethingLeft /\ Exp!ReportsAddUp /\ GainsOnly

\* What is reported of a total leaves something to gain.
LEMMA ReportLeavesSomething ==
    ASSUME Exp!ExpAssumption, NEW t \in Nat
    PROVE  LET level == Exp!level_from_total_exp(t)
               within == Exp!Minus(t, Exp!level_start_threshold(level))
               range == Exp!level_range(level)
           IN  /\ level \in Nat /\ range \in Nat
               /\ Exp!exp_to_next_pct(within, range) \in 1 .. Exp!Minus(range, within)
               /\ Exp!Minus(range, within) \in 1 .. range
               /\ t - Exp!level_start_threshold(level) \in Nat
               /\ within = t - Exp!level_start_threshold(level)
  <1> DEFINE level == Exp!level_from_total_exp(t)
             from == Exp!level_start_threshold(level)
             to == Exp!level_start_threshold(level + 1)
  <1>1. level \in Nat /\ from \in Nat /\ to \in Nat /\ from <= t /\ t < to
    BY LevelHolds
  <1>2. Exp!level_range(level) = to - from
    BY DEF Exp!level_range
  <1> HIDE DEF level, from, to
  <1>3. Exp!Minus(t, from) = t - from /\ Exp!Minus(to - from, t - from) = (to - from) - (t - from)
    BY <1>1 DEF Exp!Minus
  <1>4. t - from \in Nat /\ to - from \in Nat /\ t - from < to - from
    BY <1>1
  <1>5. Exp!exp_to_next_pct(t - from, to - from) \in 1 .. (to - from) - (t - from)
    BY <1>4, PercentLeft
  <1>6. (to - from) - (t - from) \in 1 .. to - from
    BY <1>4
  <1> QED
    BY <1>1, <1>2, <1>3, <1>4, <1>5, <1>6 DEF level, from

\* The level that the scan finds is the one whose range the total is in.
LEMMA LevelsRight == Exp!ExpAssumption /\ Exp!TypeOK => Exp!LevelOfTotal
  <1> SUFFICES ASSUME Exp!ExpAssumption, Exp!TypeOK PROVE Exp!LevelOfTotal
    OBVIOUS
  <1>1. s3 \in Nat
    BY DEF Exp!ExpAssumption, Exp!TypeOK
  <1> DEFINE l == Exp!level_from_total_exp(s3)
             from == Exp!level_start_threshold(l)
             to == Exp!level_start_threshold(l + 1)
  <1>2. l \in Nat /\ from \in Nat /\ to \in Nat /\ from <= s3 /\ s3 < to
    BY <1>1, LevelHolds
  <1>3. Exp!level_range(l) = to - from
    BY DEF Exp!level_range
  <1>4. Exp!exp_to_next_pct(s3 - from, to - from) \in 1 .. (to - from) - (s3 - from)
    <2> HIDE DEF l, from, to
    <2>1. s3 - from \in Nat /\ to - from \in Nat /\ s3 - from < to - from
      BY <1>1, <1>2
    <2> QED
      BY <2>1, PercentLeft
  <1>5. Exp!exp_to_next_pct(s3 - from, Exp!level_range(l)) \in 1 .. Exp!level_range(l)
    <2> HIDE DEF l, from, to
    <2> QED
      BY <1>1, <1>2, <1>3, <1>4
  <1> QED
    BY <1>2, <1>5 DEF Exp!LevelOfTotal

LEMMA ExpBegins == ASSUME Exp!ExpAssumption, Exp!Init PROVE ExpInvariant
  <1>1. s4 = Exp!Off /\ s5 = Exp!NoReport /\ s6 = 0 /\ s7 = FALSE /\ ~s4.enabled
    BY DEF Exp!Init, Exp!Off
  <1>2. Exp!TypeOK
    <2>1. s1 \in BOOLEAN /\ s2 \in BOOLEAN /\ s3 \in Totals /\ s7 \in BOOLEAN
      BY <1>1 DEF Exp!Init
    <2>2. s5.level \in Nat /\ s5.delta \in Nat /\ s5.session \in Nat /\ s6 \in Nat
      BY <1>1 DEF Exp!NoReport
    <2> QED
      BY <1>1, <2>1, <2>2 DEF Exp!TypeOK
  <1> QED
    BY <1>1, <1>2 DEF ExpInvariant, Exp!SomethingLeft, Exp!ReportsAddUp, GainsOnly

\* The tracker either is off or has two totals.
LEMMA TrackerHas ==
    ASSUME Exp!TypeOK, s4.enabled
    PROVE  s4 \in [enabled : {TRUE}, last : Totals, baseline : Totals]
  <1>1. Exp!Off.enabled = FALSE
    BY DEF Exp!Off
  <1>2. s4 = Exp!Off \/ s4 \in [enabled : {TRUE}, last : Totals, baseline : Totals]
    BY DEF Exp!TypeOK
  <1> QED
    BY <1>1, <1>2, Zenon

LEMMA ReportKeeps ==
    ASSUME Exp!ExpAssumption, ExpInvariant, Exp!Reports
    PROVE  ExpInvariant'
  <1> DEFINE level == Exp!level_from_total_exp(s3)
             within == Exp!Minus(s3, Exp!level_start_threshold(level))
             range == Exp!level_range(level)
  <1>1. /\ s4 \in [enabled : {TRUE}, last : Totals, baseline : Totals]
        /\ s3 \in Totals /\ Totals \subseteq Nat /\ s6 \in Nat /\ s7 \in BOOLEAN
        /\ s4' = [s4 EXCEPT !.last = s3] /\ s4.enabled
        /\ UNCHANGED <<s1, s2, s3, s7>>
    BY TrackerHas DEF ExpInvariant, Exp!TypeOK, Exp!Reports, Exp!NewLast, Exp!ExpAssumption
  <1>2. /\ s5'.level = level /\ s5'.delta = Exp!Minus(s3, s4.last)
        /\ s5'.toPct = Exp!exp_to_next_pct(within, range)
        /\ s5'.toLevel = Exp!Minus(range, within)
        /\ s5'.session = Exp!Minus(s3, s4.baseline)
        /\ s6' = IF s7 THEN 0 ELSE s6 + s5'.delta
    BY DEF Exp!Reports, Exp!LevelNow
  <1>3. /\ level \in Nat /\ range \in Nat
        /\ Exp!exp_to_next_pct(within, range) \in 1 .. Exp!Minus(range, within)
        /\ Exp!Minus(range, within) \in 1 .. range
    BY <1>1, ReportLeavesSomething
  <1> HIDE DEF level, within, range
  <1>4. Exp!SomethingLeft'
    BY <1>2, <1>3 DEF Exp!SomethingLeft, range
  <1>5. s5'.delta \in Nat /\ s5'.session \in Nat
    BY <1>1, <1>2 DEF Exp!Minus
  <1>6. s4' \in [enabled : {TRUE}, last : Totals, baseline : Totals]
    BY <1>1
  <1>7. Exp!TypeOK'
    <2>1. s1' \in BOOLEAN /\ s2' \in BOOLEAN
      BY <1>1 DEF ExpInvariant, Exp!TypeOK
    <2>2. s6' \in Nat
      BY <1>1, <1>2, <1>5
    <2> QED
      BY <1>1, <1>2, <1>3, <1>5, <1>6, <2>1, <2>2 DEF Exp!TypeOK
  <1>8. CASE ~s7
    <2>1. s6 = s4.last - s4.baseline /\ s4.baseline <= s4.last /\ s4.last <= s3
      BY <1>1, <1>8 DEF ExpInvariant, Exp!ReportsAddUp, GainsOnly
    <2>2. s4'.last = s3 /\ s4'.baseline = s4.baseline
      BY <1>1
    <2>3. s4.last \in Nat /\ s4.baseline \in Nat /\ s3 \in Nat
      BY <1>1
    <2>4. s5'.delta = s3 - s4.last /\ s5'.session = s3 - s4.baseline
      BY <1>2, <2>1, <2>3 DEF Exp!Minus
    <2>5. s6' = s3 - s4.baseline
      BY <1>2, <1>8, <2>1, <2>3, <2>4
    <2> QED
      BY <1>1, <1>4, <1>7, <2>1, <2>2, <2>3, <2>4, <2>5 DEF ExpInvariant, Exp!ReportsAddUp, GainsOnly
  <1>9. CASE s7
    BY <1>1, <1>4, <1>7, <1>9 DEF ExpInvariant, Exp!ReportsAddUp, GainsOnly
  <1> QED
    BY <1>1, <1>8, <1>9

LEMMA ExpKeeps == ASSUME Exp!ExpAssumption, ExpInvariant, [Exp!Next]_(Exp!vars) PROVE ExpInvariant'
  <1> USE DEF ExpInvariant
  <1>1. ASSUME UNCHANGED s5 PROVE Exp!SomethingLeft'
    BY <1>1 DEF Exp!SomethingLeft
  <1>2. ASSUME UNCHANGED <<s3, s4, s5, s6, s7>> PROVE Exp!ReportsAddUp' /\ GainsOnly'
    BY <1>2 DEF Exp!ReportsAddUp, GainsOnly
  <1>3. CASE Exp!Toggles
    BY <1>1, <1>2, <1>3 DEF Exp!Toggles, Exp!TypeOK
  <1>4. CASE Exp!EntersOrLeaves
    BY <1>1, <1>2, <1>4 DEF Exp!EntersOrLeaves, Exp!TypeOK
  <1>5. CASE UNCHANGED Exp!vars
    BY <1>1, <1>2, <1>5 DEF Exp!vars, Exp!TypeOK
  <1>6. CASE Exp!TotalChanges
    <2>1. /\ s3' \in Totals /\ s7' = (s7 \/ s3' < s3 \/ ~s1) /\ s6' = IF s7' THEN 0 ELSE s6
          /\ UNCHANGED <<s1, s2, s4, s5>>
      BY <1>6 DEF Exp!TotalChanges
    <2>2. s6' \in Nat /\ s7' \in BOOLEAN
      BY <2>1 DEF Exp!TypeOK
    <2>3. Exp!TypeOK'
      BY <2>1, <2>2 DEF Exp!TypeOK
    <2>4. s3 \in Nat /\ s3' \in Nat
      BY <2>1 DEF Exp!TypeOK, Exp!ExpAssumption
    <2>5. CASE ~s7'
      <3>1. ~s7 /\ ~(s3' < s3) /\ s6' = s6
        BY <2>1, <2>5
      <3>2. Exp!ReportsAddUp'
        BY <2>1, <3>1 DEF Exp!ReportsAddUp
      <3>3. GainsOnly'
        <4> SUFFICES ASSUME s4.enabled PROVE s4.baseline <= s4.last /\ s4.last <= s3'
          BY <2>1 DEF GainsOnly
        <4>1. s4.last \in Nat /\ s4.last <= s3 /\ s4.baseline <= s4.last
          BY <3>1, TrackerHas DEF GainsOnly, Exp!ExpAssumption
        <4> QED
          BY <2>4, <3>1, <4>1
      <3> QED
        BY <1>1, <2>1, <2>3, <3>2, <3>3
    <2>6. CASE s7'
      BY <1>1, <2>1, <2>3, <2>6 DEF Exp!ReportsAddUp, GainsOnly
    <2> QED
      BY <2>5, <2>6
  <1>7. CASE Exp!Enables
    <2>1. /\ s4' = [enabled |-> TRUE, last |-> s3, baseline |-> s3]
          /\ s6' = 0 /\ s7' = FALSE /\ s5' = Exp!NoReport /\ UNCHANGED <<s1, s2, s3>>
      BY <1>7 DEF Exp!Enables
    <2>2. s3 \in Totals /\ s3 \in Nat
      BY DEF Exp!TypeOK, Exp!ExpAssumption
    <2>3. Exp!TypeOK'
      BY <2>1, <2>2 DEF Exp!TypeOK, Exp!NoReport
    <2>4. Exp!SomethingLeft'
      BY <2>1 DEF Exp!SomethingLeft, Exp!NoReport
    <2>5. s5'.session = 0 /\ s4'.last - s4'.baseline = 0 /\ s4'.baseline <= s4'.last /\ s4'.last <= s3'
      BY <2>1, <2>2 DEF Exp!NoReport
    <2> QED
      BY <2>1, <2>3, <2>4, <2>5 DEF Exp!ReportsAddUp, GainsOnly
  <1>8. CASE Exp!Disables
    <2>1. s4' = Exp!Off /\ UNCHANGED <<s1, s2, s3, s5, s6, s7>>
      BY <1>8 DEF Exp!Disables
    <2>2. s4'.enabled = FALSE
      BY <2>1 DEF Exp!Off
    <2>3. Exp!TypeOK'
      BY <2>1 DEF Exp!TypeOK
    <2> QED
      BY <1>1, <2>1, <2>2, <2>3 DEF Exp!ReportsAddUp, GainsOnly
  <1>9. CASE Exp!Reports
    BY <1>9, ReportKeeps
  <1> QED
    BY <1>3, <1>4, <1>5, <1>6, <1>7, <1>8, <1>9 DEF Exp!Next

-----------------------------------------------------------------------------
(* AuxHotkey.                                                              *)

\* Whoever is cancelled with a press in hand uses it, and then ends.
LastUse == s8 >= 1 => s1.cancel /\ s4.pc \in {"uses", "loop", "ended"}

KeyInvariant == Hotkey!TypeOK /\ s2 = s1.n /\ Hotkey!OneLateUse /\ LastUse

LEMMA KeysBegin == ASSUME Hotkey!HotkeyAssumption, Hotkey!Init PROVE KeyInvariant
  BY DEF Hotkey!HotkeyAssumption, Hotkey!Init, KeyInvariant, Hotkey!TypeOK, Hotkey!OneLateUse, LastUse

LEMMA KeysKeep ==
    ASSUME Hotkey!HotkeyAssumption, KeyInvariant, [Hotkey!Next]_(Hotkey!vars)
    PROVE  KeyInvariant'
  <1> DEFINE SessionOK == s1 \in [n : 0 .. MaxSessions, runs : BOOLEAN, cancel : BOOLEAN] /\ s2 = s1.n
             QueueOK == s3 \in 0 .. MaxQueue
             WorkerOK == s4 \in [pc : {"ended", "loop", "waits", "got", "uses"}, since : 0 .. KeyCooldown]
             PostOK == /\ s5 \in {"ended", "starts", "known", "queue", "hooked"}
                       /\ s6 \in [pc : {"ended", "polls", "posts"}, waits : 0 .. Deadline]
                       /\ s7 \in {"no", "posted", "lost"}
             LateOK == s8 \in 0 .. 1 /\ LastUse
  <1>1. SessionOK /\ QueueOK /\ WorkerOK /\ PostOK /\ LateOK
    BY DEF KeyInvariant, Hotkey!TypeOK, Hotkey!OneLateUse
  <1>2. SUFFICES (SessionOK /\ QueueOK /\ WorkerOK /\ PostOK /\ LateOK)'
    <2>1. ASSUME SessionOK' PROVE s2' \in 0 .. s1'.n
      BY <2>1, Hotkey!HotkeyAssumption DEF Hotkey!HotkeyAssumption
    <2> QED
      BY <2>1 DEF KeyInvariant, Hotkey!TypeOK, Hotkey!OneLateUse
  <1>3. /\ MaxSessions \in Nat /\ MaxQueue \in Nat \ {0} /\ KeyCooldown \in Nat \ {0} /\ Deadline \in Nat
    BY DEF Hotkey!HotkeyAssumption
  <1>4. ASSUME UNCHANGED <<s1, s2>> PROVE SessionOK'
    BY <1>1, <1>4
  <1>5. ASSUME UNCHANGED <<s5, s6, s7>> PROVE PostOK'
    BY <1>1, <1>5
  <1>6. ASSUME UNCHANGED <<s1, s8, s4>> PROVE LateOK'
    BY <1>1, <1>6 DEF LastUse
  <1>7. CASE Hotkey!Install
    <2>1. SessionOK'
      BY <1>1, <1>3, <1>7 DEF Hotkey!Install, Hotkey!NewTx
    <2>2. QueueOK' /\ WorkerOK' /\ PostOK' /\ LateOK'
      BY <1>3, <1>7 DEF Hotkey!Install, LastUse
    <2> QED
      BY <2>1, <2>2
  <1>8. CASE Hotkey!Cancel
    <2>1. SessionOK' /\ s1'.cancel
      BY <1>1, <1>8 DEF Hotkey!Cancel
    <2>2. LateOK'
      BY <1>1, <1>8, <2>1 DEF Hotkey!Cancel, LastUse
    <2> QED
      BY <1>1, <1>5, <1>8, <2>1, <2>2 DEF Hotkey!Cancel
  <1>9. CASE Hotkey!Joined
    <2>1. SessionOK' /\ s1'.cancel = s1.cancel
      BY <1>1, <1>9 DEF Hotkey!Joined
    <2>2. LateOK'
      BY <1>1, <1>9, <2>1 DEF Hotkey!Joined, LastUse
    <2> QED
      BY <1>1, <1>5, <1>9, <2>1, <2>2 DEF Hotkey!Joined
  <1>10. CASE Hotkey!Press
    <2>1. QueueOK'
      BY <1>1, <1>3, <1>10 DEF Hotkey!Press
    <2> QED
      BY <1>1, <1>4, <1>5, <1>6, <1>10, <2>1 DEF Hotkey!Press
  <1>11. CASE Hotkey!Worker
    <2>1. UNCHANGED <<s1, s2, s5, s6, s7>>
      BY <1>11 DEF Hotkey!Worker, Hotkey!WorkerChecks, Hotkey!WorkerReceives, Hotkey!WorkerTimesOut,
         Hotkey!WorkerDrops, Hotkey!WorkerUses, Hotkey!WorkerReturns
    <2>2. QueueOK'
      BY <1>1, <1>3, <1>11 DEF Hotkey!Worker, Hotkey!WorkerChecks, Hotkey!WorkerReceives,
         Hotkey!WorkerTimesOut, Hotkey!WorkerDrops, Hotkey!WorkerUses, Hotkey!WorkerReturns
    <2>3. WorkerOK'
      BY <1>1, <1>3, <1>11 DEF Hotkey!Worker, Hotkey!WorkerChecks, Hotkey!WorkerReceives,
         Hotkey!WorkerTimesOut, Hotkey!WorkerDrops, Hotkey!WorkerUses, Hotkey!WorkerReturns
    <2>4. LateOK'
      <3>1. CASE Hotkey!WorkerUses
        <4>1. s4.pc = "got" /\ s4'.pc = "uses" /\ s8 = 0
          BY <1>1, <3>1 DEF Hotkey!WorkerUses, LastUse
        <4>2. CASE s1.cancel
          BY <2>1, <3>1, <4>1, <4>2 DEF Hotkey!WorkerUses, LastUse
        <4>3. CASE ~s1.cancel
          BY <2>1, <3>1, <4>1, <4>3 DEF Hotkey!WorkerUses, LastUse
        <4> QED
          BY <4>2, <4>3
      <3>2. CASE Hotkey!WorkerChecks
        BY <1>1, <2>1, <3>2 DEF Hotkey!WorkerChecks, LastUse, Hotkey!SeesCancel
      <3>3. CASE ~Hotkey!WorkerUses /\ ~Hotkey!WorkerChecks
        BY <1>1, <2>1, <1>11, <3>3 DEF Hotkey!Worker, Hotkey!WorkerReceives,
           Hotkey!WorkerTimesOut, Hotkey!WorkerDrops, Hotkey!WorkerReturns, LastUse
      <3> QED
        BY <3>1, <3>2, <3>3
    <2> QED
      BY <1>4, <1>5, <2>1, <2>2, <2>3, <2>4
  <1>12. CASE Hotkey!HookThread
    <2>1. UNCHANGED <<s1, s2, s3, s4, s6, s7, s8>> /\ s5' \in {"known", "queue", "hooked", "ended"}
      BY <1>12 DEF Hotkey!HookThread, Hotkey!HookStep, Hotkey!SetHookFails, Hotkey!HookQuits
    <2> QED
      BY <1>1, <1>4, <1>6, <2>1
  <1>13. CASE Hotkey!Poster
    <2>1. UNCHANGED <<s1, s2, s3, s4, s5, s8>>
      BY <1>13 DEF Hotkey!Poster, Hotkey!PosterWakes, Hotkey!Posts, Hotkey!GivesUp
    <2>2. PostOK'
      BY <1>1, <1>13 DEF Hotkey!Poster, Hotkey!PosterWakes, Hotkey!Posts, Hotkey!GivesUp
    <2> QED
      BY <1>1, <1>4, <1>6, <2>1, <2>2
  <1>14. CASE Hotkey!Elapse
    <2>1. UNCHANGED <<s1, s2, s3, s5, s7, s8>> /\ s4'.pc = s4.pc
      BY <1>1, <1>14 DEF Hotkey!Elapse
    <2>2. WorkerOK'
      BY <1>1, <1>3, <1>14 DEF Hotkey!Elapse
    <2>3. s6' \in [pc : {"ended", "polls", "posts"}, waits : 0 .. Deadline]
      BY <1>1, <1>3, <1>14 DEF Hotkey!Elapse
    <2> QED
      BY <1>1, <1>4, <2>1, <2>2, <2>3 DEF LastUse
  <1>15. CASE UNCHANGED Hotkey!vars
    BY <1>1, <1>4, <1>5, <1>6, <1>15 DEF Hotkey!vars
  <1> QED
    BY <1>7, <1>8, <1>9, <1>10, <1>11, <1>12, <1>13, <1>14, <1>15 DEF Hotkey!Next

-----------------------------------------------------------------------------
(* SpellBook.                                                              *)

CasterType == [pc : {"rest", "check", "read", "store", "look"},
               at : Addresses \cup {0}, of : 0 .. MaxLogins, spell : Book!Spells]

\* What is stored has an address; a careful thread that looks finds a book; who looks
\* and has no doubt finds the player's, or one at the address of the player's.
CasterFacts(c) ==
    /\ s6[c].pc = "store" => s6[c].at # 0
    /\ c \in Careful /\ s6[c].pc = "look" => s4.at # 0
    /\ s6[c].pc = "look" /\ ~s7[c] => s4.at = s1.at \/ s4.of = s1.who

BookInvariant == Book!TypeOK /\ \A c \in Casters : CasterFacts(c)

LEMMA BookBegins == ASSUME Book!BookAssumption, Book!Init PROVE BookInvariant
  <1>1. \A c \in Casters : s6[c] = Book!Resting
    BY DEF Book!Init
  <1>2. Book!Resting \in CasterType /\ Book!Resting.pc = "rest"
    BY DEF Book!Resting, CasterType, Book!BookAssumption, Book!Spells, Book!FromTable, Book!Nobody
  <1>3. Book!TypeOK
    <2>1. s6 \in [Casters -> CasterType]
      BY <1>2 DEF Book!Init
    <2>2. s7 \in [Casters -> BOOLEAN]
      BY DEF Book!Init
    <2>3. /\ s1 \in [who : 0 .. MaxLogins, at : Addresses \cup {0}]
          /\ s4 \in [at : Addresses \cup {0}, of : 0 .. MaxLogins]
          /\ s3 \in 0 .. MaxLogins
      BY DEF Book!Init, Book!NoBook, Book!Nobody, Book!BookAssumption
    <2>4. s2 \in BOOLEAN /\ s5 \in BOOLEAN
      BY DEF Book!Init
    <2> QED
      BY <2>1, <2>2, <2>3, <2>4 DEF Book!TypeOK, CasterType
  <1> QED
    BY <1>1, <1>2, <1>3 DEF BookInvariant, CasterFacts

LEMMA PlayerKeepsBook ==
    ASSUME Book!BookAssumption, BookInvariant, Book!Player
    PROVE  BookInvariant'
  <1>1. /\ UNCHANGED <<s4, s5, s6>>
        /\ s7' \in [Casters -> BOOLEAN]
        /\ \/ \A c \in Casters : s7'[c] = s7[c] /\ UNCHANGED s1
           \/ \A c \in Casters : s6[c].pc # "rest" => s7'[c]
    BY DEF Book!Player, Book!Login, Book!Logout, Book!Fails, Book!Doubted, BookInvariant, Book!TypeOK
  <1>2. /\ s1' \in [who : 0 .. MaxLogins, at : Addresses \cup {0}]
        /\ s2' \in BOOLEAN /\ s3' \in 0 .. MaxLogins
    <2>1. CASE Book!Login
      BY <2>1 DEF Book!Login, BookInvariant, Book!TypeOK, Book!BookAssumption
    <2>2. CASE Book!Logout
      BY <2>2 DEF Book!Logout, BookInvariant, Book!TypeOK, Book!BookAssumption, Book!Nobody
    <2>3. CASE Book!Fails
      BY <2>3 DEF Book!Fails, BookInvariant, Book!TypeOK
    <2> QED
      BY <2>1, <2>2, <2>3 DEF Book!Player
  <1>3. Book!TypeOK'
    BY <1>1, <1>2 DEF BookInvariant, Book!TypeOK
  <1>4. ASSUME NEW c \in Casters PROVE CasterFacts(c)'
    <2>1. CasterFacts(c)
      BY DEF BookInvariant
    <2> QED
      BY <1>1, <2>1, Zenon DEF CasterFacts
  <1> QED
    BY <1>3, <1>4 DEF BookInvariant

\* A thread takes one step: what it makes of its own state.
LEMMA CasterMoves ==
    ASSUME Book!BookAssumption, BookInvariant, NEW c \in Casters, Book!Tick(c)
    PROVE  /\ s6' \in [Casters -> CasterType] /\ s7' \in [Casters -> BOOLEAN]
           /\ \A d \in Casters \ {c} : s6'[d] = s6[d]
           /\ UNCHANGED <<s1, s2, s3>> /\ s5' \in BOOLEAN
  <1> USE DEF CasterType
  <1>1. /\ s6 \in [Casters -> CasterType] /\ s7 \in [Casters -> BOOLEAN]
        /\ s1 \in [who : 0 .. MaxLogins, at : Addresses \cup {0}]
        /\ s4 \in [at : Addresses \cup {0}, of : 0 .. MaxLogins]
        /\ s5 \in BOOLEAN /\ MaxLogins \in Nat
    BY DEF BookInvariant, Book!TypeOK, Book!BookAssumption
  <1>2. Book!Resting \in CasterType
    BY <1>1 DEF Book!Resting, Book!Spells, Book!FromTable, Book!Nobody
  <1>3. CASE Book!Begin(c)
    BY <1>1, <1>2, <1>3 DEF Book!Begin
  <1>4. CASE Book!Check(c)
    BY <1>1, <1>4 DEF Book!Check, Book!To
  <1>5. ASSUME Book!BuildFails(c)
        PROVE  /\ s6' \in [Casters -> CasterType] /\ s7' \in [Casters -> BOOLEAN]
               /\ \A d \in Casters \ {c} : s6'[d] = s6[d]
    <2>1. Book!AfterFailure(c) \in {"rest", "look"}
      BY DEF Book!AfterFailure
    <2>2. (Book!AfterFailure(c) = "look" \/ s7[c]) \in BOOLEAN
      OBVIOUS
    <2>3. s7' \in [Casters -> BOOLEAN]
      BY <1>1, <1>5, <2>2 DEF Book!BuildFails
    <2> QED
      BY <1>1, <1>5, <2>1, <2>3 DEF Book!BuildFails, Book!To
  <1>6. CASE Book!ReadAddress(c)
    BY <1>1, <1>5, <1>6 DEF Book!ReadAddress
  <1>7. CASE Book!ReadSpells(c)
    BY <1>1, <1>5, <1>7 DEF Book!ReadSpells
  <1>8. CASE Book!Store(c)
    <2>1. s7' \in [Casters -> BOOLEAN]
      BY <1>1, <1>8 DEF Book!Store, Book!Doubted
    <2> QED
      BY <1>1, <1>8, <2>1 DEF Book!Store, Book!To
  <1>9. CASE Book!Look(c)
    <2>1. ASSUME NEW spell \in Book!Found(c) PROVE [Book!Resting EXCEPT !.spell = spell] \in CasterType
      <3>1. spell \in Book!Spells
        BY <1>1, <2>1 DEF Book!Found, Book!Spells, Book!FromTable, Book!Nobody
      <3> QED
        BY <1>2, <3>1
    <2>2. PICK spell \in Book!Found(c) : s6' = [s6 EXCEPT ![c] = [Book!Resting EXCEPT !.spell = spell]]
      BY <1>9 DEF Book!Look
    <2>3. s5' \in BOOLEAN /\ UNCHANGED <<s1, s2, s3, s7>>
      BY <1>1, <1>9 DEF Book!Look
    <2> QED
      BY <1>1, <2>1, <2>2, <2>3
  <1> QED
    BY <1>3, <1>4, <1>6, <1>7, <1>8, <1>9 DEF Book!Tick

LEMMA CasterKeepsBook ==
    ASSUME Book!BookAssumption, BookInvariant, NEW c \in Casters, Book!Tick(c)
    PROVE  BookInvariant'
  <1>1. /\ s6' \in [Casters -> CasterType] /\ s7' \in [Casters -> BOOLEAN]
        /\ \A d \in Casters \ {c} : s6'[d] = s6[d]
        /\ UNCHANGED <<s1, s2, s3>> /\ s5' \in BOOLEAN
    BY CasterMoves
  <1>2. /\ s6 \in [Casters -> CasterType] /\ s7 \in [Casters -> BOOLEAN]
        /\ s4 \in [at : Addresses \cup {0}, of : 0 .. MaxLogins]
    BY DEF BookInvariant, Book!TypeOK, CasterType
  <1>3. \A d \in Casters : CasterFacts(d)
    BY DEF BookInvariant
  <1>4. s4' \in [at : Addresses \cup {0}, of : 0 .. MaxLogins]
    <2>1. CASE Book!Store(c)
      <3>1. s6[c] \in CasterType
        BY <1>2
      <3> QED
        BY <2>1, <3>1 DEF Book!Store, CasterType
    <2>2. CASE ~Book!Store(c)
      <3>1. s4' = s4
        BY <2>2 DEF Book!Tick, Book!Begin, Book!Check, Book!ReadAddress, Book!ReadSpells, Book!Look
      <3> QED
        BY <1>2, <3>1
    <2> QED
      BY <2>1, <2>2
  <1>5. Book!TypeOK'
    BY <1>1, <1>4 DEF BookInvariant, Book!TypeOK, CasterType
  <1>6. CASE Book!Store(c)
    <2>1. s4'.at # 0 /\ s4'.of = s6[c].of
      BY <1>3, <1>6 DEF Book!Store, CasterFacts
    <2>2. s6'[c].pc = "look"
      BY <1>2, <1>6 DEF Book!Store, Book!To, CasterType
    <2>3. \/ s4'.of = s1.who /\ s7' = s7
          \/ \A d \in Casters : s6[d].pc # "rest" => s7'[d]
      BY <1>6, <2>1 DEF Book!Store, Book!Doubted
    <2>4. s6[c].pc = "store"
      BY <1>6 DEF Book!Store
    <2>5. ASSUME NEW d \in Casters PROVE CasterFacts(d)'
      <3>1. CASE d = c
        BY <1>1, <2>1, <2>2, <2>3, <2>4, <3>1, Zenon DEF CasterFacts
      <3>2. CASE d # c
        BY <1>1, <1>3, <2>1, <2>3, <3>2, Zenon DEF CasterFacts
      <3> QED
        BY <3>1, <3>2
    <2> QED
      BY <1>5, <2>5 DEF BookInvariant
  <1>7. CASE ~Book!Store(c)
    <2>1. s4' = s4 /\ \A d \in Casters \ {c} : s7'[d] = s7[d]
      BY <1>2, <1>7 DEF Book!Tick, Book!Begin, Book!Check, Book!ReadAddress, Book!ReadSpells,
         Book!BuildFails, Book!Look
    <2>2. ASSUME NEW d \in Casters \ {c} PROVE CasterFacts(d)'
      BY <1>1, <1>3, <2>1, Zenon DEF CasterFacts
    <2>3. ASSUME Book!Begin(c) PROVE CasterFacts(c)'
      <3>1. s6'[c].pc = "check"
        BY <1>2, <2>3 DEF Book!Begin, Book!Resting
      <3> QED
        BY <3>1 DEF CasterFacts
    <2>4. ASSUME Book!Check(c) PROVE CasterFacts(c)'
      <3>1. \/ s6'[c].pc = "read"
            \/ s6'[c].pc = "look" /\ s4.at = s1.at /\ s4.at # 0
        BY <1>2, <2>4 DEF Book!Check, Book!To, Book!IsStaleFor, CasterType
      <3> QED
        BY <1>1, <2>1, <3>1 DEF CasterFacts
    <2>5. ASSUME Book!BuildFails(c) PROVE CasterFacts(c)'
      <3>1. CASE c \in Careful
        <4>1. s6'[c].pc = "rest"
          BY <1>2, <2>5, <3>1 DEF Book!BuildFails, Book!To, Book!AfterFailure, CasterType
        <4> QED
          BY <4>1 DEF CasterFacts
      <3>2. CASE c \notin Careful
        <4>1. s6'[c].pc = "look" /\ s7'[c]
          BY <1>2, <2>5, <3>2 DEF Book!BuildFails, Book!To, Book!AfterFailure, CasterType
        <4> QED
          BY <3>2, <4>1 DEF CasterFacts
      <3> QED
        BY <3>1, <3>2
    <2>6. ASSUME Book!ReadAddress(c) PROVE CasterFacts(c)'
      <3>1. CASE Book!BuildFails(c)
        BY <2>5, <3>1
      <3>2. CASE ~Book!BuildFails(c)
        <4>1. s6'[c].pc = "read"
          BY <1>2, <2>6, <3>2 DEF Book!ReadAddress, CasterType
        <4> QED
          BY <4>1 DEF CasterFacts
      <3> QED
        BY <3>1, <3>2
    <2>7. ASSUME Book!ReadSpells(c) PROVE CasterFacts(c)'
      <3>1. CASE Book!BuildFails(c)
        BY <2>5, <3>1
      <3>2. CASE ~Book!BuildFails(c)
        <4>1. s6'[c].pc = "store" /\ s6'[c].at # 0
          BY <1>2, <2>7, <3>2 DEF Book!ReadSpells, CasterType
        <4> QED
          BY <4>1 DEF CasterFacts
      <3> QED
        BY <3>1, <3>2
    <2>8. ASSUME Book!Look(c) PROVE CasterFacts(c)'
      <3>1. s6'[c].pc = "rest"
        BY <1>2, <2>8 DEF Book!Look, Book!Resting
      <3> QED
        BY <3>1 DEF CasterFacts
    <2>9. CasterFacts(c)'
      BY <1>7, <2>3, <2>4, <2>6, <2>7, <2>8 DEF Book!Tick
    <2> QED
      BY <1>5, <2>2, <2>9 DEF BookInvariant
  <1> QED
    BY <1>6, <1>7

LEMMA BookKeeps ==
    ASSUME Book!BookAssumption, BookInvariant, [Book!Next]_(Book!vars)
    PROVE  BookInvariant'
  <1>1. CASE UNCHANGED Book!vars
    BY <1>1 DEF Book!vars, BookInvariant, Book!TypeOK, CasterFacts
  <1> QED
    BY <1>1, PlayerKeepsBook, CasterKeepsBook DEF Book!Next

LEMMA BookIsThere == Book!BookAssumption /\ BookInvariant => Book!CarefulHaveABook
  <1> SUFFICES ASSUME Book!BookAssumption, BookInvariant, NEW c \in Careful, c \in Casters, s6[c].pc = "look" PROVE s4 # Book!NoBook
    BY DEF Book!CarefulHaveABook, Book!BookAssumption
  <1>1. s4.at # 0
    BY DEF BookInvariant, CasterFacts
  <1>2. Book!NoBook.at = 0
    BY DEF Book!NoBook
  <1> QED
    BY <1>1, <1>2

\* A spell of a character is the player's, or there was doubt.
LEMMA OwnSpells == ASSUME Book!BookAssumption, BookInvariant PROVE Book!CastsOwnSpell
  <1> SUFFICES ASSUME NEW c \in Casters, Book!Look(c), s6'[c].spell \in 1 .. MaxLogins
               PROVE  s6'[c].spell = s1.who \/ s7[c] \/ s4.at = s1.at
    BY DEF Book!CastsOwnSpell
  <1>1. s6 \in [Casters -> CasterType] /\ MaxLogins \in Nat /\ CasterFacts(c)
    BY DEF BookInvariant, Book!TypeOK, CasterType, Book!BookAssumption
  <1>2. PICK spell \in Book!Found(c) : s6' = [s6 EXCEPT ![c] = [Book!Resting EXCEPT !.spell = spell]]
    BY DEF Book!Look
  <1>3. s6'[c].spell = spell
    BY <1>1, <1>2 DEF Book!Resting
  <1>4. spell = s4.of
    BY <1>1, <1>3 DEF Book!Found, Book!FromTable, Book!Nobody
  <1> QED
    BY <1>1, <1>3, <1>4 DEF CasterFacts, Book!Look

-----------------------------------------------------------------------------
(* AuxDelete.                                                              *)

\* What is being sent away, or has been and is not answered.
OnItsWay(i) == i \in s6 \/ (s5.pc = "call" /\ s5.does.item = i)

DeleteInvariant == Delete!TypeOK /\ \A i \in Items : OnItsWay(i) /\ i \in s4 => i \in s7

LEMMA DeleteBegins == ASSUME Delete!DeleteAssumption, Delete!Init PROVE DeleteInvariant
  <1>1. s5 \in [pc : {"sleep", "call"}, does : Delete!Sending \cup {Delete!NoItem}] /\ s5.pc # "call"
    BY DEF Delete!Init
  <1>2. Delete!TypeOK
    BY <1>1 DEF Delete!Init, Delete!TypeOK, Delete!DeleteAssumption
  <1>3. s6 = {}
    BY DEF Delete!Init
  <1> QED
    BY <1>1, <1>2, <1>3 DEF DeleteInvariant, OnItsWay

LEMMA DeleteKeeps ==
    ASSUME Delete!DeleteAssumption, DeleteInvariant, [Delete!Next]_(Delete!vars)
    PROVE  DeleteInvariant'
  <1>1. /\ s1 \in BOOLEAN /\ s2 \in 0 .. MaxFinds /\ MaxFinds \in Nat
        /\ s3 \subseteq Items /\ s4 \subseteq s3
        /\ s5 \in [pc : {"sleep", "call"}, does : Delete!Sending \cup {Delete!NoItem}]
        /\ s6 \subseteq Items /\ s7 \subseteq Items
    BY DEF DeleteInvariant, Delete!TypeOK, Delete!DeleteAssumption
  <1>2. \A i \in Items : OnItsWay(i) /\ i \in s4 => i \in s7
    BY DEF DeleteInvariant
  <1>3. CASE Delete!Switches
    BY <1>1, <1>2, <1>3 DEF Delete!Switches, DeleteInvariant, Delete!TypeOK, OnItsWay
  <1>4. CASE UNCHANGED Delete!vars
    BY <1>1, <1>2, <1>4 DEF Delete!vars, DeleteInvariant, Delete!TypeOK, OnItsWay
  <1>5. CASE Delete!Chooses
    <2>1. PICK i \in Delete!Safe(Delete!Picked.name) :
             /\ s5' = [pc |-> "call", does |-> [how |-> Delete!Picked.how, item |-> i]]
             /\ s7' = s7 \cap (s6 \ {i})
      BY <1>5 DEF Delete!Chooses
    <2>2. i \in Items /\ i \notin s4
      BY <1>1, <2>1 DEF Delete!Safe
    <2>3. Delete!Picked.how \in {"delete", "dissolve"}
      BY <1>5 DEF Delete!Chooses, Delete!Picked
    <2>4. s5' \in [pc : {"sleep", "call"}, does : Delete!Sending \cup {Delete!NoItem}]
      BY <2>1, <2>2, <2>3 DEF Delete!Sending
    <2>5. UNCHANGED <<s1, s2, s3, s4, s6>>
      BY <1>5 DEF Delete!Chooses
    <2>6. Delete!TypeOK'
      BY <1>1, <2>1, <2>4, <2>5 DEF Delete!TypeOK
    <2>7. ASSUME NEW j \in Items, OnItsWay(j)', j \in s4' PROVE j \in s7'
      <3>1. j # i
        BY <2>2, <2>5, <2>7
      <3>2. s5'.does.item = i
        BY <2>1
      <3>3. j \in s6
        BY <2>5, <2>7, <3>1, <3>2 DEF OnItsWay
      <3> QED
        BY <1>2, <2>1, <2>5, <2>7, <3>1, <3>3 DEF OnItsWay
    <2> QED
      BY <2>6, <2>7 DEF DeleteInvariant
  <1>6. CASE Delete!Returns
    <2>1. /\ s5.pc = "call" /\ s6' \subseteq s6 \cup ({s5.does.item} \cap s3)
          /\ s5' = [pc |-> "sleep", does |-> Delete!NoItem]
          /\ UNCHANGED <<s1, s2, s3, s4, s7>>
      BY <1>6 DEF Delete!Returns
    <2>2. s5' \in [pc : {"sleep", "call"}, does : Delete!Sending \cup {Delete!NoItem}] /\ s5'.pc = "sleep"
      BY <2>1
    <2>3. Delete!TypeOK'
      BY <1>1, <2>1, <2>2 DEF Delete!TypeOK
    <2>4. ASSUME NEW j \in Items, OnItsWay(j)' PROVE OnItsWay(j)
      BY <2>1, <2>2, <2>4 DEF OnItsWay
    <2> QED
      BY <1>2, <2>1, <2>3, <2>4 DEF DeleteInvariant
  <1>7. ASSUME NEW i \in Items, Delete!PutsOn(i) \/ Delete!TakesOff(i) \/ Delete!Finds(i)
                                   \/ Delete!Loses(i) \/ Delete!Answers(i)
        PROVE  DeleteInvariant'
    <2>1. Delete!TypeOK'
      BY <1>1, <1>7 DEF Delete!PutsOn, Delete!TakesOff, Delete!Finds, Delete!Loses, Delete!Answers, Delete!TypeOK
    <2>2. s5' = s5 /\ s6' \subseteq s6 /\ ((s4' \subseteq s4 /\ s7' = s7) \/ Delete!PutsOn(i))
      BY <1>7 DEF Delete!PutsOn, Delete!TakesOff, Delete!Finds, Delete!Loses, Delete!Answers
    <2>3. ASSUME NEW j \in Items, OnItsWay(j)' PROVE OnItsWay(j)
      BY <2>2, <2>3 DEF OnItsWay
    <2> QED
      BY <1>2, <2>1, <2>2, <2>3 DEF DeleteInvariant, Delete!PutsOn
  <1> QED
    BY <1>3, <1>4, <1>5, <1>6, <1>7 DEF Delete!Next

\* What goes while it is worn was put on after it had been chosen.
LEMMA WornIsSafe == ASSUME DeleteInvariant PROVE Delete!WornStays
  BY DEF DeleteInvariant, Delete!WornStays, Delete!Answers, OnItsWay

-----------------------------------------------------------------------------
(* AuxTimers.                                                              *)

\* The clock of a row is not ahead of what an observer measures; if the button
\* was pressed since the last look, only that look can use the row again.
RowFacts(r) ==
    /\ s4.since[r] \in 0 .. Every[r] /\ s7.row[r] \in 0 .. Every[r]
    /\ s3[r] = s4.seen[r] => s4.since[r] <= s7.row[r]

TimersInvariant ==
    /\ Timers!TypeOK /\ \A r \in Timers!Rows : RowFacts(r)
    /\ s4.pc = "sleep" => s4.row = 0
    /\ s6.pc = "sleep" => s6.since <= s7.shout

TimerType ==
    [pc : {"sleep", "fires"}, row : Timers!Rows \cup {0}, waits : 0 .. Stuck,
     seen : [Timers!Rows -> 0 .. MaxClicks], since : [Timers!Rows -> Nat]]
ShoutType ==
    [pc : {"sleep", "says"}, next : 1 .. Messages, says : 0 .. Messages,
     waits : 0 .. Stuck, since : 0 .. ShoutEvery]
GapType == [row : [Timers!Rows -> Nat], shout : 0 .. ShoutEvery]

LEMMA RowsAreNumbers ==
    ASSUME Timers!TimersAssumption
    PROVE  /\ Timers!Rows = 1 .. Len(Every) /\ Len(Every) \in Nat /\ 0 \notin Timers!Rows
           /\ Every \in [Timers!Rows -> Nat] /\ \A r \in Timers!Rows : Every[r] \in Nat
           /\ Messages \in Nat \ {0} /\ ShoutEvery \in Nat \ {0} /\ Stuck \in Nat \ {0} /\ MaxClicks \in Nat
  BY DEF Timers!TimersAssumption, Timers!Rows

LEMMA TimersTypes ==
    Timers!TypeOK <=> /\ s1 \in BOOLEAN /\ s2 \in {"timer", "shout"}
                      /\ s3 \in [Timers!Rows -> 0 .. MaxClicks]
                      /\ s4 \in TimerType
                      /\ \A r \in Timers!Rows : s4.since[r] <= Every[r] /\ s4.seen[r] <= s3[r]
                      /\ s5 \in 1 .. Messages /\ s6 \in ShoutType /\ s7 \in GapType
  BY DEF Timers!TypeOK, TimerType, ShoutType, GapType

LEMMA TimersBegin == ASSUME Timers!TimersAssumption, Timers!Init PROVE TimersInvariant
  <1>1. /\ s1 = TRUE /\ s2 \in {"timer", "shout"}
        /\ s3 = [r \in Timers!Rows |-> 0]
        /\ s4 = [pc |-> "sleep", row |-> 0, waits |-> 0, seen |-> s3, since |-> Every]
        /\ s5 \in 1 .. Messages
        /\ s6 = [pc |-> "sleep", next |-> 1, says |-> 0, waits |-> 0, since |-> ShoutEvery]
        /\ s7 = [row |-> Every, shout |-> ShoutEvery]
    BY DEF Timers!Init
  <1>2. s4 \in TimerType /\ s6 \in ShoutType /\ s7 \in GapType /\ s3 \in [Timers!Rows -> 0 .. MaxClicks]
    BY <1>1, RowsAreNumbers DEF TimerType, ShoutType, GapType
  <1>3. \A r \in Timers!Rows : s4.since[r] = Every[r] /\ s4.seen[r] = 0 /\ s3[r] = 0 /\ s7.row[r] = Every[r]
    BY <1>1
  <1>4. Timers!TypeOK
    BY <1>1, <1>2, <1>3, RowsAreNumbers, TimersTypes
  <1>5. s4.row = 0 /\ s6.since <= s7.shout
    BY <1>1, RowsAreNumbers
  <1>6. ASSUME NEW r \in Timers!Rows PROVE RowFacts(r)
    BY <1>3, RowsAreNumbers DEF RowFacts
  <1> QED
    BY <1>4, <1>5, <1>6 DEF TimersInvariant

\* What a look at the rows finds.
LEMMA FirstIsDue ==
    ASSUME Timers!TimersAssumption, NEW rows \in SUBSET Timers!Rows, rows # {}
    PROVE  Timers!First(rows) \in rows
  <1>1. rows \in SUBSET (0 .. Len(Every)) /\ Len(Every) \in Nat
    BY RowsAreNumbers
  <1>2. \E r \in rows : \A s \in rows : r <= s
    BY <1>1, LeastOf
  <1> QED
    BY <1>2 DEF Timers!First

\* The clocks that a look sees, those of restarted rows set back.
LEMMA LookSees ==
    ASSUME Timers!TimersAssumption, TimersInvariant
    PROVE  /\ Timers!SinceFire \in [Timers!Rows -> Nat]
           /\ \A r \in Timers!Rows : /\ Timers!SinceFire[r] <= Every[r]
                                     /\ Timers!SinceFire[r] <= s7.row[r]
                                     /\ s7.row[r] <= Every[r]
  <1>1. ASSUME NEW r \in Timers!Rows
        PROVE  /\ Timers!SinceFire[r] \in Nat /\ Timers!SinceFire[r] <= Every[r]
               /\ Timers!SinceFire[r] <= s7.row[r] /\ s7.row[r] <= Every[r]
    <2>1. RowFacts(r)
      BY DEF TimersInvariant
    <2>2. Timers!SinceFire[r] = IF s3[r] # s4.seen[r] THEN 0 ELSE s4.since[r]
      BY DEF Timers!SinceFire, Timers!Restarted
    <2> QED
      BY <2>1, <2>2, RowsAreNumbers DEF RowFacts
  <1>2. Timers!SinceFire = [r \in Timers!Rows |-> Timers!SinceFire[r]]
    BY DEF Timers!SinceFire
  <1> QED
    BY <1>1, <1>2

\* The row that a look chooses has had its interval.
LEMMA RowHasRested ==
    ASSUME Timers!TimersAssumption, TimersInvariant, Timers!TimerFinds
    PROVE  \/ s4'.row = 0 /\ Timers!Due(Timers!SinceFire) = {}
           \/ /\ s4'.row = Timers!First(Timers!Due(Timers!SinceFire))
              /\ s4'.row \in Timers!Rows /\ s7.row[s4'.row] = Every[s4'.row]
  <1> DEFINE due == Timers!Due(Timers!SinceFire)
  <1>1. s4 \in TimerType /\ s4.row = 0
    BY TimersTypes DEF TimersInvariant, Timers!TimerFinds
  <1>2. CASE due = {}
    BY <1>1, <1>2 DEF Timers!TimerFinds, TimerType
  <1>3. CASE due # {}
    <2>1. s4'.row = Timers!First(due)
      BY <1>1, <1>3 DEF Timers!TimerFinds, TimerType
    <2>2. due \in SUBSET Timers!Rows
      BY DEF Timers!Due
    <2>3. Timers!First(due) \in due
      BY <1>3, <2>2, FirstIsDue
    <2>4. Timers!SinceFire[s4'.row] = Every[s4'.row] /\ s4'.row \in Timers!Rows
      BY <2>1, <2>3 DEF Timers!Due
    <2>5. s7.row[s4'.row] \in Nat
      BY <2>4, TimersTypes DEF TimersInvariant, GapType
    <2> QED
      BY <2>1, <2>4, <2>5, LookSees, RowsAreNumbers
  <1> QED
    BY <1>2, <1>3

LEMMA TimerTicksKeep ==
    ASSUME Timers!TimersAssumption, TimersInvariant,
           Timers!TimerFinds \/ Timers!TimerRests \/ Timers!TimerFired
    PROVE  TimersInvariant'
  <1>1. s1' = s1 /\ s2' = s2 /\ s3' = s3 /\ s5' = s5 /\ s6' = s6
    BY DEF Timers!TimerFinds, Timers!TimerRests, Timers!TimerFired
  <1>2. /\ s1 \in BOOLEAN /\ s2 \in {"timer", "shout"} /\ s3 \in [Timers!Rows -> 0 .. MaxClicks]
        /\ s4 \in TimerType /\ s5 \in 1 .. Messages /\ s6 \in ShoutType /\ s7 \in GapType
        /\ s6.pc = "sleep" => s6.since <= s7.shout
    BY TimersTypes DEF TimersInvariant
  <1>3. \A r \in Timers!Rows : s4.seen[r] <= s3[r] /\ s4.since[r] <= Every[r]
    BY TimersTypes DEF TimersInvariant
  <1> SUFFICES /\ s4' \in TimerType /\ s7' \in GapType /\ s7'.shout = s7.shout
               /\ s4'.pc = "sleep" => s4'.row = 0
               /\ \A r \in Timers!Rows : s4'.since[r] <= Every[r] /\ s4'.seen[r] <= s3[r]
               /\ \A r \in Timers!Rows : RowFacts(r)'
    BY <1>1, <1>2, TimersTypes DEF TimersInvariant, Timers!TypeOK, TimerType, ShoutType, GapType
  <1>4. CASE Timers!TimerRests \/ Timers!TimerFired
    <2>1. s7' = s7 /\ s4'.since = s4.since /\ s4'.seen = s4.seen
      BY <1>2, <1>4 DEF Timers!TimerRests, Timers!TimerFired, TimerType
    <2>2. 1 \in 0 .. Stuck
      BY RowsAreNumbers
    <2>3. s4' \in TimerType
      BY <1>2, <1>4, <2>2 DEF Timers!TimerRests, Timers!TimerFired, TimerType
    <2>4. s4'.pc = "sleep" => s4'.row = 0
      BY <1>2, <1>4 DEF Timers!TimerRests, Timers!TimerFired, TimerType, TimersInvariant
    <2>5. \A r \in Timers!Rows : RowFacts(r)'
      BY <1>1, <2>1 DEF RowFacts, TimersInvariant
    <2> QED
      BY <1>2, <1>3, <2>1, <2>3, <2>4, <2>5
  <1>5. CASE Timers!TimerFinds
    <2> DEFINE seen == Timers!SinceFire
               due == Timers!Due(seen)
               row == Timers!First(due)
    <2>1. /\ seen \in [Timers!Rows -> Nat]
          /\ \A r \in Timers!Rows : seen[r] <= Every[r] /\ seen[r] <= s7.row[r] /\ s7.row[r] <= Every[r]
      BY LookSees
    <2>2. s4.pc = "sleep" /\ s4.row = 0 /\ s7.row \in [Timers!Rows -> Nat]
      BY <1>2, <1>5 DEF Timers!TimerFinds, TimersInvariant, GapType
    <2>3. CASE due = {}
      <3>1. s4' = [s4 EXCEPT !.waits = 1, !.seen = s3, !.since = seen] /\ s7' = s7
        BY <1>5, <2>3 DEF Timers!TimerFinds
      <3> HIDE DEF seen, due
      <3>2. s4'.seen = s3 /\ s4'.since = seen /\ s4'.pc = "sleep" /\ s4'.row = 0
        BY <1>2, <2>2, <3>1 DEF TimerType
      <3>3. s4' \in TimerType
        <4>1. 1 \in 0 .. Stuck
          BY RowsAreNumbers
        <4> QED
          BY <1>2, <2>1, <3>1, <4>1 DEF TimerType
      <3>4. ASSUME NEW r \in Timers!Rows PROVE RowFacts(r)'
        BY <1>1, <2>1, <2>2, <3>1, <3>2, RowsAreNumbers DEF RowFacts
      <3>5. \A r \in Timers!Rows : s4'.since[r] <= Every[r] /\ s4'.seen[r] <= s3[r]
        BY <1>2, <2>1, <3>2
      <3> QED
        BY <1>2, <3>1, <3>2, <3>3, <3>4, <3>5
    <2>4. CASE due # {}
      <3>1. /\ s4' = [s4 EXCEPT !.pc = "fires", !.row = row, !.seen = s3,
                                !.since = [seen EXCEPT ![row] = 0]]
            /\ s7' = [s7 EXCEPT !.row[row] = 0]
        BY <1>5, <2>4 DEF Timers!TimerFinds
      <3>2. due \in SUBSET Timers!Rows
        BY DEF Timers!Due
      <3>3. row \in Timers!Rows
        BY <2>4, <3>2, FirstIsDue
      <3> HIDE DEF seen, due, row
      <3>4. /\ s4'.seen = s3 /\ s4'.since = [seen EXCEPT ![row] = 0] /\ s4'.pc = "fires"
        BY <1>2, <3>1 DEF TimerType
      <3>5. s4' \in TimerType
        <4>1. [seen EXCEPT ![row] = 0] \in [Timers!Rows -> Nat]
          BY <2>1
        <4> QED
          BY <1>2, <3>1, <3>3, <4>1 DEF TimerType
      <3>6. s7'.row = [s7.row EXCEPT ![row] = 0] /\ s7'.shout = s7.shout /\ s7' \in GapType
        BY <1>2, <3>1, <3>3 DEF GapType
      <3>7. ASSUME NEW r \in Timers!Rows PROVE RowFacts(r)' /\ s4'.since[r] <= Every[r] /\ s4'.seen[r] <= s3[r]
        <4>1. s4'.since[r] = IF r = row THEN 0 ELSE seen[r]
          BY <2>1, <3>4
        <4>2. s7'.row[r] = IF r = row THEN 0 ELSE s7.row[r]
          BY <2>2, <3>6
        <4> QED
          BY <1>1, <1>2, <2>1, <2>2, <3>4, <4>1, <4>2, RowsAreNumbers DEF RowFacts
      <3> QED
        BY <3>4, <3>5, <3>6, <3>7
    <2> QED
      BY <2>3, <2>4
  <1> QED
    BY <1>4, <1>5

LEMMA TimePassesForRows ==
    ASSUME Timers!TimersAssumption, TimersInvariant, Timers!Elapse
    PROVE  TimersInvariant'
  <1> DEFINE since == [r \in Timers!Rows |-> Timers!Up(s4.since[r], Every[r])]
             row == [r \in Timers!Rows |-> Timers!Up(s7.row[r], Every[r])]
  <1>1. /\ s1' = s1 /\ s2' = s2 /\ s3' = s3 /\ s5' = s5
        /\ s7' = [row |-> row, shout |-> Timers!Up(s7.shout, ShoutEvery)]
    BY DEF Timers!Elapse
  <1>2. /\ s1 \in BOOLEAN /\ s2 \in {"timer", "shout"} /\ s3 \in [Timers!Rows -> 0 .. MaxClicks]
        /\ s4 \in TimerType /\ s5 \in 1 .. Messages /\ s6 \in ShoutType /\ s7 \in GapType
        /\ s6.pc = "sleep" => s6.since <= s7.shout
        /\ s4.pc = "sleep" => s4.row = 0
    BY TimersTypes DEF TimersInvariant
  <1>3. ASSUME NEW r \in Timers!Rows
        PROVE  /\ s4.seen[r] <= s3[r] /\ s4.since[r] \in 0 .. Every[r] /\ s7.row[r] \in 0 .. Every[r]
               /\ s3[r] = s4.seen[r] => s4.since[r] <= s7.row[r]
               /\ Every[r] \in Nat
    BY TimersTypes, RowsAreNumbers DEF TimersInvariant, RowFacts
  <1>4. ASSUME NEW r \in Timers!Rows
        PROVE  /\ since[r] \in 0 .. Every[r] /\ row[r] \in 0 .. Every[r]
               /\ s4.since[r] <= s7.row[r] => s4.since[r] <= row[r] /\ since[r] <= row[r]
    BY <1>3 DEF Timers!Up
  <1>5. since \in [Timers!Rows -> Nat] /\ row \in [Timers!Rows -> Nat]
    BY <1>4
  <1>6. /\ s6.since \in 0 .. ShoutEvery /\ s7.shout \in 0 .. ShoutEvery /\ ShoutEvery \in Nat /\ Stuck \in Nat \ {0}
        /\ s4.waits \in 0 .. Stuck /\ s6.waits \in 0 .. Stuck
    BY <1>2, RowsAreNumbers DEF ShoutType, GapType, TimerType
  <1>7. /\ Timers!Up(s7.shout, ShoutEvery) \in 0 .. ShoutEvery
        /\ Timers!Up(s6.since, ShoutEvery) \in 0 .. ShoutEvery
        /\ s6.since <= s7.shout => /\ s6.since <= Timers!Up(s7.shout, ShoutEvery)
                                   /\ Timers!Up(s6.since, ShoutEvery) <= Timers!Up(s7.shout, ShoutEvery)
    BY <1>6 DEF Timers!Up
  <1>8. /\ \/ s4' = s4
           \/ s4' = [s4 EXCEPT !.waits = 0, !.since = since]
           \/ s4.waits < Stuck /\ s4' = [s4 EXCEPT !.waits = @ + 1, !.since = since]
        /\ \/ s6' = s6
           \/ s6' = [s6 EXCEPT !.waits = 0, !.since = Timers!Up(@, ShoutEvery)]
           \/ s6.waits < Stuck /\ s6' = [s6 EXCEPT !.waits = @ + 1, !.since = Timers!Up(@, ShoutEvery)]
    BY DEF Timers!Elapse
  <1> HIDE DEF since, row
  <1>9. s7' \in GapType /\ s7'.row = row /\ s7'.shout = Timers!Up(s7.shout, ShoutEvery)
    BY <1>1, <1>5, <1>7 DEF GapType
  <1>10. s6' \in ShoutType /\ (s6'.pc = "sleep" => s6'.since <= s7'.shout)
    <2>1. s6' \in ShoutType
      <3>1. 0 \in 0 .. Stuck /\ (s6.waits < Stuck => s6.waits + 1 \in 0 .. Stuck)
        BY <1>6
      <3>2. CASE s6' = [s6 EXCEPT !.waits = 0, !.since = Timers!Up(@, ShoutEvery)]
        BY <1>2, <1>7, <3>1, <3>2 DEF ShoutType
      <3>3. CASE s6.waits < Stuck /\ s6' = [s6 EXCEPT !.waits = @ + 1, !.since = Timers!Up(@, ShoutEvery)]
        BY <1>2, <1>7, <3>1, <3>3 DEF ShoutType
      <3> QED
        BY <1>2, <1>8, <3>2, <3>3
    <2>2. s6'.pc = s6.pc /\ (s6'.since = s6.since \/ s6'.since = Timers!Up(s6.since, ShoutEvery))
      BY <1>2, <1>8 DEF ShoutType
    <2> QED
      BY <1>2, <1>7, <1>9, <2>1, <2>2
  <1>11. /\ s4' \in TimerType /\ s4'.pc = s4.pc /\ s4'.row = s4.row /\ s4'.seen = s4.seen
         /\ s4'.since = s4.since \/ s4'.since = since
    <2>1. s4' \in TimerType
      <3>1. 0 \in 0 .. Stuck /\ (s4.waits < Stuck => s4.waits + 1 \in 0 .. Stuck)
        BY <1>6
      <3>2. CASE s4' = [s4 EXCEPT !.waits = 0, !.since = since]
        BY <1>2, <1>5, <3>1, <3>2 DEF TimerType
      <3>3. CASE s4.waits < Stuck /\ s4' = [s4 EXCEPT !.waits = @ + 1, !.since = since]
        BY <1>2, <1>5, <3>1, <3>3 DEF TimerType
      <3> QED
        BY <1>2, <1>8, <3>2, <3>3
    <2> QED
      BY <1>2, <1>8, <2>1 DEF TimerType
  <1>12. \A r \in Timers!Rows : RowFacts(r)' /\ s4'.since[r] <= Every[r] /\ s4'.seen[r] <= s3[r]
    BY <1>1, <1>3, <1>4, <1>9, <1>11 DEF RowFacts
  <1> QED
    BY <1>1, <1>2, <1>9, <1>10, <1>11, <1>12
    DEF TimersInvariant, Timers!TypeOK, TimerType, ShoutType, GapType

LEMMA ShoutTicksKeep ==
    ASSUME Timers!TimersAssumption, TimersInvariant, Timers!ShoutTick
    PROVE  TimersInvariant'
  <1>1. s1' = s1 /\ s2' = s2 /\ s3' = s3 /\ s4' = s4 /\ s5' = s5 /\ s7'.row = s7.row
    BY TimersTypes
    DEF Timers!ShoutTick, Timers!ShoutFinds, Timers!ShoutRests, Timers!ShoutReturns, TimersInvariant, GapType
  <1>2. /\ s5 \in 1 .. Messages /\ s6 \in ShoutType /\ s7 \in GapType
        /\ s6.pc = "sleep" => s6.since <= s7.shout
        /\ ShoutEvery \in Nat /\ Messages \in Nat /\ 0 \in 0 .. ShoutEvery /\ 0 \in 0 .. Messages
        /\ 1 \in 0 .. Stuck
    BY TimersTypes, RowsAreNumbers DEF TimersInvariant
  <1>3. ASSUME NEW i \in Nat, i >= 1
        PROVE  Timers!Wrapped(i) \in 1 .. Messages /\ Timers!Wrapped(i) \in 0 .. Messages
    <2>1. (i - 1) % s5 \in 0 .. (s5 - 1)
      <3>1. s5 \in Nat /\ s5 > 0 /\ i - 1 \in Nat
        BY <1>2, <1>3
      <3> QED
        BY <3>1
    <2> QED
      BY <1>2, <2>1 DEF Timers!Wrapped
  <1> SUFFICES /\ s6' \in ShoutType /\ s7' \in GapType
               /\ s6'.pc = "sleep" => s6'.since <= s7'.shout
    BY <1>1, <1>2, TimersTypes
    DEF TimersInvariant, Timers!TypeOK, TimerType, ShoutType, GapType, RowFacts
  <1>4. CASE Timers!ShoutRests
    BY <1>2, <1>4 DEF Timers!ShoutRests, ShoutType
  <1>5. CASE \E said \in BOOLEAN : Timers!ShoutReturns(said)
    <2>1. s6' = Timers!Silent /\ s7' = s7
      BY <1>5 DEF Timers!ShoutReturns, Timers!After
    <2>2. s6' \in ShoutType /\ s6'.since = 0
      BY <1>2, <2>1 DEF Timers!Silent, ShoutType
    <2> QED
      BY <1>2, <2>1, <2>2 DEF GapType
  <1>6. CASE Timers!ShoutFinds
    <2>1. CASE s6.since < ShoutEvery
      <3>1. s6' = [s6 EXCEPT !.waits = 1] /\ s7' = s7
        BY <1>6, <2>1 DEF Timers!ShoutFinds
      <3> QED
        BY <1>2, <3>1 DEF ShoutType
    <2>2. CASE ~(s6.since < ShoutEvery)
      <3> DEFINE says == Timers!Wrapped(s6.next)
                 next == Timers!Wrapped(says + 1)
      <3>1. /\ s6' = [s6 EXCEPT !.pc = "says", !.says = says, !.next = next]
            /\ s7' = [s7 EXCEPT !.shout = 0]
        BY <1>6, <2>2 DEF Timers!ShoutFinds
      <3>2. s6.next \in Nat /\ s6.next >= 1
        BY <1>2 DEF ShoutType
      <3>3. says \in 1 .. Messages /\ says \in 0 .. Messages
        BY <1>3, <3>2
      <3>4. says + 1 \in Nat /\ says + 1 >= 1
        BY <1>2, <3>3
      <3>5. next \in 1 .. Messages
        BY <1>3, <3>4
      <3> HIDE DEF says, next
      <3>6. s6' \in ShoutType /\ s6'.pc = "says"
        BY <1>2, <3>1, <3>3, <3>5 DEF ShoutType
      <3>7. s7' \in GapType
        BY <1>2, <3>1 DEF GapType
      <3> QED
        BY <3>6, <3>7
    <2> QED
      BY <2>1, <2>2
  <1> QED
    BY <1>4, <1>5, <1>6 DEF Timers!ShoutTick

LEMMA PlayerKeepsTimers ==
    ASSUME Timers!TimersAssumption, TimersInvariant, Timers!Player
    PROVE  TimersInvariant'
  <1>1. CASE Timers!Switches \/ Timers!EditsList
    <2>1. s1' \in BOOLEAN /\ s5' \in 1 .. Messages /\ s2' = s2 /\ s3' = s3 /\ s4' = s4 /\ s6' = s6 /\ s7' = s7
      BY <1>1, TimersTypes DEF TimersInvariant, Timers!Switches, Timers!EditsList
    <2> QED
      BY <2>1, TimersTypes
      DEF TimersInvariant, Timers!TypeOK, TimerType, ShoutType, GapType, RowFacts
  <1>2. CASE \E r \in Timers!Rows : Timers!Restarts(r)
    <2>1. PICK row \in Timers!Rows : Timers!Restarts(row)
      BY <1>2
    <2>2. /\ s3[row] < MaxClicks /\ s3' = [s3 EXCEPT ![row] = @ + 1] /\ s7' = [s7 EXCEPT !.row[row] = 0]
          /\ s1' = s1 /\ s2' = s2 /\ s4' = s4 /\ s5' = s5 /\ s6' = s6
      BY <2>1 DEF Timers!Restarts
    <2>3. /\ s3 \in [Timers!Rows -> 0 .. MaxClicks] /\ s4 \in TimerType /\ s7 \in GapType
          /\ MaxClicks \in Nat
      BY TimersTypes, RowsAreNumbers DEF TimersInvariant
    <2>4. s3[row] \in 0 .. MaxClicks
      BY <2>3
    <2>5. s3' \in [Timers!Rows -> 0 .. MaxClicks]
      BY <2>2, <2>3, <2>4
    <2>6. s7' \in GapType /\ s7'.shout = s7.shout /\ s7'.row = [s7.row EXCEPT ![row] = 0]
      BY <2>2, <2>3 DEF GapType
    <2>7. ASSUME NEW r \in Timers!Rows
          PROVE  s4.seen[r] <= s3'[r] /\ RowFacts(r)'
      <3>1. /\ RowFacts(r) /\ s4.seen[r] <= s3[r] /\ Every[r] \in Nat
            /\ s3[r] \in Nat /\ s4.seen[r] \in Nat
        <4>1. s4.seen \in [Timers!Rows -> 0 .. MaxClicks]
          BY <2>3 DEF TimerType
        <4>2. s3[r] \in 0 .. MaxClicks /\ s4.seen[r] \in 0 .. MaxClicks
          BY <2>3, <4>1
        <4>3. s4.seen[r] <= s3[r] /\ RowFacts(r)
          BY TimersTypes DEF TimersInvariant
        <4> QED
          BY <2>3, <4>2, <4>3, RowsAreNumbers
      <3>2. s7'.row[r] = IF r = row THEN 0 ELSE s7.row[r]
        BY <2>3, <2>6 DEF GapType
      <3>3. s3'[r] = IF r = row THEN s3[r] + 1 ELSE s3[r]
        BY <2>2, <2>3
      <3> QED
        BY <2>2, <3>1, <3>2, <3>3 DEF RowFacts
    <2>8. /\ s1 \in BOOLEAN /\ s2 \in {"timer", "shout"}
          /\ s5 \in 1 .. Messages /\ s6 \in ShoutType
          /\ \A r \in Timers!Rows : s4.since[r] <= Every[r]
          /\ (s4.pc = "sleep" => s4.row = 0) /\ (s6.pc = "sleep" => s6.since <= s7.shout)
      BY TimersTypes DEF TimersInvariant
    <2> QED
      BY <2>2, <2>3, <2>5, <2>6, <2>7, <2>8
      DEF TimersInvariant, Timers!TypeOK, TimerType, ShoutType, GapType
  <1> QED
    BY <1>1, <1>2 DEF Timers!Player

LEMMA TimersKeep ==
    ASSUME Timers!TimersAssumption, TimersInvariant, [Timers!Next]_(Timers!vars)
    PROVE  TimersInvariant'
  <1>1. CASE UNCHANGED Timers!vars
    BY <1>1, TimersTypes
    DEF Timers!vars, TimersInvariant, Timers!TypeOK, TimerType, ShoutType, GapType, RowFacts
  <1> QED
    BY <1>1, TimerTicksKeep, ShoutTicksKeep, PlayerKeepsTimers, TimePassesForRows
    DEF Timers!Next, Timers!TimerTick

\* Nothing is used before its interval is over.
LEMMA IntervalsPass ==
    ASSUME Timers!TimersAssumption, TimersInvariant
    PROVE  Timers!RowsSpaced /\ Timers!ShoutsSpaced
  <1>1. ASSUME NEW r \in Timers!Rows, Timers!TimerFinds, s4'.row = r
        PROVE  s7.row[r] = Every[r]
    BY <1>1, RowHasRested, RowsAreNumbers
  <1>2. ASSUME Timers!ShoutFinds, s6'.pc = "says" PROVE s7.shout = ShoutEvery
    <2>1. s6 \in ShoutType /\ s7 \in GapType /\ s6.pc = "sleep" /\ s6.since <= s7.shout
      BY <1>2, TimersTypes DEF TimersInvariant, Timers!ShoutFinds
    <2>2. ~(s6.since < ShoutEvery)
      BY <1>2, <2>1 DEF Timers!ShoutFinds, ShoutType
    <2> QED
      BY <2>1, <2>2, RowsAreNumbers DEF ShoutType, GapType
  <1> QED
    BY <1>1, <1>2 DEF Timers!RowsSpaced, Timers!ShoutsSpaced

SweepTick ==
    [pc : {"sleep", "entries", "call"}, entry : 0 .. Sweeps!LastEntry + 1,
     hp : 0 .. MaxHp, dry : BOOLEAN, age : 0 .. Sweeps!Longest, waits : 0 .. Stuck]

\* The tick knows the HP, unless the player was hit since.
SweepsInvariant ==
    /\ Sweeps!TypeOK
    /\ s6.pc # "sleep" /\ s1 = "drink" => s3 >= s6.hp \/ s8 = TRUE
    /\ s6.pc = "call" => s6.entry \in Sweeps!Entries

LEMMA SweepNumbers ==
    ASSUME Sweeps!SweepsAssumption
    PROVE  /\ MaxHp \in Nat /\ MpSafe \in Nat /\ Stuck \in Nat \ {0}
           /\ Sweeps!MpRow \in Nat /\ Sweeps!LastEntry \in Nat
           /\ Sweeps!Longest \in Nat
           /\ \A f \in Sweeps!Features : Cooldowns[f] \in 0 .. Sweeps!Longest
           /\ Sweeps!Features = 1 .. Len(Cooldowns)
  <1>1. /\ MaxHp \in Nat /\ MpSafe \in Nat /\ Stuck \in Nat \ {0}
        /\ Lows \in Seq(Nat) /\ Cooldowns \in Seq(Nat) /\ Cooldowns # <<>>
    BY DEF Sweeps!SweepsAssumption
  <1>2. Sweeps!MpRow \in Nat /\ Sweeps!LastEntry \in Nat
    BY <1>1 DEF Sweeps!MpRow, Sweeps!LastEntry
  <1>3. /\ Sweeps!Features = 1 .. Len(Cooldowns) /\ Len(Cooldowns) \in Nat \ {0}
        /\ \A f \in Sweeps!Features : Cooldowns[f] \in Nat
    BY <1>1 DEF Sweeps!Features
  <1> DEFINE above(g) == {f \in Sweeps!Features : Cooldowns[f] > Cooldowns[g]}
             family == {above(g) : g \in Sweeps!Features}
             order == StrictSubsetOrdering(Sweeps!Features)
  \* The longest is that above which there are fewest.
  <1>4. \E g \in Sweeps!Features : \A f \in Sweeps!Features : <<above(f), above(g)>> \notin order
    <2>1. IsFiniteSet(Sweeps!Features)
      BY <1>3, FS_Interval
    <2>2. IsWellFoundedOn(order, SUBSET Sweeps!Features)
      BY <2>1, FS_StrictSubsetOrderingWellFounded, FS_FiniteSubsetsOfFinite
    <2>3. family \in SUBSET (SUBSET Sweeps!Features) /\ family # {}
      <3>1. 1 \in Sweeps!Features
        BY <1>3
      <3> QED
        BY <3>1
    <2> HIDE DEF order
    <2>4. \E x \in family : \A y \in family : <<y, x>> \notin order
      <3> HIDE DEF family
      <3> QED
        BY <2>2, <2>3, WFMin
    <2> QED
      BY <2>4
  <1>5. \E n \in {Cooldowns[f] : f \in Sweeps!Features} : \A f \in Sweeps!Features : Cooldowns[f] <= n
    <2>1. PICK g \in Sweeps!Features : \A f \in Sweeps!Features : <<above(f), above(g)>> \notin order
      BY <1>4
    <2>2. ASSUME NEW f \in Sweeps!Features, Cooldowns[f] > Cooldowns[g] PROVE FALSE
      <3>1. \A h \in above(f) : h \in above(g)
        BY <1>3, <2>2
      <3>2. f \in above(g) /\ f \notin above(f)
        BY <1>3, <2>2
      <3>3. above(f) \in SUBSET Sweeps!Features /\ above(g) \in SUBSET Sweeps!Features
        OBVIOUS
      <3> HIDE DEF above
      <3>4. <<above(f), above(g)>> \in order
        BY <3>1, <3>2, <3>3, Zenon DEF StrictSubsetOrdering
      <3> QED
        BY <2>1, <3>4
    <2> QED
      BY <1>3, <2>2
  <1>6. /\ Sweeps!Longest \in {Cooldowns[f] : f \in Sweeps!Features}
        /\ \A f \in Sweeps!Features : Cooldowns[f] <= Sweeps!Longest
    BY <1>5 DEF Sweeps!Longest
  <1> QED
    BY <1>1, <1>2, <1>3, <1>6

LEMMA SweepTypes ==
    Sweeps!TypeOK <=> /\ s1 \in {"drink", "status"} /\ s2 \in BOOLEAN
                      /\ s3 \in 0 .. MaxHp /\ s4 \subseteq Sweeps!Entries /\ s5 \subseteq Sweeps!Entries
                      /\ s6 \in SweepTick
                      /\ s7 \in [Sweeps!Features -> 0 .. Sweeps!Longest]
                      /\ s8 \in BOOLEAN
  BY Zenon DEF Sweeps!TypeOK, SweepTick

LEMMA WhatCanBeAmiss ==
    ASSUME Sweeps!SweepsAssumption
    PROVE  (IF s1 = "drink" THEN {Sweeps!MpRow} ELSE Sweeps!Features) \subseteq Sweeps!Entries
  <1>1. Lows \in Seq(Nat) /\ Cooldowns \in Seq(Nat)
    BY DEF Sweeps!SweepsAssumption
  <1>2. Sweeps!MpRow \in 1 .. Sweeps!MpRow
    BY <1>1 DEF Sweeps!MpRow
  <1>3. Sweeps!Features = 1 .. Len(Cooldowns)
    BY SweepNumbers
  <1> QED
    BY <1>2, <1>3 DEF Sweeps!Entries, Sweeps!LastEntry

LEMMA SleepIsTyped ==
    ASSUME Sweeps!SweepsAssumption
    PROVE  /\ Sweeps!Asleep \in SweepTick /\ Sweeps!Asleep.pc = "sleep"
           /\ [Sweeps!Asleep EXCEPT !.waits = 0] \in SweepTick
           /\ [Sweeps!Asleep EXCEPT !.waits = 0].pc = "sleep"
  <1>1. /\ 0 \in 0 .. Sweeps!LastEntry + 1 /\ 0 \in 0 .. MaxHp /\ 0 \in 0 .. Sweeps!Longest
        /\ 1 \in 0 .. Stuck /\ 0 \in 0 .. Stuck
    BY SweepNumbers
  <1> QED
    BY <1>1 DEF Sweeps!Asleep, SweepTick

LEMMA SweepsBegin == ASSUME Sweeps!SweepsAssumption, Sweeps!Init PROVE SweepsInvariant
  <1>1. s6 \in SweepTick /\ s6.pc = "sleep"
    BY SleepIsTyped DEF Sweeps!Init
  <1>2. s7 \in [Sweeps!Features -> 0 .. Sweeps!Longest]
    BY SweepNumbers DEF Sweeps!Init
  <1>3. s4 \subseteq Sweeps!Entries /\ s5 \subseteq Sweeps!Entries /\ s1 \in {"drink", "status"}
    BY WhatCanBeAmiss DEF Sweeps!Init
  <1>4. s2 \in BOOLEAN /\ s3 \in 0 .. MaxHp /\ s8 \in BOOLEAN
    BY Zenon DEF Sweeps!Init
  <1>5. Sweeps!TypeOK
    BY <1>1, <1>2, <1>3, <1>4, SweepTypes, Zenon
  <1> QED
    BY <1>1, <1>5 DEF SweepsInvariant

LEMMA GameKeepsSweeps ==
    ASSUME Sweeps!SweepsAssumption, SweepsInvariant, Sweeps!Game
    PROVE  SweepsInvariant'
  <1>1. s1' = s1 /\ s6' = s6 /\ s7' = s7
    BY Zenon DEF Sweeps!Game, Sweeps!WorldChanges, Sweeps!HpChanges, Sweeps!StateChanges, Sweeps!BagChanges
  <1>2. /\ s1 \in {"drink", "status"} /\ s3 \in 0 .. MaxHp
        /\ s4 \subseteq Sweeps!Entries /\ s5 \subseteq Sweeps!Entries /\ s6 \in SweepTick
        /\ s7 \in [Sweeps!Features -> 0 .. Sweeps!Longest]
    BY SweepTypes, Zenon DEF SweepsInvariant
  <1>3. s2 \in BOOLEAN /\ s8 \in BOOLEAN
    BY SweepTypes, Zenon DEF SweepsInvariant
  <1>4. Sweeps!Entries' = Sweeps!Entries /\ Sweeps!LastEntry' = Sweeps!LastEntry
    BY <1>1 DEF Sweeps!Entries, Sweeps!LastEntry
  <1>5. s4' \subseteq Sweeps!Entries /\ s5' \subseteq Sweeps!Entries
    <2>1. CASE Sweeps!WorldChanges \/ Sweeps!HpChanges
      BY <1>2, <2>1, Zenon DEF Sweeps!WorldChanges, Sweeps!HpChanges
    <2>2. CASE Sweeps!StateChanges
      <3>1. /\ s5' = s5
            /\ \E e \in IF s1 = "drink" THEN {Sweeps!MpRow} ELSE Sweeps!Features :
                  s4' = (s4 \ {e}) \cup ({e} \ s4)
        BY <2>2, Zenon DEF Sweeps!StateChanges
      <3> QED
        BY <1>2, <3>1, WhatCanBeAmiss
    <2>3. CASE Sweeps!BagChanges
      BY <1>2, <2>3 DEF Sweeps!BagChanges
    <2> QED
      BY <2>1, <2>2, <2>3 DEF Sweeps!Game
  <1>6. s2' \in BOOLEAN
    BY <1>3, Zenon
    DEF Sweeps!Game, Sweeps!WorldChanges, Sweeps!HpChanges, Sweeps!StateChanges, Sweeps!BagChanges
  <1>7. s3' \in 0 .. MaxHp /\ s8' \in BOOLEAN
    <2>1. CASE Sweeps!HpChanges
      <3>1. s3' \in 0 .. MaxHp
        BY <2>1 DEF Sweeps!HpChanges
      <3>2. s8' \in BOOLEAN
        BY <2>1, Zenon DEF Sweeps!HpChanges
      <3> QED
        BY <3>1, <3>2
    <2>2. CASE Sweeps!WorldChanges \/ Sweeps!StateChanges \/ Sweeps!BagChanges
      BY <1>2, <1>3, <2>2, Zenon DEF Sweeps!WorldChanges, Sweeps!StateChanges, Sweeps!BagChanges
    <2> QED
      BY <2>1, <2>2 DEF Sweeps!Game
  <1>8. s6'.pc # "sleep" /\ s1' = "drink" => s3' >= s6'.hp \/ s8' = TRUE
    <2>1. CASE Sweeps!HpChanges
      <3>1. s6.hp \in 0 .. MaxHp /\ MaxHp \in Nat
        BY <1>2, SweepNumbers DEF SweepTick
      <3>2. s8' = (s8 \/ s3' < s3) /\ s3' \in 0 .. MaxHp
        BY <2>1 DEF Sweeps!HpChanges
      <3>3. CASE s3' < s3
        BY <3>2, <3>3, Zenon
      <3>4. CASE ~(s3' < s3)
        <4>1. s8 = TRUE => s8' = TRUE
          BY <3>2, Zenon
        <4>2. s3 >= s6.hp => s3' >= s6.hp
          BY <1>2, <3>1, <3>2, <3>4
        <4> QED
          BY <1>1, <4>1, <4>2 DEF SweepsInvariant
      <3> QED
        BY <3>3, <3>4
    <2>2. CASE Sweeps!WorldChanges \/ Sweeps!StateChanges \/ Sweeps!BagChanges
      <3>1. s3' = s3 /\ s8' = s8
        BY <2>2, Zenon DEF Sweeps!WorldChanges, Sweeps!StateChanges, Sweeps!BagChanges
      <3> QED
        BY <1>1, <3>1, Zenon DEF SweepsInvariant
    <2> QED
      BY <2>1, <2>2 DEF Sweeps!Game
  <1>9. Sweeps!TypeOK'
    <2>1. s6' \in SweepTick'
      BY <1>1, <1>2, <1>4 DEF SweepTick
    <2> QED
      BY <1>1, <1>2, <1>4, <1>5, <1>6, <1>7, <2>1, Zenon DEF Sweeps!TypeOK, SweepTick
  <1>10. s6'.pc = "call" => s6'.entry \in Sweeps!Entries'
    BY <1>1, <1>4, Zenon DEF SweepsInvariant
  <1> QED
    BY <1>8, <1>9, <1>10, Zenon DEF SweepsInvariant

LEMMA TickKeepsSweeps ==
    ASSUME Sweeps!SweepsAssumption, SweepsInvariant, Sweeps!Tick \/ Sweeps!Elapse
    PROVE  SweepsInvariant'
  <1>1. s1' = s1 /\ s2' = s2 /\ s3' = s3 /\ s4' = s4 /\ s5' = s5
    BY Zenon
    DEF Sweeps!Tick, Sweeps!Elapse, Sweeps!Wakes, Sweeps!Passes, Sweeps!Calls, Sweeps!Ends, Sweeps!Returns
  <1>2. /\ s1 \in {"drink", "status"} /\ s3 \in 0 .. MaxHp
        /\ s4 \subseteq Sweeps!Entries /\ s5 \subseteq Sweeps!Entries /\ s6 \in SweepTick
        /\ s7 \in [Sweeps!Features -> 0 .. Sweeps!Longest]
    BY SweepTypes, Zenon DEF SweepsInvariant
  <1>3. s2 \in BOOLEAN /\ s8 \in BOOLEAN
    BY SweepTypes, Zenon DEF SweepsInvariant
  <1>4. Sweeps!Entries' = Sweeps!Entries /\ Sweeps!LastEntry' = Sweeps!LastEntry
    BY <1>1 DEF Sweeps!Entries, Sweeps!LastEntry
  <1> SUFFICES /\ s6' \in SweepTick
               /\ s7' \in [Sweeps!Features -> 0 .. Sweeps!Longest]
               /\ s8' \in BOOLEAN
               /\ s6'.pc # "sleep" /\ s1 = "drink" => s3 >= s6'.hp \/ s8' = TRUE
               /\ s6'.pc = "call" => s6'.entry \in Sweeps!Entries
    <2>1. s6' \in SweepTick'
      BY <1>4 DEF SweepTick
    <2>2. Sweeps!TypeOK'
      BY <1>1, <1>2, <1>3, <1>4, <2>1, Zenon DEF Sweeps!TypeOK, SweepTick
    <2> QED
      BY <1>1, <1>4, <2>2, Zenon DEF SweepsInvariant
  <1>5. /\ Sweeps!Entries = 1 .. Sweeps!LastEntry /\ Sweeps!LastEntry \in Nat
        /\ MaxHp \in Nat /\ Sweeps!Longest \in Nat /\ Stuck \in Nat \ {0}
        /\ 0 \in 0 .. Stuck /\ 0 \in 0 .. MaxHp /\ 0 \in 0 .. Sweeps!Longest
    BY SweepNumbers DEF Sweeps!Entries
  <1>6. /\ s6.pc # "sleep" /\ s1 = "drink" => s3 >= s6.hp \/ s8 = TRUE
        /\ s6.pc = "call" => s6.entry \in Sweeps!Entries
    BY Zenon DEF SweepsInvariant
  \* What the steps of a tick have in common.
  <1>7. ASSUME NEW e \in Sweeps!Features
        PROVE  Sweeps!Cooling(e) \in [Sweeps!Features -> 0 .. Sweeps!Longest]
    BY <1>2, SweepNumbers DEF Sweeps!Cooling
  <1>8. ASSUME s6.entry \in Sweeps!Entries
        PROVE  /\ Sweeps!Next1 \in SweepTick /\ Sweeps!Next1.pc = "entries" /\ Sweeps!Next1.hp = s6.hp
    <2>1. s6.entry + 1 \in 0 .. Sweeps!LastEntry + 1
      BY <1>5, <1>8
    <2>2. Sweeps!Next1 = [s6 EXCEPT !.pc = "entries", !.entry = s6.entry + 1, !.waits = 0]
      BY DEF Sweeps!Next1
    <2> QED
      BY <1>2, <1>5, <2>1, <2>2 DEF SweepTick
  <1>9. CASE Sweeps!Wakes
    <2>1. s7' = s7
      BY <1>9, Zenon DEF Sweeps!Wakes
    <2>2. CASE s2
      <3> DEFINE seen == IF s1 = "drink" THEN s3 ELSE 0
                 dry == s1 = "drink" /\ Sweeps!MpRow \in s4
      <3>1. s6' = [Sweeps!Asleep EXCEPT !.pc = "entries", !.entry = 1, !.waits = 0,
                                        !.hp = seen, !.dry = dry]
        BY <1>9, <2>2 DEF Sweeps!Wakes
      <3>2. s8' = FALSE
        BY <1>9, <2>2 DEF Sweeps!Wakes
      <3>3. seen \in 0 .. MaxHp /\ dry \in BOOLEAN /\ (s1 = "drink" => seen = s3)
        BY <1>2, <1>5
      <3> HIDE DEF seen, dry
      <3>4. s6' = [pc |-> "entries", entry |-> 1, hp |-> seen, dry |-> dry, age |-> 0, waits |-> 0]
        BY <3>1 DEF Sweeps!Asleep
      <3>5. 1 \in 0 .. Sweeps!LastEntry + 1
        BY <1>5
      <3>6. s6' \in SweepTick
        BY <1>5, <3>3, <3>4, <3>5 DEF SweepTick
      <3>7. s6'.pc = "entries" /\ s6'.hp = seen
        BY <3>4
      <3>8. s1 = "drink" => s3 >= s6'.hp
        BY <1>2, <1>5, <3>3, <3>7
      <3> QED
        BY <1>2, <2>1, <3>2, <3>6, <3>7, <3>8
    <2>3. CASE ~s2
      <3>1. s6' = Sweeps!Asleep /\ s8' = s8
        BY <1>9, <2>3 DEF Sweeps!Wakes
      <3> QED
        BY <1>2, <1>3, <2>1, <3>1, SleepIsTyped, Zenon
    <2> QED
      BY <2>2, <2>3
  <1>10. CASE Sweeps!Passes
    <2>1. s6.pc = "entries" /\ s6.entry \in Sweeps!Entries /\ s6' = Sweeps!Next1 /\ s8' = s8
      BY <1>10, Zenon DEF Sweeps!Passes, Sweeps!Now
    <2>2. s7' \in [Sweeps!Features -> 0 .. Sweeps!Longest]
      <3>1. s7' = s7 \/ s7' = Sweeps!Cooling(s6.entry)
        BY <1>10, Zenon DEF Sweeps!Passes
      <3>2. s1 = "status" => s6.entry \in Sweeps!Features
        BY <1>5, <2>1, SweepNumbers DEF Sweeps!LastEntry
      <3>3. s1 # "status" => Sweeps!Cooling(s6.entry) = s7
        BY DEF Sweeps!Cooling
      <3> QED
        BY <1>2, <1>7, <3>1, <3>2, <3>3
    <2>3. s6' \in SweepTick /\ s6'.pc = "entries" /\ s6'.hp = s6.hp
      BY <1>8, <2>1
    <2> QED
      BY <1>3, <1>6, <2>1, <2>2, <2>3, Zenon
  <1>11. CASE Sweeps!Calls
    <2>1. /\ s6.pc = "entries" /\ s6.entry \in Sweeps!Entries
          /\ s6' = [s6 EXCEPT !.pc = "call"] /\ s7' = Sweeps!Cooling(s6.entry) /\ s8' = s8
      BY <1>11, Zenon DEF Sweeps!Calls, Sweeps!Now
    <2>2. s7' \in [Sweeps!Features -> 0 .. Sweeps!Longest]
      <3>1. s1 = "status" => s6.entry \in Sweeps!Features
        BY <1>5, <2>1, SweepNumbers DEF Sweeps!LastEntry
      <3>2. s1 # "status" => Sweeps!Cooling(s6.entry) = s7
        BY DEF Sweeps!Cooling
      <3> QED
        BY <1>2, <1>7, <2>1, <3>1, <3>2
    <2>3. s6' \in SweepTick /\ s6'.hp = s6.hp /\ s6'.entry = s6.entry
      BY <1>2, <2>1 DEF SweepTick
    <2> QED
      BY <1>3, <1>6, <2>1, <2>2, <2>3, Zenon
  <1>12. CASE \E well \in BOOLEAN : Sweeps!Returns(well)
    <2>1. s6.pc = "call" /\ s6' = Sweeps!Next1 /\ s7' = s7 /\ s8' = s8
      BY <1>12, Zenon DEF Sweeps!Returns, Sweeps!AfterCall
    <2>2. s6' \in SweepTick /\ s6'.pc = "entries" /\ s6'.hp = s6.hp
      BY <1>6, <1>8, <2>1
    <2> QED
      BY <1>2, <1>3, <1>6, <2>1, <2>2, Zenon
  <1>13. CASE Sweeps!Ends
    <2>1. /\ s6' = Sweeps!Asleep /\ s8' = s8
          /\ s7' = [f \in Sweeps!Features |-> IF s7[f] > s6.age THEN s7[f] - s6.age ELSE 0]
      BY <1>13, Zenon DEF Sweeps!Ends
    <2>2. s6.age \in 0 .. Sweeps!Longest
      BY <1>2 DEF SweepTick
    <2>3. ASSUME NEW f \in Sweeps!Features
          PROVE  (IF s7[f] > s6.age THEN s7[f] - s6.age ELSE 0) \in 0 .. Sweeps!Longest
      <3>1. s7[f] \in 0 .. Sweeps!Longest
        BY <1>2
      <3> QED
        BY <1>5, <2>2, <3>1
    <2>4. s7' \in [Sweeps!Features -> 0 .. Sweeps!Longest]
      BY <2>1, <2>3
    <2> QED
      BY <1>3, <2>1, <2>4, SleepIsTyped, Zenon
  <1>14. CASE Sweeps!Elapse
    <2>1. s8' = s8
      BY <1>14, Zenon DEF Sweeps!Elapse
    <2>2. CASE s6.pc = "sleep"
      <3>1. /\ s6.waits > 0 /\ s6' = [s6 EXCEPT !.waits = s6.waits - 1]
            /\ s7' = [f \in Sweeps!Features |-> IF s7[f] > 0 THEN s7[f] - 1 ELSE 0]
        BY <1>14, <2>2 DEF Sweeps!Elapse
      <3>2. s6.waits - 1 \in 0 .. Stuck
        <4>1. s6.waits \in 0 .. Stuck
          BY <1>2 DEF SweepTick
        <4> QED
          BY <1>5, <3>1, <4>1
      <3>3. s6' \in SweepTick /\ s6'.pc = "sleep"
        BY <1>2, <2>2, <3>1, <3>2 DEF SweepTick
      <3>4. ASSUME NEW f \in Sweeps!Features
            PROVE  (IF s7[f] > 0 THEN s7[f] - 1 ELSE 0) \in 0 .. Sweeps!Longest
        <4>1. s7[f] \in 0 .. Sweeps!Longest
          BY <1>2
        <4> QED
          BY <1>5, <4>1
      <3>5. s7' \in [Sweeps!Features -> 0 .. Sweeps!Longest]
        BY <3>1, <3>4
      <3> QED
        BY <1>3, <2>1, <3>3, <3>5, Zenon
    <2>3. CASE s6.pc # "sleep"
      <3> DEFINE age == IF s6.age < Sweeps!Longest THEN s6.age + 1 ELSE s6.age
      <3>1. /\ s6.waits < Stuck /\ s7' = s7 /\ s6.pc = "call"
            /\ s6' = [s6 EXCEPT !.waits = s6.waits + 1, !.age = age]
        BY <1>14, <2>3 DEF Sweeps!Elapse
      <3>2. s6.waits + 1 \in 0 .. Stuck /\ age \in 0 .. Sweeps!Longest
        <4>1. s6.waits \in 0 .. Stuck /\ s6.age \in 0 .. Sweeps!Longest
          BY <1>2 DEF SweepTick
        <4> QED
          BY <1>5, <3>1, <4>1
      <3> HIDE DEF age
      <3>3. s6' \in SweepTick /\ s6'.entry = s6.entry /\ s6'.hp = s6.hp
        BY <1>2, <3>1, <3>2 DEF SweepTick
      <3> QED
        BY <1>2, <1>3, <1>6, <2>1, <2>3, <3>1, <3>3, Zenon
    <2> QED
      BY <2>2, <2>3
  <1> QED
    BY <1>9, <1>10, <1>11, <1>12, <1>13, <1>14, Zenon DEF Sweeps!Tick

LEMMA SweepsKeep ==
    ASSUME Sweeps!SweepsAssumption, SweepsInvariant, [Sweeps!Next]_(Sweeps!vars)
    PROVE  SweepsInvariant'
  <1>1. CASE UNCHANGED Sweeps!vars
    <2>1. /\ s1' = s1 /\ s2' = s2 /\ s3' = s3 /\ s4' = s4 /\ s5' = s5 /\ s6' = s6 /\ s7' = s7 /\ s8' = s8
      BY <1>1 DEF Sweeps!vars
    <2>2. Sweeps!Entries' = Sweeps!Entries /\ Sweeps!LastEntry' = Sweeps!LastEntry
      BY <2>1 DEF Sweeps!Entries, Sweeps!LastEntry
    <2> QED
      BY <2>1, <2>2, Zenon DEF SweepsInvariant, Sweeps!TypeOK
  <1> QED
    BY <1>1, GameKeepsSweeps, TickKeepsSweeps, Zenon DEF Sweeps!Next

\* MP are bought with HP that were seen, or lost since.
LEMMA MpAreSafe ==
    ASSUME Sweeps!SweepsAssumption, SweepsInvariant
    PROVE  Sweeps!MpWhenSafe
  <1> SUFFICES ASSUME Sweeps!Calls, s1 = "drink", s6.entry = Sweeps!MpRow, s8 # TRUE
               PROVE  s3 >= MpSafe
    BY Zenon DEF Sweeps!MpWhenSafe
  <1>1. s6.hp >= MpSafe /\ s6.pc # "sleep"
    BY DEF Sweeps!Calls, Sweeps!Now, Sweeps!Due, Sweeps!Triggered
  <1>2. s3 >= s6.hp
    BY <1>1, Zenon DEF SweepsInvariant
  <1>3. s3 \in 0 .. MaxHp /\ s6.hp \in 0 .. MaxHp
    BY SweepTypes DEF SweepsInvariant, SweepTick
  <1> QED
    BY <1>1, <1>2, <1>3, SweepNumbers

-----------------------------------------------------------------------------
(* The buffs.                                                              *)

BuffTickType ==
    [pc : {"sleep", "rows", "call"}, row : Buffs!RowIds \cup {0, Len(BuffPage) + 1},
     age : Buffs!Ages, waits : 0 .. Stuck, gone : SUBSET Effects, cast : BOOLEAN]

\* What is left of the cooldown of a row whose answer is awaited, at the end of
\* the tick as it is now, is enough for the answer to come.
Awaits(e) ==
    s6[e] # 0 => /\ s6[e] \in Buffs!RowIds /\ BuffPage[s6[e]].effect = e /\ s3[e] \in 1 .. Rtt
                 /\ s5[Buffs!Key(s6[e])] + s3[e] > s4.age + Rtt

BuffsInvariant ==
    /\ Buffs!TypeOK
    /\ s4.pc = "sleep" => s4.age = 0
    /\ s4.pc = "call" => s4.row \in Buffs!RowIds
    /\ \A e \in Effects : Awaits(e)

LEMMA BuffTypes ==
    Buffs!TypeOK <=> /\ s1 \in BOOLEAN /\ s2 \in [Things -> Buffs!Places]
                     /\ s3 \in [Effects -> Buffs!Off .. Buffs!On]
                     /\ s4 \in BuffTickType
                     /\ s5 \in [Buffs!Keys -> Buffs!Ages]
                     /\ s6 \in [Effects -> Buffs!RowIds \cup {0}]
  BY Zenon DEF Buffs!TypeOK, BuffTickType

LEMMA BuffNumbers ==
    ASSUME Buffs!BuffsAssumption
    PROVE  /\ Buffs!RowIds = 1 .. Len(BuffPage) /\ Len(BuffPage) \in Nat /\ 0 \notin Buffs!RowIds
           /\ \A r \in Buffs!RowIds : BuffPage[r].effect \in Effects /\ Buffs!Key(r) \in Buffs!Keys
           /\ Cooldown \in Nat \ {0} /\ Stuck \in Nat \ {0} /\ Rtt \in Nat \ {0}
           /\ Buffs!Off = 0 /\ Buffs!On = Rtt + 1 /\ Buffs!Ages = 0 .. Cooldown
           /\ 0 \in 0 .. Stuck /\ 1 \in 0 .. Stuck /\ 0 \in Buffs!Ages /\ Cooldown \in Buffs!Ages
  <1> DEFINE row == [type : Buffs!Types, aim : Buffs!Aims, effect : Effects, name : Things]
  <1>1. /\ BuffPage \in Seq(row)
        /\ Cooldown \in Nat \ {0} /\ Stuck \in Nat \ {0} /\ Rtt \in Nat \ {0}
    BY DEF Buffs!BuffsAssumption
  <1>2. Buffs!RowIds = 1 .. Len(BuffPage) /\ Len(BuffPage) \in Nat
    BY <1>1 DEF Buffs!RowIds
  <1>3. \A r \in Buffs!RowIds : BuffPage[r] \in row
    <2> HIDE DEF row
    <2> QED
      BY <1>1, <1>2
  <1>4. \A r \in Buffs!RowIds : Buffs!Key(r) \in Buffs!Keys
    BY DEF Buffs!Keys
  <1>5. Buffs!Off = 0 /\ Buffs!On = Rtt + 1 /\ Buffs!Ages = 0 .. Cooldown
    BY DEF Buffs!Off, Buffs!On, Buffs!Ages
  <1> QED
    BY <1>1, <1>2, <1>3, <1>4, <1>5

LEMMA BuffSleepIsTyped ==
    ASSUME Buffs!BuffsAssumption
    PROVE  /\ Buffs!Asleep \in BuffTickType /\ Buffs!Asleep.pc = "sleep" /\ Buffs!Asleep.age = 0
           /\ [Buffs!Asleep EXCEPT !.waits = 0] \in BuffTickType
           /\ [Buffs!Asleep EXCEPT !.waits = 0].pc = "sleep"
           /\ [Buffs!Asleep EXCEPT !.waits = 0].age = 0
  BY BuffNumbers DEF Buffs!Asleep, BuffTickType

LEMMA BuffsBegin == ASSUME Buffs!BuffsAssumption, Buffs!Init PROVE BuffsInvariant
  <1>1. s4 \in BuffTickType /\ s4.pc = "sleep" /\ s4.age = 0
    BY BuffSleepIsTyped DEF Buffs!Init
  <1>2. s3 \in [Effects -> Buffs!Off .. Buffs!On] /\ s5 \in [Buffs!Keys -> Buffs!Ages]
    BY BuffNumbers DEF Buffs!Init
  <1>3. s6 \in [Effects -> Buffs!RowIds \cup {0}] /\ \A e \in Effects : s6[e] = 0
    BY DEF Buffs!Init
  <1>4. s1 \in BOOLEAN /\ s2 \in [Things -> Buffs!Places]
    BY DEF Buffs!Init, Buffs!Places
  <1> QED
    BY <1>1, <1>2, <1>3, <1>4, BuffTypes, Zenon DEF BuffsInvariant, Awaits

LEMMA PlayerKeepsBuffs ==
    ASSUME Buffs!BuffsAssumption, BuffsInvariant, Buffs!Player
    PROVE  BuffsInvariant'
  <1>1. s3' = s3 /\ s4' = s4 /\ s5' = s5 /\ s6' = s6
    BY DEF Buffs!Player, Buffs!WorldChanges, Buffs!BagChanges
  <1>2. s1' \in BOOLEAN /\ s2' \in [Things -> Buffs!Places]
    BY BuffTypes
    DEF BuffsInvariant, Buffs!Player, Buffs!WorldChanges, Buffs!BagChanges, Buffs!Places
  <1> QED
    BY <1>1, <1>2, Zenon DEF BuffsInvariant, Buffs!TypeOK, Awaits

LEMMA ServerKeepsBuffs ==
    ASSUME Buffs!BuffsAssumption, BuffsInvariant, Buffs!Server
    PROVE  BuffsInvariant'
  <1>1. PICK e \in Effects : Buffs!Answers(e) \/ Buffs!WearsOff(e)
    BY DEF Buffs!Server
  <1>2. s1' = s1 /\ s2' = s2 /\ s4' = s4 /\ s5' = s5
    BY <1>1 DEF Buffs!Answers, Buffs!WearsOff
  <1>3. /\ s3 \in [Effects -> Buffs!Off .. Buffs!On] /\ s6 \in [Effects -> Buffs!RowIds \cup {0}]
        /\ Awaits(e)
    BY BuffTypes DEF BuffsInvariant
  <1>4. s3' \in [Effects -> Buffs!Off .. Buffs!On] /\ \A d \in Effects \ {e} : s3'[d] = s3[d]
    <2>1. Buffs!Off \in Buffs!Off .. Buffs!On /\ Buffs!On \in Buffs!Off .. Buffs!On
      BY BuffNumbers
    <2> QED
      BY <1>1, <1>3, <2>1 DEF Buffs!Answers, Buffs!WearsOff
  <1>5. s6' \in [Effects -> Buffs!RowIds \cup {0}] /\ s6'[e] = 0 /\ \A d \in Effects \ {e} : s6'[d] = s6[d]
    <2>1. CASE Buffs!Answers(e)
      BY <1>3, <2>1 DEF Buffs!Answers
    <2>2. CASE Buffs!WearsOff(e)
      <3>1. s3[e] \notin 1 .. Rtt
        BY <2>2, BuffNumbers DEF Buffs!WearsOff
      <3> QED
        BY <1>3, <2>2, <3>1 DEF Buffs!WearsOff, Awaits
    <2> QED
      BY <1>1, <2>1, <2>2
  <1>6. ASSUME NEW d \in Effects PROVE Awaits(d)'
    <2>1. Awaits(d)
      BY DEF BuffsInvariant
    <2> QED
      BY <1>2, <1>4, <1>5, <2>1 DEF Awaits
  <1> QED
    BY <1>2, <1>4, <1>5, <1>6, Zenon DEF BuffsInvariant, Buffs!TypeOK

LEMMA TimePassesForBuffs ==
    ASSUME Buffs!BuffsAssumption, BuffsInvariant, Buffs!Elapse
    PROVE  BuffsInvariant'
  <1>1. /\ s1' = s1 /\ s2' = s2 /\ s6' = s6
        /\ s3' = [e \in Effects |-> Buffs!Older(e)]
        /\ \A e \in Effects : Buffs!Away(e) => s3[e] < Rtt
    BY DEF Buffs!Elapse
  <1>2. /\ s1 \in BOOLEAN /\ s2 \in [Things -> Buffs!Places]
        /\ s3 \in [Effects -> Buffs!Off .. Buffs!On] /\ s4 \in BuffTickType
        /\ s5 \in [Buffs!Keys -> Buffs!Ages] /\ s6 \in [Effects -> Buffs!RowIds \cup {0}]
    BY BuffTypes DEF BuffsInvariant
  <1>3. ASSUME NEW e \in Effects
        PROVE  /\ s3'[e] \in Buffs!Off .. Buffs!On
               /\ s3[e] \in 1 .. Rtt => s3'[e] = s3[e] + 1 /\ s3'[e] \in 1 .. Rtt
    <2>1. s3[e] \in 0 .. Rtt + 1 /\ Rtt \in Nat
      BY <1>2, BuffNumbers
    <2>2. s3'[e] = IF s3[e] \in 1 .. Rtt THEN s3[e] + 1 ELSE s3[e]
      BY <1>1 DEF Buffs!Older, Buffs!Away
    <2>3. s3[e] \in 1 .. Rtt => s3[e] < Rtt
      BY <1>1 DEF Buffs!Away
    <2> QED
      BY <2>1, <2>2, <2>3, BuffNumbers
  <1>4. s3' \in [Effects -> Buffs!Off .. Buffs!On]
    BY <1>1, <1>3
  <1>5. s4.waits \in 0 .. Stuck /\ s4.age \in 0 .. Cooldown /\ Stuck \in Nat /\ Cooldown \in Nat
    BY <1>2, BuffNumbers DEF BuffTickType
  <1>6. CASE s4.pc = "sleep"
    <2>1. /\ s4.waits > 0 /\ s4' = [s4 EXCEPT !.waits = s4.waits - 1]
          /\ s5' = [k \in Buffs!Keys |-> IF s5[k] > 0 THEN s5[k] - 1 ELSE 0]
      BY <1>6 DEF Buffs!Elapse
    <2>2. s4.waits - 1 \in 0 .. Stuck
      BY <1>5, <2>1
    <2>3. s4' \in BuffTickType /\ s4'.pc = "sleep" /\ s4'.age = s4.age /\ s4.age = 0
      BY <1>2, <1>6, <2>1, <2>2 DEF BuffTickType, BuffsInvariant
    <2>4. ASSUME NEW k \in Buffs!Keys
          PROVE  s5'[k] \in Buffs!Ages /\ s5[k] \in Nat /\ s5'[k] \in Nat /\ s5'[k] + 1 >= s5[k]
      <3>1. s5[k] \in 0 .. Cooldown
        BY <1>2, BuffNumbers
      <3> QED
        BY <1>5, <2>1, <3>1, BuffNumbers
    <2>5. s5' \in [Buffs!Keys -> Buffs!Ages]
      BY <2>1, <2>4
    <2>6. ASSUME NEW e \in Effects PROVE Awaits(e)'
      <3> SUFFICES ASSUME s6[e] # 0
                   PROVE  /\ s6[e] \in Buffs!RowIds /\ BuffPage[s6[e]].effect = e /\ s3'[e] \in 1 .. Rtt
                          /\ s5'[Buffs!Key(s6[e])] + s3'[e] > s4'.age + Rtt
        BY <1>1 DEF Awaits, Buffs!Key
      <3>1. /\ s6[e] \in Buffs!RowIds /\ BuffPage[s6[e]].effect = e /\ s3[e] \in 1 .. Rtt
            /\ s5[Buffs!Key(s6[e])] + s3[e] > s4.age + Rtt
        BY DEF BuffsInvariant, Awaits
      <3>2. Buffs!Key(s6[e]) \in Buffs!Keys /\ Rtt \in Nat
        BY <3>1, BuffNumbers
      <3> DEFINE k == Buffs!Key(s6[e])
      <3> HIDE DEF k
      <3>3. s5'[k] \in Nat /\ s5[k] \in Nat /\ s5'[k] + 1 >= s5[k]
        BY <2>4, <3>2 DEF k
      <3>4. s5[k] + s3[e] > s4.age + Rtt
        BY <3>1 DEF k
      <3>5. s5'[k] + s3'[e] > s4'.age + Rtt
        BY <1>3, <1>5, <2>3, <3>1, <3>2, <3>3, <3>4
      <3> QED
        BY <1>3, <3>1, <3>5 DEF k
    <2> QED
      BY <1>1, <1>2, <1>4, <2>3, <2>5, <2>6 DEF BuffsInvariant, Buffs!TypeOK, BuffTickType
  <1>7. CASE s4.pc # "sleep"
    <2> DEFINE age == IF s4.age < Cooldown THEN s4.age + 1 ELSE s4.age
    <2>1. /\ s4.pc = "call" /\ s4.waits < Stuck /\ s5' = s5
          /\ s4' = [s4 EXCEPT !.waits = s4.waits + 1, !.age = age]
      BY <1>7 DEF Buffs!Elapse
    <2>2. s4.waits + 1 \in 0 .. Stuck /\ age \in Buffs!Ages /\ age <= s4.age + 1 /\ age \in Nat
      BY <1>5, <2>1, BuffNumbers
    <2> HIDE DEF age
    <2>3. s4' \in BuffTickType /\ s4'.pc = "call" /\ s4'.age = age /\ s4'.row = s4.row
      BY <1>2, <2>1, <2>2 DEF BuffTickType
    <2>4. ASSUME NEW e \in Effects PROVE Awaits(e)'
      <3> SUFFICES ASSUME s6[e] # 0
                   PROVE  /\ s6[e] \in Buffs!RowIds /\ BuffPage[s6[e]].effect = e /\ s3'[e] \in 1 .. Rtt
                          /\ s5[Buffs!Key(s6[e])] + s3'[e] > s4'.age + Rtt
        BY <1>1, <2>1 DEF Awaits, Buffs!Key
      <3>1. /\ s6[e] \in Buffs!RowIds /\ BuffPage[s6[e]].effect = e /\ s3[e] \in 1 .. Rtt
            /\ s5[Buffs!Key(s6[e])] + s3[e] > s4.age + Rtt
        BY DEF BuffsInvariant, Awaits
      <3>2. s5[Buffs!Key(s6[e])] \in 0 .. Cooldown /\ Rtt \in Nat
        BY <1>2, <3>1, BuffNumbers
      <3>3. s5[Buffs!Key(s6[e])] + s3'[e] > s4'.age + Rtt
        BY <1>3, <1>5, <2>2, <2>3, <3>1, <3>2
      <3> QED
        BY <1>3, <3>1, <3>3
    <2> QED
      BY <1>1, <1>2, <1>4, <2>1, <2>3, <2>4
      DEF BuffsInvariant, Buffs!TypeOK, BuffTickType
  <1> QED
    BY <1>6, <1>7

\* A row that has been used cools: what is awaited stays awaited.
LEMMA CoolingKeeps ==
    ASSUME Buffs!BuffsAssumption, BuffsInvariant, NEW r \in Buffs!RowIds
    PROVE  /\ Buffs!Cooling(r) \in [Buffs!Keys -> Buffs!Ages]
           /\ Buffs!Cooling(r)[Buffs!Key(r)] = Cooldown
           /\ \A k \in Buffs!Keys : s5[k] \in Nat /\ Buffs!Cooling(r)[k] \in Nat /\ Buffs!Cooling(r)[k] >= s5[k]
  <1>1. /\ s5 \in [Buffs!Keys -> Buffs!Ages] /\ Buffs!Ages = 0 .. Cooldown /\ Cooldown \in Nat
        /\ Buffs!Key(r) \in Buffs!Keys
    BY BuffTypes, BuffNumbers DEF BuffsInvariant
  <1>2. Buffs!Cooling(r) = [s5 EXCEPT ![Buffs!Key(r)] = Cooldown]
    BY DEF Buffs!Cooling
  <1> DEFINE key == Buffs!Key(r)
             cooled == Buffs!Cooling(r)
  <1> HIDE DEF key, cooled
  <1>3. cooled = [s5 EXCEPT ![key] = Cooldown] /\ key \in Buffs!Keys
    BY <1>1, <1>2 DEF key, cooled
  <1>4. cooled \in [Buffs!Keys -> 0 .. Cooldown] /\ cooled[key] = Cooldown
    BY <1>1, <1>3
  <1>5. ASSUME NEW k \in Buffs!Keys PROVE s5[k] \in Nat /\ cooled[k] \in Nat /\ cooled[k] >= s5[k]
    <2>1. s5[k] \in 0 .. Cooldown
      BY <1>1
    <2> QED
      BY <1>1, <1>3, <2>1
  <1> QED
    BY <1>1, <1>4, <1>5 DEF key, cooled

LEMMA TickKeepsBuffs ==
    ASSUME Buffs!BuffsAssumption, BuffsInvariant, Buffs!BuffTick
    PROVE  BuffsInvariant'
  <1>1. s1' = s1 /\ s2' = s2
    BY Zenon
    DEF Buffs!BuffTick, Buffs!Wakes, Buffs!Passes, Buffs!Skips, Buffs!Calls, Buffs!IsDone,
        Buffs!HasFailed, Buffs!WasStuck, Buffs!Returns, Buffs!Ends
  <1>2. /\ s1 \in BOOLEAN /\ s2 \in [Things -> Buffs!Places]
        /\ s3 \in [Effects -> Buffs!Off .. Buffs!On] /\ s4 \in BuffTickType
        /\ s5 \in [Buffs!Keys -> Buffs!Ages] /\ s6 \in [Effects -> Buffs!RowIds \cup {0}]
    BY BuffTypes DEF BuffsInvariant
  <1> SUFFICES /\ s3' \in [Effects -> Buffs!Off .. Buffs!On] /\ s4' \in BuffTickType
               /\ s5' \in [Buffs!Keys -> Buffs!Ages] /\ s6' \in [Effects -> Buffs!RowIds \cup {0}]
               /\ s4'.pc = "sleep" => s4'.age = 0
               /\ s4'.pc = "call" => s4'.row \in Buffs!RowIds
               /\ \A e \in Effects : Awaits(e)'
    BY <1>1, <1>2, Zenon DEF BuffsInvariant, Buffs!TypeOK, BuffTickType
  <1>3. /\ s4.pc = "sleep" => s4.age = 0
        /\ s4.pc = "call" => s4.row \in Buffs!RowIds
        /\ \A e \in Effects : Awaits(e)
    BY DEF BuffsInvariant
  <1>4. s4.age \in 0 .. Cooldown /\ Cooldown \in Nat \ {0} /\ Rtt \in Nat \ {0}
    BY <1>2, BuffNumbers DEF BuffTickType
  <1>5. ASSUME s4.row \in Buffs!RowIds
        PROVE  /\ Buffs!Next1 \in BuffTickType /\ Buffs!Next1.pc = "rows" /\ Buffs!Next1.age = s4.age
               /\ \A c \in BOOLEAN : /\ [Buffs!Next1 EXCEPT !.cast = c] \in BuffTickType
                                     /\ [Buffs!Next1 EXCEPT !.cast = c].pc = "rows"
                                     /\ [Buffs!Next1 EXCEPT !.cast = c].age = s4.age
    <2>1. s4.row + 1 \in Buffs!RowIds \cup {0, Len(BuffPage) + 1} /\ 0 \in 0 .. Stuck
      BY <1>5, BuffNumbers
    <2>2. Buffs!Next1 = [s4 EXCEPT !.pc = "rows", !.row = s4.row + 1, !.waits = 0]
      BY DEF Buffs!Next1
    <2>3. Buffs!Next1 \in BuffTickType /\ Buffs!Next1.pc = "rows" /\ Buffs!Next1.age = s4.age
      BY <1>2, <2>1, <2>2 DEF BuffTickType
    <2>4. ASSUME NEW c \in BOOLEAN
          PROVE  /\ [Buffs!Next1 EXCEPT !.cast = c] \in BuffTickType
                 /\ [Buffs!Next1 EXCEPT !.cast = c].pc = "rows"
                 /\ [Buffs!Next1 EXCEPT !.cast = c].age = s4.age
      BY <2>3 DEF BuffTickType
    <2> QED
      BY <2>3, <2>4
  \* Nothing changes that is awaited, and no cooldown ends.
  <1>6. ASSUME s3' = s3, s6' = s6, s4'.age = s4.age,
               s5' \in [Buffs!Keys -> Buffs!Ages], \A k \in Buffs!Keys : s5'[k] >= s5[k]
        PROVE  \A e \in Effects : Awaits(e)'
    <2> SUFFICES ASSUME NEW e \in Effects, s6[e] # 0
                 PROVE  /\ s6[e] \in Buffs!RowIds /\ BuffPage[s6[e]].effect = e /\ s3[e] \in 1 .. Rtt
                        /\ s5'[Buffs!Key(s6[e])] + s3[e] > s4'.age + Rtt
      BY <1>6 DEF Awaits, Buffs!Key
    <2>1. /\ s6[e] \in Buffs!RowIds /\ BuffPage[s6[e]].effect = e /\ s3[e] \in 1 .. Rtt
          /\ s5[Buffs!Key(s6[e])] + s3[e] > s4.age + Rtt
      BY <1>3 DEF Awaits
    <2>2. Buffs!Key(s6[e]) \in Buffs!Keys
      BY <2>1, BuffNumbers
    <2>3. /\ s5[Buffs!Key(s6[e])] \in 0 .. Cooldown /\ s5'[Buffs!Key(s6[e])] \in 0 .. Cooldown
          /\ s5'[Buffs!Key(s6[e])] >= s5[Buffs!Key(s6[e])]
      BY <1>2, <1>6, <2>2, BuffNumbers
    <2>4. s5'[Buffs!Key(s6[e])] + s3[e] > s4'.age + Rtt
      BY <1>4, <1>6, <2>1, <2>3
    <2> QED
      BY <2>1, <2>4
  <1>7. CASE Buffs!Wakes
    <2>1. s3' = s3 /\ s5' = s5 /\ s6' = s6 /\ s4.pc = "sleep"
      BY <1>7 DEF Buffs!Wakes
    <2>2. s4' \in BuffTickType /\ s4'.age = 0 /\ s4'.pc \in {"sleep", "rows"}
      <3>1. CASE s1
        <4> DEFINE missing == {e \in Effects : Buffs!Missing(e)}
        <4>1. s4' = [Buffs!Asleep EXCEPT !.pc = "rows", !.row = 1, !.waits = 0, !.gone = missing]
          BY <1>7, <3>1 DEF Buffs!Wakes
        <4>2. missing \in SUBSET Effects /\ 1 \in Buffs!RowIds \cup {0, Len(BuffPage) + 1}
          BY BuffNumbers
        <4> HIDE DEF missing
        <4>3. s4' = [pc |-> "rows", row |-> 1, age |-> 0, waits |-> 0, gone |-> missing, cast |-> FALSE]
          BY <4>1 DEF Buffs!Asleep
        <4>4. 0 \in Buffs!Ages /\ 0 \in 0 .. Stuck
          BY BuffNumbers
        <4>5. s4'.age = 0 /\ s4'.pc = "rows"
          BY <4>3
        <4>6. s4' \in BuffTickType
          BY <4>2, <4>3, <4>4, Zenon DEF BuffTickType
        <4> QED
          BY <4>5, <4>6
      <3>2. CASE ~s1
        <4>1. s4' = Buffs!Asleep
          BY <1>7, <3>2 DEF Buffs!Wakes
        <4> QED
          BY <4>1, BuffSleepIsTyped
      <3> QED
        BY <3>1, <3>2
    <2>3. \A k \in Buffs!Keys : s5'[k] >= s5[k]
      BY <1>2, <2>1, BuffNumbers
    <2> QED
      BY <1>2, <1>3, <1>6, <2>1, <2>2, <2>3
  <1>8. CASE Buffs!Passes \/ Buffs!Calls
    <2>1. s3' = s3 /\ s5' = s5 /\ s6' = s6 /\ s4.pc = "rows" /\ s4.row \in Buffs!RowIds
      BY <1>8 DEF Buffs!Passes, Buffs!Calls, Buffs!AtRow
    <2>2. /\ s4' \in BuffTickType /\ s4'.age = s4.age /\ s4'.pc \in {"rows", "call"}
          /\ s4'.pc = "call" => s4'.row \in Buffs!RowIds
      <3>1. CASE s4' = Buffs!Next1
        BY <1>5, <2>1, <3>1
      <3>2. CASE s4' = [s4 EXCEPT !.pc = "call"]
        BY <1>2, <2>1, <3>2 DEF BuffTickType
      <3> QED
        BY <1>8, <3>1, <3>2 DEF Buffs!Passes, Buffs!Calls
    <2>3. \A k \in Buffs!Keys : s5'[k] >= s5[k]
      BY <1>2, <2>1, BuffNumbers
    <2> QED
      BY <1>2, <1>6, <2>1, <2>2, <2>3
  <1>9. CASE Buffs!Skips
    <2>1. /\ s3' = s3 /\ s6' = s6 /\ s4.row \in Buffs!RowIds
          /\ s4' = Buffs!Next1 /\ s5' = Buffs!Cooling(s4.row)
      BY <1>9 DEF Buffs!Skips, Buffs!AtRow
    <2>2. s4' \in BuffTickType /\ s4'.age = s4.age /\ s4'.pc = "rows"
      BY <1>5, <2>1
    <2>3. s5' \in [Buffs!Keys -> Buffs!Ages] /\ \A k \in Buffs!Keys : s5'[k] >= s5[k]
      BY <2>1, CoolingKeeps
    <2> QED
      BY <1>2, <1>6, <2>1, <2>2, <2>3
  <1>10. CASE Buffs!Ends
    <2>1. /\ s3' = s3 /\ s6' = s6 /\ s4' = Buffs!Asleep
          /\ s5' = [k \in Buffs!Keys |-> IF s5[k] > s4.age THEN s5[k] - s4.age ELSE 0]
      BY <1>10 DEF Buffs!Ends
    <2>2. s4' \in BuffTickType /\ s4'.pc = "sleep" /\ s4'.age = 0
      BY <2>1, BuffSleepIsTyped
    <2>3. ASSUME NEW k \in Buffs!Keys
          PROVE  /\ s5[k] \in Nat /\ s5'[k] \in Nat /\ s5'[k] \in Buffs!Ages
                 /\ s5'[k] >= s5[k] - s4.age
      <3>1. s5[k] \in 0 .. Cooldown
        BY <1>2, BuffNumbers
      <3> QED
        BY <1>4, <2>1, <3>1, BuffNumbers
    <2>4. s5' \in [Buffs!Keys -> Buffs!Ages]
      BY <2>1, <2>3
    <2>5. ASSUME NEW e \in Effects, s6[e] # 0
          PROVE  /\ s6[e] \in Buffs!RowIds /\ BuffPage[s6[e]].effect = e /\ s3[e] \in 1 .. Rtt
                 /\ s5'[Buffs!Key(s6[e])] + s3[e] > s4'.age + Rtt
      <3>1. /\ s6[e] \in Buffs!RowIds /\ BuffPage[s6[e]].effect = e /\ s3[e] \in 1 .. Rtt
            /\ s5[Buffs!Key(s6[e])] + s3[e] > s4.age + Rtt
        BY <1>3, <2>5 DEF Awaits
      <3>2. Buffs!Key(s6[e]) \in Buffs!Keys
        BY <3>1, BuffNumbers
      <3> DEFINE k == Buffs!Key(s6[e])
      <3> HIDE DEF k
      <3>3. /\ s5[k] \in Nat /\ s5'[k] \in Nat /\ s5'[k] >= s5[k] - s4.age
            /\ s5[k] + s3[e] > s4.age + Rtt
        BY <2>3, <3>1, <3>2 DEF k
      <3>4. s5'[k] + s3[e] > s4'.age + Rtt
        BY <1>4, <2>2, <3>1, <3>3
      <3> QED
        BY <3>1, <3>4 DEF k
    <2>6. ASSUME NEW e \in Effects PROVE Awaits(e)'
      BY <2>1, <2>5 DEF Awaits, Buffs!Key
    <2> QED
      BY <1>2, <2>1, <2>2, <2>4, <2>6
  <1>11. ASSUME NEW sent \in BOOLEAN, NEW well \in BOOLEAN, Buffs!Returns(sent, well)
         PROVE  /\ s3' \in [Effects -> Buffs!Off .. Buffs!On] /\ s4' \in BuffTickType
                /\ s5' \in [Buffs!Keys -> Buffs!Ages] /\ s6' \in [Effects -> Buffs!RowIds \cup {0}]
                /\ s4'.pc = "rows"
                /\ \A e \in Effects : Awaits(e)'
    <2> DEFINE cast == s4.cast \/ (well /\ Buffs!Row.type = "S")
    <2>0. PICK row \in Buffs!RowIds : row = s4.row
      BY <1>3, <1>11 DEF Buffs!Returns
    <2>1. PICK used \in Effects : used = BuffPage[row].effect /\ used = Buffs!Row.effect
      BY <2>0, BuffNumbers DEF Buffs!Row
    <2>2. /\ s4' = [Buffs!Next1 EXCEPT !.cast = cast] /\ s5' = Buffs!Cooling(row)
      BY <1>11, <2>0 DEF Buffs!Returns, Buffs!Next1
    <2>3. cast \in BOOLEAN
      BY Zenon
    <2>4. s4' \in BuffTickType /\ s4'.pc = "rows" /\ s4'.age = s4.age
      <3> HIDE DEF cast
      <3> QED
        BY <1>5, <2>0, <2>2, <2>3
    <2>5. /\ s5' \in [Buffs!Keys -> Buffs!Ages] /\ s5'[Buffs!Key(row)] = Cooldown
          /\ \A k \in Buffs!Keys : s5[k] \in Nat /\ s5'[k] \in Nat /\ s5'[k] >= s5[k]
      BY <2>1, <2>2, CoolingKeeps
    <2>6. CASE ~(sent /\ s1 /\ Buffs!Missing(used))
      <3>1. s3' = s3 /\ s6' = s6
        BY <1>11, <2>1, <2>6 DEF Buffs!Returns
      <3> QED
        BY <1>2, <1>6, <2>4, <2>5, <3>1
    <2>7. CASE sent /\ s1 /\ Buffs!Missing(used)
      <3> DEFINE for == IF s4.age + Rtt > Cooldown THEN 0 ELSE row
      <3>1. s3' = [s3 EXCEPT ![used] = 1] /\ s6' = [s6 EXCEPT ![used] = for]
        BY <1>11, <2>0, <2>1, <2>7 DEF Buffs!Returns
      <3>2. for \in Buffs!RowIds \cup {0} /\ 1 \in Buffs!Off .. Buffs!On
        BY <2>1, BuffNumbers
      <3>3. s3' \in [Effects -> Buffs!Off .. Buffs!On] /\ s6' \in [Effects -> Buffs!RowIds \cup {0}]
        BY <1>2, <3>1, <3>2
      <3>4. Awaits(used)'
        <4> SUFFICES ASSUME s6'[used] # 0
                     PROVE  /\ s6'[used] \in Buffs!RowIds /\ BuffPage[s6'[used]].effect = used
                            /\ s3'[used] \in 1 .. Rtt
                            /\ s5'[Buffs!Key(s6'[used])] + s3'[used] > s4'.age + Rtt
          BY DEF Awaits, Buffs!Key
        <4>1. s6'[used] = for /\ s3'[used] = 1
          BY <1>2, <2>1, <3>1
        <4>2. for = row /\ ~(s4.age + Rtt > Cooldown)
          BY <4>1
        <4>3. s6'[used] = row /\ s6'[used] \in Buffs!RowIds /\ BuffPage[s6'[used]].effect = used
          BY <2>1, <4>1, <4>2
        <4>4. s5'[Buffs!Key(s6'[used])] = Cooldown
          BY <2>5, <4>3
        <4>5. s4'.age + Rtt < Cooldown + 1 /\ 1 \in 1 .. Rtt
          BY <1>4, <2>4, <4>2
        <4> QED
          BY <1>4, <2>4, <4>1, <4>3, <4>4, <4>5
      <3>5. ASSUME NEW e \in Effects \ {used}, s6[e] # 0
            PROVE  /\ s6[e] \in Buffs!RowIds /\ BuffPage[s6[e]].effect = e /\ s3[e] \in 1 .. Rtt
                   /\ s5'[Buffs!Key(s6[e])] + s3[e] > s4'.age + Rtt
        <4>1. /\ s6[e] \in Buffs!RowIds /\ BuffPage[s6[e]].effect = e /\ s3[e] \in 1 .. Rtt
              /\ s5[Buffs!Key(s6[e])] + s3[e] > s4.age + Rtt
          BY <1>3, <3>5 DEF Awaits
        <4>2. Buffs!Key(s6[e]) \in Buffs!Keys
          BY <4>1, BuffNumbers
        <4> DEFINE k == Buffs!Key(s6[e])
        <4> HIDE DEF k
        <4>3. /\ s5[k] \in Nat /\ s5'[k] \in Nat /\ s5'[k] >= s5[k]
              /\ s5[k] + s3[e] > s4.age + Rtt
          BY <2>5, <4>1, <4>2 DEF k
        <4>4. s5'[k] + s3[e] > s4'.age + Rtt
          BY <1>4, <2>4, <4>1, <4>3
        <4> QED
          BY <4>1, <4>4 DEF k
      <3>6. ASSUME NEW e \in Effects \ {used} PROVE Awaits(e)'
        <4>1. s3'[e] = s3[e] /\ s6'[e] = s6[e]
          BY <1>2, <3>1, <3>6
        <4> QED
          BY <3>5, <4>1 DEF Awaits, Buffs!Key
      <3>7. \A e \in Effects : Awaits(e)'
        BY <3>4, <3>6
      <3> QED
        BY <2>4, <2>5, <3>3, <3>7
    <2> QED
      BY <2>6, <2>7
  <1>12. CASE Buffs!IsDone \/ Buffs!HasFailed \/ Buffs!WasStuck
    <2>1. \E sent \in BOOLEAN, well \in BOOLEAN : Buffs!Returns(sent, well)
      BY <1>12, Zenon DEF Buffs!IsDone, Buffs!HasFailed, Buffs!WasStuck
    <2> QED
      BY <1>11, <2>1
  <1> QED
    BY <1>7, <1>8, <1>9, <1>10, <1>12 DEF Buffs!BuffTick

LEMMA BuffsKeep ==
    ASSUME Buffs!BuffsAssumption, BuffsInvariant, [Buffs!Next]_(Buffs!vars)
    PROVE  BuffsInvariant'
  <1>1. CASE UNCHANGED Buffs!vars
    BY <1>1, Zenon DEF Buffs!vars, BuffsInvariant, Buffs!TypeOK, Awaits
  <1> QED
    BY <1>1, TickKeepsBuffs, PlayerKeepsBuffs, ServerKeepsBuffs, TimePassesForBuffs
    DEF Buffs!Next

\* While an answer is awaited, the row cools.
LEMMA AnswersAreAwaited ==
    ASSUME Buffs!BuffsAssumption, BuffsInvariant
    PROVE  Buffs!AnswerAwaited
  <1> DEFINE e == Buffs!Row.effect
  <1> SUFFICES ASSUME Buffs!Calls, s6[e] # 0, Buffs!Key(s6[e]) = Buffs!Key(s4.row)
               PROVE  FALSE
    BY DEF Buffs!AnswerAwaited
  <1>1. s4.row \in Buffs!RowIds /\ s5[Buffs!Key(s4.row)] = 0
    BY DEF Buffs!Calls, Buffs!AtRow, Buffs!Due
  <1>2. e \in Effects
    BY <1>1, BuffNumbers DEF Buffs!Row
  <1>3. s3[e] \in 1 .. Rtt /\ s5[Buffs!Key(s6[e])] + s3[e] > s4.age + Rtt
    BY <1>2 DEF BuffsInvariant, Awaits
  <1>4. s4.age \in 0 .. Cooldown /\ Rtt \in Nat /\ Cooldown \in Nat
    BY BuffTypes, BuffNumbers DEF BuffsInvariant, BuffTickType
  <1> QED
    BY <1>1, <1>3, <1>4

-----------------------------------------------------------------------------
(* All of them: a behaviour is of one of the parts.                        *)

MCInvariant ==
    \/ part = "book" /\ BookInvariant
    \/ part = "buffs" /\ BuffsInvariant
    \/ part = "timers" /\ TimersInvariant
    \/ part = "sweeps" /\ SweepsInvariant
    \/ part = "delete" /\ DeleteInvariant
    \/ part = "hotkey" /\ KeyInvariant
    \/ part = "exp" /\ ExpInvariant
    \/ part = "call" /\ Call!SharedInvariant

LEMMA PartsBegin == ASSUME MCInit PROVE MCInvariant
  <1> USE PartsAssumption
  <1>1. CASE part = "book" /\ Book!Init
    BY <1>1, BookBegins DEF MCInvariant
  <1>2. CASE part = "buffs" /\ Buffs!Init
    BY <1>2, BuffsBegin DEF MCInvariant
  <1>3. CASE part = "timers" /\ Timers!Init
    BY <1>3, TimersBegin DEF MCInvariant
  <1>4. CASE part = "sweeps" /\ Sweeps!Init
    BY <1>4, SweepsBegin DEF MCInvariant
  <1>5. CASE part = "delete" /\ Delete!Init
    BY <1>5, DeleteBegins DEF MCInvariant
  <1>6. CASE part = "hotkey" /\ Hotkey!Init
    BY <1>6, KeysBegin DEF MCInvariant
  <1>7. CASE part = "exp" /\ Exp!Init
    BY <1>7, ExpBegins DEF MCInvariant
  <1>8. CASE part = "call" /\ Call!Init
    BY <1>8, Call!SharedBegins DEF MCInvariant
  <1> QED
    BY <1>1, <1>2, <1>3, <1>4, <1>5, <1>6, <1>7, <1>8, Zenon DEF MCInit

\* A step is one of the part that the behaviour is of.
LEMMA StepsOfParts ==
    ASSUME [MCNext]_mcVars
    PROVE  /\ part' = part
           /\ part = "book" => [Book!Next]_(Book!vars)
           /\ part = "buffs" => [Buffs!Next]_(Buffs!vars)
           /\ part = "timers" => [Timers!Next]_(Timers!vars)
           /\ part = "sweeps" => [Sweeps!Next]_(Sweeps!vars)
           /\ part = "delete" => [Delete!Next]_(Delete!vars)
           /\ part = "hotkey" => [Hotkey!Next]_(Hotkey!vars)
           /\ part = "exp" => [Exp!Next]_(Exp!vars)
           /\ part = "call" => [Call!Next]_(Call!vars)
  <1>1. CASE MCNext
    BY <1>1
    DEF MCNext, BookRest, BuffsRest, TimersRest, SweepsRest, DeleteRest, HotkeyRest, ExpRest, CallRest
  <1>2. CASE UNCHANGED mcVars
    <2>1. /\ part' = part /\ s1' = s1 /\ s2' = s2 /\ s3' = s3 /\ s4' = s4 /\ s5' = s5 /\ s6' = s6
          /\ s7' = s7 /\ s8' = s8 /\ s9' = s9 /\ s10' = s10
      BY <1>2 DEF mcVars
    <2> QED
      BY <2>1
      DEF Book!vars, Buffs!vars, Timers!vars, Sweeps!vars, Delete!vars, Hotkey!vars, Exp!vars, Call!vars
  <1> QED
    BY <1>1, <1>2

LEMMA PartsKeep == ASSUME MCInvariant, [MCNext]_mcVars PROVE MCInvariant'
  <1> USE PartsAssumption
  <1>1. CASE part = "book" /\ BookInvariant
    BY <1>1, StepsOfParts, BookKeeps DEF MCInvariant
  <1>2. CASE part = "buffs" /\ BuffsInvariant
    BY <1>2, StepsOfParts, BuffsKeep DEF MCInvariant
  <1>3. CASE part = "timers" /\ TimersInvariant
    BY <1>3, StepsOfParts, TimersKeep DEF MCInvariant
  <1>4. CASE part = "sweeps" /\ SweepsInvariant
    BY <1>4, StepsOfParts, SweepsKeep DEF MCInvariant
  <1>5. CASE part = "delete" /\ DeleteInvariant
    BY <1>5, StepsOfParts, DeleteKeeps DEF MCInvariant
  <1>6. CASE part = "hotkey" /\ KeyInvariant
    BY <1>6, StepsOfParts, KeysKeep DEF MCInvariant
  <1>7. CASE part = "exp" /\ ExpInvariant
    BY <1>7, StepsOfParts, ExpKeeps DEF MCInvariant
  <1>8. CASE part = "call" /\ Call!SharedInvariant
    BY <1>8, StepsOfParts, Call!SharedKeeps DEF MCInvariant
  <1> QED
    BY <1>1, <1>2, <1>3, <1>4, <1>5, <1>6, <1>7, <1>8, Zenon DEF MCInvariant

LEMMA PartsHold == MCSpec => []MCInvariant
  BY PartsBegin, PartsKeep, PTL DEF MCSpec

LEMMA OnePart ==
    ASSUME MCInvariant
    PROVE  /\ part = "book" => BookInvariant
           /\ part = "buffs" => BuffsInvariant
           /\ part = "timers" => TimersInvariant
           /\ part = "sweeps" => SweepsInvariant
           /\ part = "delete" => DeleteInvariant
           /\ part = "hotkey" => KeyInvariant
           /\ part = "exp" => ExpInvariant
           /\ part = "call" => Call!SharedInvariant
           /\ part \in {"book", "buffs", "timers", "sweeps", "delete", "hotkey", "exp", "call"}
  BY DEF MCInvariant

\* The experience reported adds up, whatever the table of levels: over every order
\* of gains, deaths, changes of level and of character.
THEOREM ExperienceAddsUp == MCSpec => []LevelsAddUp
  <1>1. ASSUME MCInvariant PROVE LevelsAddUp
    BY <1>1, PartsAssumption, OnePart, LevelsRight
    DEF ExpInvariant, LevelsAddUp, LevelOfTotal, SomethingLeft, ReportsAddUp
  <1> QED
    BY <1>1, PartsHold, PTL

\* What a thread of the scheduler uses is there as long as it uses it: the page of
\* a call, the player's target after a call, the book of a careful cast, the worker
\* of a hook; and of a session that was cancelled at most one key is used.
THEOREM NothingIsPulledAway == MCSpec => []WhatIsUsedIsThere
  <1>1. ASSUME MCInvariant PROVE WhatIsUsedIsThere
    <2> USE <1>1, OnePart, PartsAssumption
    <2>1. TypeOK
      <3>1. part = "call" => Call!TypeOK
        BY DEF Call!SharedInvariant, Call!CallInvariant
      <3> QED
        BY <3>1, Zenon
        DEF TypeOK, BookInvariant, BuffsInvariant, TimersInvariant, SweepsInvariant, DeleteInvariant,
            KeyInvariant, ExpInvariant
    <2>2. RunsInItsPage /\ AimComesBack
      BY Call!PageOfThread, Call!AimsRestored DEF RunsInItsPage, AimComesBack, Call!SharedInvariant
    <2>3. CarefulHaveABook
      BY BookIsThere DEF CarefulHaveABook
    <2>4. HookFeedsWorker /\ OneLateUse
      BY DEF HookFeedsWorker, OneLateUse, KeyInvariant, Hotkey!TypeOK, Hotkey!HookFeedsWorker, Hotkey!OneLateUse
    <2> QED
      BY <2>1, <2>2, <2>3, <2>4 DEF WhatIsUsedIsThere
  <1> QED
    BY <1>1, PartsHold, PTL

\* What is used is the player's own and goes where it is aimed: his spells, with the
\* exceptions that CastsOwnSpell names, things that he does not wear, attacks.
THEOREM OwnThings == MCSpec => OwnThingsOnly
  <1>1. ASSUME MCInvariant, [MCNext]_mcVars
        PROVE  /\ part = "book" => Book!CastsOwnSpell
               /\ part = "delete" => Delete!WornStays
               /\ part = "call" => Call!AttackKeepsTarget
    <2> USE <1>1, OnePart, PartsAssumption
    <2>1. part = "book" => Book!CastsOwnSpell
      BY OwnSpells
    <2>2. part = "delete" => Delete!WornStays
      BY WornIsSafe
    <2>3. part = "call" => Call!AttackKeepsTarget
      BY StepsOfParts, Call!AttacksAim
    <2> QED
      BY <2>1, <2>2, <2>3
  <1> QED
    BY <1>1, PartsHold, PTL DEF MCSpec, OwnThingsOnly, CastsOwnSpell, WornStays, AttackKeepsTarget

\* Nothing is used before its time: no buff while an answer is awaited, no row and no
\* message before its interval is over, no HP that were not there when the tick looked.
THEOREM NothingTooEarly == MCSpec => UsesAreSpaced
  <1>1. ASSUME MCInvariant, [MCNext]_mcVars
        PROVE  /\ part = "buffs" => Buffs!AnswerAwaited
               /\ part = "timers" => Timers!RowsSpaced
               /\ part = "timers" => Timers!ShoutsSpaced
               /\ part = "sweeps" => Sweeps!MpWhenSafe
    BY <1>1, OnePart, PartsAssumption, AnswersAreAwaited, IntervalsPass, MpAreSafe
  <1> QED
    BY <1>1, PartsHold, PTL
    DEF MCSpec, UsesAreSpaced, AnswerAwaited, RowsSpaced, ShoutsSpaced, MpWhenSafe

\* A call into the game, from whichever thread, has at most one effect, and had it if
\* it is reported as done while the game runs: it implements AtMostOnce.
THEOREM CallsHaveOneEffect == MCSpec => CallsOnce
  <1> USE PartsAssumption
  <1>1. ASSUME MCInit PROVE Expected!Init
    <2>1. CASE part = "call"
      <3>1. Call!Expected!Init
        BY <1>1, <2>1, Call!ExpectedBegins DEF MCInit
      <3> QED
        BY <2>1, <3>1 DEF Expected!Init, Call!Expected!Init
    <2>2. CASE part # "call"
      BY <2>2, Zenon DEF Expected!Init
    <2> QED
      BY <2>1, <2>2
  <1>2. ASSUME MCInvariant, [MCNext]_mcVars PROVE [Expected!Next]_(Expected!vars)
    <2>1. part' = part
      BY <1>2, StepsOfParts
    <2>2. CASE part = "call"
      <3>1. [Call!Expected!Next]_(Call!Expected!vars)
        BY <1>2, <2>2, StepsOfParts, OnePart, Call!StepsExpected DEF Call!SharedInvariant
      <3>2. CASE Call!Expected!Next
        BY <2>1, <2>2, <3>2
        DEF Expected!Next, Call!Expected!Next, Expected!Ask, Call!Expected!Ask, Expected!Answer,
            Call!Expected!Answer, Expected!TakeEffect, Call!Expected!TakeEffect,
            Expected!GameEnds, Call!Expected!GameEnds
      <3>3. CASE UNCHANGED Call!Expected!vars
        BY <2>1, <2>2, <3>3 DEF Expected!vars, Call!Expected!vars
      <3> QED
        BY <3>1, <3>2, <3>3
    <2>3. CASE part # "call"
      BY <2>1, <2>3 DEF Expected!vars
    <2> QED
      BY <2>2, <2>3
  <1> QED
    BY <1>1, <1>2, PartsHold, PTL DEF MCSpec, CallsOnce, Expected!Spec

=============================================================================
