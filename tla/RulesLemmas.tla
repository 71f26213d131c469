----------------------------- MODULE RulesLemmas -----------------------------
(***************************************************************************)
(* Proofs about the parts of MCRules, for all values of their constants: what   *)
(* the hooks draw of packets, the notation and the form of the settings, the     *)
(* files of characters, the lists of servers, and the turns of the hunt's        *)
(* attacks.  The slots s1 to s12 stand for the variables of the part at hand;    *)
(* each section says which.  RulesProofs has the other parts and the theorems.  *)
(***************************************************************************)
EXTENDS MCRules, FiniteSetTheorems, TLAPS

-----------------------------------------------------------------------------
(***************************************************************************)
(* DamageText: s1 to s6 are now, loaded, last, packet, shown and gap.        *)
(***************************************************************************)

\* A name for %, so that the provers take it for no arithmetic of theirs.
Remainder(a, size) == a % size

\* Less than once and less than twice round the clock.
LEMMA OnceRound ==
    ASSUME NEW size \in Nat \ {0}, NEW a \in Nat, a < size
    PROVE  Remainder(a, size) = a
  <1>1. a % size = a
    OBVIOUS
  <1> QED
    BY <1>1 DEF Remainder

LEMMA TwiceRound ==
    ASSUME NEW size \in Nat \ {0}, NEW a \in Nat, a < size + size, a >= size
    PROVE  Remainder(a, size) = a - size
  <1>1. a = (size * (a \div size)) + (a % size) /\ a \div size \in Int
    OBVIOUS
  <1>2. 0 <= a % size /\ a % size < size /\ a % size \in Int
    OBVIOUS
  <1>3. PICK k \in Int : a - (a % size) = size * k
    <2>1. a - (a % size) = size * (a \div size)
      BY <1>1, <1>2
    <2> QED
      BY <1>1, <2>1
  <1>4. k <= 0 => size * k <= 0
    OBVIOUS
  <1>5. k >= 2 => size * k >= size + size
    OBVIOUS
  <1>6. k = 1 => size * k = size
    OBVIOUS
  <1>7. a % size = a - size
    BY <1>2, <1>3, <1>4, <1>5, <1>6
  <1> QED
    BY <1>7 DEF Remainder

\* What the code takes for the time since the last hit is that time.
LEMMA ElapsedIsGap ==
    ASSUME Text!DamageAssumption, Text!TextInvariant, s5 # <<>>
    PROVE  Text!Elapsed = s6
  <1> DEFINE tick == s3.tick
  <1>1. /\ ClockSize \in Nat \ {0} /\ tick \in 0 .. ClockSize - 1 /\ s6 \in 0 .. ClockSize - 1
        /\ s1 = Remainder(tick + s6, ClockSize)
    BY DEF Text!DamageAssumption, Text!TextInvariant, Text!TextTypes, Text!LastIsShown, Remainder
  <1>2. Text!Elapsed = Remainder(s1 - tick + ClockSize, ClockSize)
    BY DEF Text!Elapsed, Remainder
  <1> HIDE DEF tick
  <1>3. s1 = IF tick + s6 < ClockSize THEN tick + s6 ELSE tick + s6 - ClockSize
    BY <1>1, OnceRound, TwiceRound
  <1> QED
    BY <1>1, <1>2, <1>3, OnceRound, TwiceRound

LEMMA TextBegins == ASSUME Text!DamageAssumption, Text!Init PROVE Text!TextInvariant
  <1> USE DEF Text!DamageAssumption, Text!Init
  <1>1. Text!TextTypes
    BY DEF Text!TextTypes, Text!NoPacket
  <1>2. Text!TotalGoesOn /\ Text!LastIsShown
    BY DEF Text!TotalGoesOn, Text!LastIsShown
  <1> QED
    BY <1>1, <1>2 DEF Text!TextInvariant

\* A hit that is shown.
LEMMA HitShown ==
    ASSUME Text!DamageAssumption, Text!TextInvariant,
           NEW target \in Victims, NEW damage \in Damages, damage >= 0,
           Text!Shows(target, damage), UNCHANGED <<s1, s2>>
    PROVE  /\ s3' \in [target : Victims \cup {0}, total : 0 .. TotalSize - 1, tick : 0 .. ClockSize - 1]
           /\ s5' \in Seq([target : Victims, damage : Damages, gap : 0 .. ClockSize - 1, total : 0 .. TotalSize - 1])
           /\ s6' \in 0 .. ClockSize - 1 /\ Len(s5') <= MaxHits
           /\ Text!TotalGoesOn' /\ Text!LastIsShown'
  <1> DEFINE a == Text!Accumulated(target, damage)
             hit == [target |-> target, damage |-> damage, gap |-> s6, total |-> a.total]
             Hits == [target : Victims, damage : Damages, gap : 0 .. ClockSize - 1, total : 0 .. TotalSize - 1]
  <1>1. /\ s5 \in Seq(Hits) /\ s6 \in 0 .. ClockSize - 1 /\ s1 \in 0 .. ClockSize - 1
        /\ s3 \in [target : Victims \cup {0}, total : 0 .. TotalSize - 1, tick : 0 .. ClockSize - 1]
        /\ ClockSize \in Nat \ {0} /\ TotalSize \in Nat \ {0} /\ damage \in 0 .. TotalSize - 1 /\ target # 0
    BY DEF Text!DamageAssumption, Text!TextInvariant, Text!TextTypes
  <1>2. s3' = a /\ s5' = Append(s5, hit) /\ s6' = 0 /\ Len(s5) < MaxHits /\ s1' = s1 /\ MaxHits \in Nat
    BY DEF Text!Shows, Text!DamageAssumption
  <1>3. /\ a \in [target : Victims \cup {0}, total : 0 .. TotalSize - 1, tick : 0 .. ClockSize - 1]
        /\ a.target = target /\ a.tick = s1
        /\ a.total = IF s3.target = target /\ Text!Elapsed <= Timeout
                     THEN (s3.total + damage) % TotalSize ELSE damage
    <2>1. (s3.total + damage) % TotalSize \in 0 .. TotalSize - 1
      BY <1>1
    <2> QED
      BY <1>1, <2>1 DEF Text!Accumulated
  <1> HIDE DEF a
  <1>4. hit \in Hits /\ hit.target = target /\ hit.damage = damage /\ hit.gap = s6 /\ hit.total = a.total
    BY <1>1, <1>3
  <1> HIDE DEF hit, Hits
  <1>5. /\ s5' \in Seq(Hits) /\ Len(s5') = Len(s5) + 1 /\ s5'[Len(s5) + 1] = hit /\ s5' # <<>>
        /\ \A n \in 1 .. Len(s5) : s5'[n] = s5[n]
    BY <1>1, <1>2, <1>4
  <1>6. Text!LastIsShown'
    <2>1. s1' = (s3'.tick + s6') % ClockSize
      <3>1. s3'.tick + s6' = s1 /\ s1' = s1
        BY <1>1, <1>2, <1>3
      <3>2. s1 % ClockSize = s1
        BY <1>1
      <3> QED
        BY <3>1, <3>2
    <2> QED
      BY <1>2, <1>3, <1>4, <1>5, <2>1 DEF Text!LastIsShown
  <1>7. Text!TotalGoesOn'
    <2> SUFFICES ASSUME NEW n \in 1 .. Len(s5) + 1
                 PROVE  s5'[n].total =
                            IF n > 1 /\ s5'[n - 1].target = s5'[n].target /\ s5'[n].gap <= Timeout
                            THEN (s5'[n - 1].total + s5'[n].damage) % TotalSize ELSE s5'[n].damage
      BY <1>5, Zenon DEF Text!TotalGoesOn
    <2>1. Len(s5) \in Nat
      BY <1>1
    <2>2. CASE n <= Len(s5)
      <3>1. n \in 1 .. Len(s5) /\ s5'[n] = s5[n] /\ (n > 1 => s5'[n - 1] = s5[n - 1])
        BY <1>5, <2>1, <2>2
      <3> QED
        BY <3>1 DEF Text!TextInvariant, Text!TotalGoesOn
    <2>3. CASE n = Len(s5) + 1 /\ s5 = <<>>
      <3>1. s3.target = 0 /\ n = 1
        BY <2>3 DEF Text!TextInvariant, Text!LastIsShown
      <3> QED
        BY <1>1, <1>3, <1>4, <1>5, <2>3, <3>1
    <2>4. CASE n = Len(s5) + 1 /\ s5 # <<>>
      <3>1. /\ s3.target = s5[Len(s5)].target /\ s3.total = s5[Len(s5)].total
        BY <2>4 DEF Text!TextInvariant, Text!LastIsShown
      <3>2. Len(s5) \in 1 .. Len(s5) /\ n > 1 /\ n - 1 = Len(s5)
        BY <1>1, <2>1, <2>4
      <3>3. Text!Elapsed = s6
        BY <2>4, ElapsedIsGap
      <3> QED
        BY <1>3, <1>4, <1>5, <2>4, <3>1, <3>2, <3>3
    <2> QED
      BY <2>1, <2>2, <2>3, <2>4
  <1> QED
    BY <1>1, <1>2, <1>3, <1>5, <1>6, <1>7 DEF Hits

LEMMA TextKeeps ==
    ASSUME Text!DamageAssumption, Text!TextInvariant, [Text!Next]_(Text!vars)
    PROVE  Text!TextInvariant'
  <1> DEFINE Packets == [by : Text!Attackers \cup {0}, next : 0 .. MaxTargets, cursor : 0 .. 3 * MaxTargets]
  <1>0. /\ s4 \in Packets /\ MaxTargets \in Nat \ {0} /\ ClockSize \in Nat \ {0}
        /\ s6 \in 0 .. ClockSize - 1 /\ s1 \in 0 .. ClockSize - 1
        /\ Text!NoPacket \in Packets
    BY DEF Text!DamageAssumption, Text!TextInvariant, Text!TextTypes, Text!NoPacket
  \* Whether a hit is shown or not.
  <1>1. ASSUME UNCHANGED <<s1, s2>>, NEW target \in Victims \cup {0}, NEW damage \in Damages,
               (target # 0 /\ damage >= 0 /\ Text!Shows(target, damage)) \/ UNCHANGED <<s3, s5, s6>>,
               s4' \in Packets, s4' = Text!NoPacket \/ (s4'.next > 0 /\ s4'.cursor = 3 * (s4'.next - 1))
        PROVE  Text!TextInvariant'
    <2>1. CASE target # 0 /\ damage >= 0 /\ Text!Shows(target, damage)
      BY <1>1, <2>1, HitShown DEF Text!TextInvariant, Text!TextTypes, Text!Aligned
    <2>2. CASE UNCHANGED <<s3, s5, s6>>
      BY <1>1, <2>2 DEF Text!TextInvariant, Text!TextTypes, Text!Aligned, Text!TotalGoesOn, Text!LastIsShown
    <2> QED
      BY <1>1, <2>1, <2>2
  <1>2. ASSUME NEW attacker \in Text!Attackers, NEW target \in Victims \cup {0}, NEW damage \in Damages,
               damage >= 0, Text!Attack(attacker, target, damage)
        PROVE  Text!TextInvariant'
    BY <1>0, <1>1, <1>2 DEF Text!Attack, Text!TextInvariant
  <1>3. ASSUME NEW hit \in BOOLEAN, NEW target \in Victims \cup {0}, NEW damage \in Damages,
               Text!AreaHit(hit, target, damage)
        PROVE  Text!TextInvariant'
    <2>1. s4.next \in 1 .. MaxTargets - 1 /\ s4.cursor = 3 * (s4.next - 1)
      BY <1>0, <1>3 DEF Text!AreaHit, Text!TextInvariant, Text!Aligned
    <2>2. s4' = [by |-> s4.by, next |-> s4.next + 1, cursor |-> s4.cursor + 3]
      BY <1>0, <1>3 DEF Text!AreaHit, Text!Consumes
    <2>3. s4' \in Packets /\ s4'.next > 0 /\ s4'.cursor = 3 * (s4'.next - 1)
      BY <1>0, <2>1, <2>2
    <2>4. (target # 0 /\ damage >= 0 /\ Text!Shows(target, damage)) \/ UNCHANGED <<s3, s5, s6>>
      BY <1>3 DEF Text!AreaHit, Text!DamageAssumption
    <2>5. UNCHANGED <<s1, s2>>
      BY <1>3 DEF Text!AreaHit
    <2> HIDE DEF Packets
    <2> QED
      BY <1>1, <2>3, <2>4, <2>5
  <1>4. ASSUME NEW attacker \in Text!Attackers, Text!AreaBegins(attacker) PROVE Text!TextInvariant'
    BY <1>0, <1>4
    DEF Text!AreaBegins, Text!TextInvariant, Text!TextTypes, Text!Aligned, Text!TotalGoesOn, Text!LastIsShown
  <1>5. CASE Text!AreaEnds
    BY <1>0, <1>5
    DEF Text!AreaEnds, Text!TextInvariant, Text!TextTypes, Text!Aligned, Text!TotalGoesOn, Text!LastIsShown
  <1>6. CASE Text!Elapse
    <2>1. s6' \in 0 .. ClockSize - 1 /\ s1' \in 0 .. ClockSize - 1
      BY <1>0, <1>6 DEF Text!Elapse
    <2>2. Text!LastIsShown'
      <3>1. CASE s5 = <<>>
        BY <1>6, <3>1 DEF Text!Elapse, Text!TextInvariant, Text!LastIsShown
      <3>2. CASE s5 # <<>>
        <4> DEFINE tick == s3.tick
        <4>1. tick \in 0 .. ClockSize - 1 /\ s1 = Remainder(tick + s6, ClockSize)
          BY <3>2 DEF Text!TextInvariant, Text!TextTypes, Text!LastIsShown, Remainder
        <4>2. s1' = Remainder(s1 + 1, ClockSize) /\ s6' = s6 + 1 /\ s6 < ClockSize - 1
          BY <1>6 DEF Text!Elapse, Remainder
        <4> HIDE DEF tick
        <4>3. s1 = IF tick + s6 < ClockSize THEN tick + s6 ELSE tick + s6 - ClockSize
          BY <1>0, <4>1, OnceRound, TwiceRound
        <4>4. s1' = IF s1 + 1 < ClockSize THEN s1 + 1 ELSE s1 + 1 - ClockSize
          BY <1>0, <4>2, OnceRound, TwiceRound
        <4>5. s1' = Remainder(tick + s6', ClockSize)
          BY <1>0, <4>1, <4>2, <4>3, <4>4, OnceRound, TwiceRound
        <4>6. s1' = (tick + s6') % ClockSize
          BY <4>5 DEF Remainder
        <4> QED
          BY <1>6, <3>2, <4>6 DEF tick, Text!Elapse, Text!TextInvariant, Text!LastIsShown
      <3> QED
        BY <3>1, <3>2
    <2> QED
      BY <1>6, <2>1, <2>2 DEF Text!Elapse, Text!TextInvariant, Text!TextTypes, Text!Aligned, Text!TotalGoesOn
  <1>7. CASE Text!ObjectChanges
    BY <1>7
    DEF Text!ObjectChanges, Text!TextInvariant, Text!TextTypes, Text!Aligned, Text!TotalGoesOn, Text!LastIsShown
  <1>8. CASE UNCHANGED Text!vars
    BY <1>8 DEF Text!vars, Text!TextInvariant, Text!TextTypes, Text!Aligned, Text!TotalGoesOn, Text!LastIsShown
  <1> QED
    BY <1>2, <1>3, <1>4, <1>5, <1>6, <1>7, <1>8 DEF Text!Next

\* Nobody else's hit is shown, whatever the step.
LEMMA OthersAreNotShown == ASSUME Text!DamageAssumption PROVE Text!OwnHitsOnly
  BY DEF Text!OwnHitsOnly, Text!Attack, Text!IsMe, Text!DamageAssumption

-----------------------------------------------------------------------------
(***************************************************************************)
(* BuffNotation: s1 to s4 are written, listed, kept and command.             *)
(***************************************************************************)

\* Whatever a text says is one of the uses.
LEMMA ParsedUses ==
    ASSUME Notation!NotationAssumption, NEW t \in Notation!Texts
    PROVE  Notation!Parse(t).use \in Notation!Uses /\ Notation!Parse(t).id \in Numbers
           /\ Notation!Parse(t).name = t.name /\ t.name \in ItemNames
  <1> DEFINE use == Notation!Parse(t).use
  <1>1. CASE t.form = "slash"
    <2>1. /\ use = Notation!ParseSlash(t.suffix, t.target)
          /\ \/ t.suffix \in Notation!SlashSuffixes /\ t.target = Notation!Nameless
             \/ t.suffix \in Notation!SlashAimed /\ t.target \in Recipients
      BY <1>1 DEF Notation!Texts, Notation!Parse
    <2> HIDE DEF use
    <2>2. use \in Notation!Uses
      BY <2>1
      DEF Notation!ParseSlash, Notation!SlashSuffixes, Notation!SlashAimed, Notation!Uses, Notation!Use,
          Notation!IsKey, Notation!IsDelayKey, Notation!KeyOf, Notation!Keys, Notation!Nameless
    <2> QED
      BY <2>2 DEF use, Notation!Parse, Notation!Texts, Notation!NotationAssumption
  <1>2. CASE t.form = "bars"
    <2>1. /\ use = Notation!ParseBars(t.suffix, t.id) /\ t.id \in Numbers \cup Recipients
      BY <1>2 DEF Notation!Texts, Notation!Parse
    <2> HIDE DEF use
    <2>2. use \in Notation!Uses
      BY <2>1
      DEF Notation!ParseBars, Notation!Uses, Notation!Use,
          Notation!IsKey, Notation!IsDelayKey, Notation!KeyOf, Notation!Keys, Notation!Nameless
    <2> QED
      BY <2>2 DEF use, Notation!Parse, Notation!Texts, Notation!NotationAssumption
  <1> QED
    BY <1>1, <1>2 DEF Notation!Texts

\* What format_buff_item writes of a use means that use.
LEMMA FormatMeansIt ==
    ASSUME Notation!NotationAssumption, NEW b \in [id : Numbers, name : ItemNames, use : Notation!Uses]
    PROVE  /\ Notation!Parse(Notation!Format(b)).use = b.use
           /\ Notation!Format(b).name = b.name
  <1> DEFINE t == Notation!Format(b)
  <1>1. Notation!Format(b).name = b.name
    BY DEF Notation!Format, Notation!Text
  <1>2. CASE Notation!InBars(b.use)
    <2>1. /\ t.form = "bars" /\ t.suffix = Notation!BarsOf(b.use)
          /\ t.id = IF b.use.aim = "named" THEN b.use.target ELSE b.id
      BY <1>2 DEF Notation!Format, Notation!Text
    <2>2. Notation!Parse(t).use = Notation!ParseBars(t.suffix, t.id)
      BY <2>1 DEF Notation!Parse
    <2> HIDE DEF t
    <2> QED
      BY <1>1, <1>2, <2>1, <2>2
      DEF t, Notation!InBars, Notation!BarsOf, Notation!ParseBars, Notation!Uses, Notation!Use, Notation!NotationAssumption,
          Notation!IsKey, Notation!IsDelayKey, Notation!KeyOf, Notation!Keys, Notation!Nameless
  <1>3. CASE ~Notation!InBars(b.use)
    <2>1. /\ t.form = "slash" /\ t.suffix = Notation!SlashOf(b.use) /\ t.target = Notation!OnTarget(b.use)
      BY <1>3 DEF Notation!Format, Notation!Text
    <2>2. Notation!Parse(t).use = Notation!ParseSlash(t.suffix, t.target)
      BY <2>1 DEF Notation!Parse
    <2> HIDE DEF t
    <2> QED
      BY <1>1, <1>3, <2>1, <2>2
      DEF t, Notation!InBars, Notation!SlashOf, Notation!OnTarget, Notation!ParseSlash, Notation!Uses, Notation!Use,
          Notation!NotationAssumption,
          Notation!IsKey, Notation!IsDelayKey, Notation!KeyOf, Notation!Keys, Notation!Nameless
  <1> QED
    BY <1>2, <1>3

\* A command means afterwards what it meant, or becomes an item.
LEMMA CommandMeansIt ==
    ASSUME Notation!NotationAssumption, NEW b, b.use \in Notation!Uses
    PROVE  LET again == Notation!Parse(Notation!FormatCommand(b)).use
           IN  IF b.use.type = "S" /\ b.use.aim = "hover"
               THEN again = Notation!Use("I", "item", Notation!Nameless) ELSE again = b.use
  <1> DEFINE t == Notation!FormatCommand(b)
  <1>1. /\ t.form = "slash"
        /\ t.suffix = IF ~Notation!InBars(b.use) THEN Notation!SlashOf(b.use)
                      ELSE IF b.use.aim = "named" THEN "MI=" ELSE Notation!BarsOf(b.use)
        /\ t.target = IF ~Notation!InBars(b.use) THEN Notation!OnTarget(b.use)
                      ELSE IF b.use.aim = "named" THEN b.use.target ELSE Notation!Nameless
    BY DEF Notation!FormatCommand, Notation!Text
  <1>2. Notation!Parse(t).use = Notation!ParseSlash(t.suffix, t.target)
    BY <1>1 DEF Notation!Parse
  <1> HIDE DEF t
  <1>3. CASE Notation!InBars(b.use)
    BY <1>1, <1>2, <1>3
    DEF t, Notation!InBars, Notation!BarsOf, Notation!ParseSlash, Notation!Uses, Notation!Use,
        Notation!NotationAssumption, Notation!IsKey, Notation!IsDelayKey, Notation!Nameless
  <1>4. CASE ~Notation!InBars(b.use)
    BY <1>1, <1>2, <1>4
    DEF t, Notation!InBars, Notation!SlashOf, Notation!OnTarget, Notation!ParseSlash, Notation!Uses, Notation!Use,
        Notation!NotationAssumption, Notation!IsKey, Notation!IsDelayKey, Notation!KeyOf, Notation!Keys,
        Notation!Nameless
  <1> QED
    BY <1>3, <1>4

LEMMA NotationBegins == ASSUME Notation!NotationAssumption, Notation!Init PROVE Notation!NotationInvariant
  <1>1. s1 \in Notation!Texts /\ s2 = s1 /\ s4 = s1 /\ s3 = Notation!Parse(s1)
    BY DEF Notation!Init
  <1>2. s3 \in [id : Numbers, name : ItemNames, use : Notation!Uses] /\ s3.name = s1.name
    <2>1. Notation!Parse(s1).use \in Notation!Uses /\ Notation!Parse(s1).id \in Numbers
          /\ Notation!Parse(s1).name = s1.name /\ s1.name \in ItemNames
      BY <1>1, ParsedUses
    <2> QED
      BY <1>1, <2>1 DEF Notation!Parse
  <1> QED
    BY <1>1, <1>2, ParsedUses DEF Notation!NotationInvariant, Notation!KeepsItsMeaning

\* An entry that means what was kept.
LEMMA EntryKept ==
    ASSUME Notation!NotationAssumption, Notation!NotationInvariant, NEW t,
           Notation!Parse(t).use = s3.use, t.name = s3.name
    PROVE  /\ Notation!Parse(t) \in [id : Numbers, name : ItemNames, use : Notation!Uses]
           /\ Notation!Parse(t).name = s3.name
  <1>1. s3.use \in Notation!Uses /\ s3.name \in ItemNames
    BY DEF Notation!NotationInvariant
  <1> QED
    BY <1>1 DEF Notation!Parse, Notation!NotationAssumption

\* The entry keeps its meaning; and it takes over the use of another line only if it
\* has the line's number.
LEMMA NotationKeeps ==
    ASSUME Notation!NotationAssumption, Notation!NotationInvariant, [Notation!Next]_(Notation!vars)
    PROVE  Notation!NotationInvariant' /\ Notation!OthersKeepTheirUse
  <1> DEFINE Entries == [id : Numbers, name : ItemNames, use : Notation!Uses]
  <1>0. /\ s1 \in Notation!Texts /\ s3 \in Entries
        /\ s3.use = Notation!Parse(s1).use /\ s3.name = s1.name
        /\ Notation!Parse(s2).use = s3.use /\ s2.name = s3.name /\ Notation!Parse(s4).use \in Notation!Uses
    BY DEF Notation!NotationInvariant, Notation!KeepsItsMeaning
  <1> USE DEF Notation!OthersKeepTheirUse
  <1>1. CASE Notation!AddsToList
    <2> DEFINE line == Notation!Parse(s1)
    <2>1. line \in Entries /\ line.use = s3.use /\ line.name = s3.name
      BY <1>0, EntryKept
    <2>2. s2' = Notation!Format(line) /\ s3' = Notation!Parse(s2') /\ s1' = s1 /\ s4' = s4
      BY <1>1 DEF Notation!AddsToList
    <2> HIDE DEF line
    <2>3. Notation!Parse(s2').use = s3.use /\ s2'.name = s3.name
      BY <2>1, <2>2, FormatMeansIt
    <2>4. s3' \in Entries /\ s3'.name = s3.name
      BY <2>2, <2>3, EntryKept
    <2> QED
      BY <1>0, <2>2, <2>3, <2>4 DEF Notation!NotationInvariant, Notation!KeepsItsMeaning
  <1>2. CASE Notation!ShowsList
    <2>1. s2' = Notation!Format(s3) /\ s1' = s1 /\ s3' = s3 /\ s4' = s4
      BY <1>2 DEF Notation!ShowsList
    <2>2. Notation!Parse(s2').use = s3.use /\ s2'.name = s3.name
      BY <1>0, <2>1, FormatMeansIt
    <2> QED
      BY <1>0, <2>1, <2>2 DEF Notation!NotationInvariant, Notation!KeepsItsMeaning
  <1>3. CASE Notation!ChangesList
    <2>1. s3' = Notation!Parse(s2) /\ s1' = s1 /\ s2' = s2 /\ s4' = s4
      BY <1>3 DEF Notation!ChangesList
    <2>2. s3' \in Entries /\ s3'.name = s3.name
      BY <1>0, <2>1, EntryKept
    <2> QED
      BY <1>0, <2>1, <2>2 DEF Notation!NotationInvariant, Notation!KeepsItsMeaning
  <1>4. CASE Notation!TypesCommand
    <2>1. s4' = Notation!FormatCommand(Notation!Parse(s4)) /\ s1' = s1 /\ s2' = s2 /\ s3' = s3
      BY <1>4 DEF Notation!TypesCommand
    <2>2. Notation!Use("I", "item", Notation!Nameless) \in Notation!Uses
      BY DEF Notation!Uses, Notation!Use
    <2>3. Notation!Parse(s4').use \in Notation!Uses
      BY <1>0, <2>1, <2>2, CommandMeansIt
    <2> QED
      BY <1>0, <2>1, <2>3 DEF Notation!NotationInvariant, Notation!KeepsItsMeaning
  <1>5. ASSUME NEW text \in Notation!Texts, Notation!Migrates(text)
        PROVE  Notation!NotationInvariant' /\ Notation!OthersKeepTheirUse
    <2> DEFINE entry == Notation!Parse(text)
    <2>1. entry.use \in Notation!Uses /\ entry.name = text.name
      BY ParsedUses
    <2>2. /\ entry.name = s3.name /\ entry.id = s3.id /\ s1' = text /\ s4' = s4
          /\ s3' = [s3 EXCEPT !.use = entry.use] /\ s2' = Notation!Format(s3')
      BY <1>5 DEF Notation!Migrates, Notation!Canonical
    <2>3. s3' = [id |-> s3.id, name |-> s3.name, use |-> entry.use]
      BY <1>0, <2>2
    <2> HIDE DEF entry
    <2>4. s3' \in Entries /\ s3'.use = entry.use /\ s3'.name = s3.name
      BY <1>0, <2>1, <2>3
    <2>5. Notation!Parse(s2').use = s3'.use /\ s2'.name = s3'.name
      BY <2>2, <2>4, FormatMeansIt
    <2> QED
      BY <1>0, <2>1, <2>2, <2>4, <2>5 DEF entry, Notation!NotationInvariant, Notation!KeepsItsMeaning
  <1>6. CASE UNCHANGED Notation!vars
    BY <1>0, <1>6 DEF Notation!vars, Notation!NotationInvariant, Notation!KeepsItsMeaning
  <1> QED
    BY <1>1, <1>2, <1>3, <1>4, <1>5, <1>6 DEF Notation!Next

\* Formatting a command again changes nothing.
LEMMA CommandSettles ==
    ASSUME Notation!NotationAssumption, Notation!NotationInvariant
    PROVE  Notation!CommandsSettle
  <1> SUFFICES ASSUME Notation!TypesCommand,
                      ~(Notation!Parse(s4).use.type = "S" /\ Notation!Parse(s4).use.aim = "hover")
               PROVE  Notation!Parse(s4').use = Notation!Parse(s4).use
    BY DEF Notation!CommandsSettle
  <1>1. s4' = Notation!FormatCommand(Notation!Parse(s4)) /\ Notation!Parse(s4).use \in Notation!Uses
    BY DEF Notation!TypesCommand, Notation!NotationInvariant
  <1> QED
    BY <1>1, CommandMeansIt

-----------------------------------------------------------------------------
(***************************************************************************)
(* AuxForm: s1 to s7 are settings, form, applying, shown, bag, wish and       *)
(* changes.                                                                *)
(***************************************************************************)

\* A list to which something is added that is not in it tells its entries apart.
LEMMA AppendIsInjective ==
    ASSUME NEW n \in Nat, NEW list \in Seq(1 .. n), Form!IsInjective(list)
    PROVE  Append(list, n + 1) \in Seq(1 .. n + 1) /\ Form!IsInjective(Append(list, n + 1))
  <1>1. /\ Len(list) \in Nat /\ \A a \in 1 .. Len(list) : list[a] \in 1 .. n
        /\ \A a, b \in 1 .. Len(list) : list[a] = list[b] => a = b
    BY DEF Form!IsInjective
  <1>2. Append(list, n + 1) \in Seq(1 .. n + 1)
    <2>1. list \in Seq(1 .. n + 1)
      BY <1>1
    <2> QED
      BY <2>1
  <1>3. ASSUME NEW a \in 1 .. Len(list) + 1, NEW b \in 1 .. Len(list) + 1,
               Append(list, n + 1)[a] = Append(list, n + 1)[b]
        PROVE  a = b
    BY <1>1, <1>3
  <1>4. DOMAIN Append(list, n + 1) = 1 .. Len(list) + 1
    BY <1>1
  <1> QED
    BY <1>2, <1>3, <1>4 DEF Form!IsInjective

\* So does one from which something is removed
LEMMA RemovedIsInjective ==
    ASSUME NEW S, NEW list \in Seq(S), Form!IsInjective(list), NEW k \in DOMAIN list
    PROVE  Form!RemoveAt(list, k) \in Seq(S) /\ Form!IsInjective(Form!RemoveAt(list, k))
  <1> DEFINE head == SubSeq(list, 1, k - 1)
             tail == SubSeq(list, k + 1, Len(list))
             rest == Form!RemoveAt(list, k)
  <1>1. Len(list) \in Nat /\ k \in 1 .. Len(list) /\ DOMAIN list = 1 .. Len(list)
    OBVIOUS
  <1>2. head \in Seq(S) /\ Len(head) = k - 1 /\ \A i \in 1 .. k - 1 : head[i] = list[i]
    BY <1>1
  <1>3. tail \in Seq(S) /\ Len(tail) = Len(list) - k /\ \A i \in 1 .. Len(list) - k : tail[i] = list[k + i]
    BY <1>1
  <1>4. rest = head \o tail
    BY DEF Form!RemoveAt
  <1> HIDE DEF head, tail, rest
  <1>5. rest \in Seq(S) /\ Len(rest) = Len(list) - 1 /\ DOMAIN rest = 1 .. Len(list) - 1
    <2>1. rest \in Seq(S) /\ Len(rest) = (k - 1) + (Len(list) - k)
      <3>1. head \in Seq(S) /\ tail \in Seq(S)
        BY <1>2, <1>3
      <3>2. head \o tail \in Seq(S) /\ Len(head \o tail) = Len(head) + Len(tail)
        BY <3>1
      <3> QED
        BY <1>2, <1>3, <1>4, <3>2
    <2>2. (k - 1) + (Len(list) - k) = Len(list) - 1
      BY <1>1
    <2> QED
      BY <2>1, <2>2
  <1>6. ASSUME NEW i \in 1 .. Len(list) - 1
        PROVE  rest[i] = list[IF i < k THEN i ELSE i + 1]
    <2>1. CASE i < k
      BY <1>1, <1>2, <1>3, <1>4, <2>1
    <2>2. CASE ~(i < k)
      <3>1. rest[i] = tail[i - (k - 1)]
        BY <1>1, <1>2, <1>3, <1>4, <2>2
      <3>2. i - (k - 1) \in 1 .. Len(list) - k
        BY <1>1, <2>2
      <3>3. tail[i - (k - 1)] = list[k + (i - (k - 1))] /\ k + (i - (k - 1)) = i + 1
        BY <1>1, <1>3, <3>2
      <3> QED
        BY <2>2, <3>1, <3>3
    <2> QED
      BY <2>1, <2>2
  <1>7. ASSUME NEW a \in 1 .. Len(list) - 1, NEW b \in 1 .. Len(list) - 1, rest[a] = rest[b]
        PROVE  a = b
    <2> DEFINE x == IF a < k THEN a ELSE a + 1
               y == IF b < k THEN b ELSE b + 1
    <2>1. x \in DOMAIN list /\ y \in DOMAIN list /\ list[x] = list[y]
      BY <1>1, <1>6, <1>7
    <2>2. x = y
      BY <2>1 DEF Form!IsInjective
    <2> QED
      BY <1>1, <2>2
  <1>8. Form!IsInjective(rest)
    BY <1>5, <1>7 DEF Form!IsInjective
  <1> QED
    BY <1>5, <1>8 DEF rest

\* and one of which two entries change places.
LEMMA MovedIsInjective ==
    ASSUME NEW S, NEW list \in Seq(S), Form!IsInjective(list), NEW k \in DOMAIN list, NEW to \in DOMAIN list
    PROVE  Form!Moved(list, k, to) \in Seq(S) /\ Form!IsInjective(Form!Moved(list, k, to))
  <1> DEFINE moved == Form!Moved(list, k, to)
  <1>1. /\ DOMAIN list = 1 .. Len(list) /\ Len(list) \in Nat /\ \A i \in DOMAIN list : list[i] \in S
        /\ \A a, b \in DOMAIN list : list[a] = list[b] => a = b
    BY DEF Form!IsInjective
  <1>2. /\ DOMAIN moved = 1 .. Len(list)
        /\ \A i \in DOMAIN list : moved[i] = IF i = to THEN list[k] ELSE IF i = k THEN list[to] ELSE list[i]
        /\ moved = [i \in 1 .. Len(list) |-> moved[i]]
    BY <1>1 DEF Form!Moved
  <1> HIDE DEF moved
  <1>3. moved \in Seq(S)
    <2>1. \A i \in 1 .. Len(list) : moved[i] \in S
      BY <1>1, <1>2
    <2> QED
      BY <1>1, <1>2, <2>1
  <1>4. Form!IsInjective(moved)
    BY <1>1, <1>2 DEF Form!IsInjective
  <1> QED
    BY <1>3, <1>4 DEF moved

LEMMA FormBegins == ASSUME Form!FormAssumption, Form!Init PROVE Form!FormInvariant
  <1>1. Head(InFile) \in Form!Things
    <2>1. InFile \in Seq(Form!ToSet(InFile)) /\ InFile # <<>>
      BY DEF Form!FormAssumption
    <2> QED
      BY <2>1 DEF Form!Things
  <1>2. /\ s1.text = [b \in Form!Boxes |-> "9"] /\ s1.item = [r \in Form!RowSet |-> Head(InFile)]
        /\ s1.ofBag = FALSE /\ s1.list = Form!Empty
        /\ s1 = [text |-> s1.text, item |-> s1.item, ofBag |-> s1.ofBag, list |-> s1.list]
        /\ s2.text = [b \in Form!Boxes |-> "?"] /\ s2.item = [r \in Form!RowSet |-> NoItem] /\ s2.list = Form!Empty
        /\ s2 = [text |-> s2.text, item |-> s2.item, choice |-> s2.choice, list |-> s2.list]
        /\ s3 = [flag |-> FALSE, next |-> 0] /\ s4 = FALSE /\ s6 = s1.item /\ s7 = 0
    BY DEF Form!Init, Form!Unread
  <1>3. Form!Empty \in [Form!Lists -> Seq(1 .. s7)]
    BY DEF Form!Empty
  <1>4. s1.text \in [Form!Boxes -> Form!Texts] /\ s2.text \in [Form!Boxes -> Form!Texts]
    BY <1>2 DEF Form!Texts, Form!Unread
  <1>5. s1.item \in Form!Items /\ s2.item \in Form!Items
    BY <1>1, <1>2 DEF Form!Items
  <1>6. Form!FormTypes
    BY <1>2, <1>3, <1>4, <1>5 DEF Form!FormTypes, Form!Entries
  <1>7. \A l \in Form!Lists : Form!IsInjective(s1.list[l])
    BY <1>2 DEF Form!IsInjective, Form!Empty
  <1> QED
    BY <1>2, <1>6, <1>7 DEF Form!FormInvariant, Form!NeverAnotherItem, Form!ListsAgree

\* A page that is read has texts.
LEMMA ReadIsText ==
    ASSUME Form!FormInvariant, NEW page, NEW f, f.text \in [Form!Boxes -> Form!Texts]
    PROVE  Form!Read(page, f) \in [Form!Boxes -> Form!Texts]
  <1>1. ASSUME NEW b \in Form!Boxes
        PROVE  Form!Number(page, f.text[b]) \in Form!Texts /\ s1.text[b] \in Form!Texts
    BY DEF Form!Number, Form!Texts, Form!FormInvariant, Form!FormTypes
  <1> QED
    BY <1>1 DEF Form!Read

\* What is written from a page is texts and, from the page of potions, its items.
LEMMA WritesKeep ==
    ASSUME Form!FormInvariant, NEW page, NEW f, f.text \in [Form!Boxes -> Form!Texts], Form!Writes(page, f)
    PROVE  /\ s1'.text \in [Form!Boxes -> Form!Texts] /\ s1'.item \in {s1.item, f.item}
           /\ s1' = [text |-> s1'.text, item |-> s1'.item, ofBag |-> s1.ofBag, list |-> s1.list]
  <1>1. /\ s1 = [text |-> s1.text, item |-> s1.item, ofBag |-> s1.ofBag, list |-> s1.list]
        /\ s1.text \in [Form!Boxes -> Form!Texts]
    BY DEF Form!FormInvariant, Form!FormTypes
  <1>2. CASE Form!WritesPotions(f)
    <2>1. Form!Read("potions", f) \in [Form!Boxes -> Form!Texts]
      BY ReadIsText
    <2>2. s1' = [text |-> Form!Read("potions", f), item |-> f.item, ofBag |-> s1.ofBag, list |-> s1.list]
      BY <1>1, <1>2 DEF Form!WritesPotions
    <2> QED
      BY <2>1, <2>2
  <1>3. CASE Form!WritesStatus(f)
    <2>1. [s1.text EXCEPT ![<<"status", 1>>] = f.text[<<"status", 1>>]] \in [Form!Boxes -> Form!Texts]
      BY <1>1
    <2>2. s1' = [text |-> [s1.text EXCEPT ![<<"status", 1>>] = f.text[<<"status", 1>>]],
                 item |-> s1.item, ofBag |-> s1.ofBag, list |-> s1.list]
      BY <1>1, <1>3 DEF Form!WritesStatus
    <2> QED
      BY <2>1, <2>2
  <1>4. ASSUME NEW p, s1' = [s1 EXCEPT !.text = Form!Read(p, f)]
        PROVE  /\ s1'.text \in [Form!Boxes -> Form!Texts] /\ s1'.item = s1.item
               /\ s1' = [text |-> s1'.text, item |-> s1'.item, ofBag |-> s1.ofBag, list |-> s1.list]
    <2>1. Form!Read(p, f) \in [Form!Boxes -> Form!Texts]
      BY ReadIsText
    <2>2. s1' = [text |-> Form!Read(p, f), item |-> s1.item, ofBag |-> s1.ofBag, list |-> s1.list]
      BY <1>1, <1>4
    <2> QED
      BY <2>1, <2>2
  <1> QED
    BY <1>2, <1>3, <1>4 DEF Form!Writes, Form!WritesShout, Form!WritesTimer

\* The page and the lists stay right when the settings and the page change in one
\* of these ways.
LEMMA RowsKeep ==
    ASSUME Form!FormAssumption, Form!FormInvariant,
           s1' = [text |-> s1'.text, item |-> s1'.item, ofBag |-> s1'.ofBag, list |-> s1.list],
           s2' = [text |-> s2'.text, item |-> s2'.item, choice |-> s2'.choice, list |-> s2.list],
           s1'.text \in [Form!Boxes -> Form!Texts], s2'.text \in [Form!Boxes -> Form!Texts],
           s1'.ofBag \in BOOLEAN,
           s1'.item \in Form!Items, s2'.item \in Form!Items, s6' \in Form!Items,
           \A r \in Form!RowSet : s1'.item[r] \in {s6'[r], NoItem} /\ s2'.item[r] \in {s6'[r], NoItem},
           s3' \in [flag : BOOLEAN, next : Nat], s3'.next > 0 => s3'.flag,
           s4' = s4, s7' \in {s7, s7 + 1}
    PROVE  Form!FormInvariant'
  <1>1. /\ s1.list \in Form!Entries /\ s2.list \in Form!Entries /\ s7 \in Nat /\ s4 \in BOOLEAN
        /\ s4 => s2.list = s1.list
        /\ \A l \in Form!Lists : Form!IsInjective(s1.list[l])
    BY DEF Form!FormInvariant, Form!FormTypes, Form!ListsAgree
  <1>2. s1'.list = s1.list /\ s2'.list = s2.list
    OBVIOUS
  <1>3. s7' \in Nat /\ 1 .. s7 \subseteq 1 .. s7'
    BY <1>1
  <1>4. \A x : x \in Seq(1 .. s7) => x \in Seq(1 .. s7')
    <2>1. \A x : x \in Seq(1 .. s7) => x \in Seq(1 .. s7 + 1)
      BY <1>1
    <2> QED
      BY <2>1
  <1>5. s1'.list \in [Form!Lists -> Seq(1 .. s7')] /\ s2'.list \in [Form!Lists -> Seq(1 .. s7')]
    BY <1>1, <1>2, <1>4 DEF Form!Entries
  <1>6. s2' \in [text : [Form!Boxes -> Form!Texts], item : Form!Items, choice : {s2'.choice},
                 list : [Form!Lists -> Seq(1 .. s7')]]
    BY <1>5
  <1>7. Form!FormTypes'
    BY <1>1, <1>3, <1>5, <1>6 DEF Form!FormTypes, Form!Entries, Form!Items
  <1> QED
    BY <1>1, <1>2, <1>7 DEF Form!FormInvariant, Form!NeverAnotherItem, Form!ListsAgree, Form!IsInjective

\* What is listed and what is stored changes together.
LEMMA ListKept ==
    ASSUME Form!FormInvariant, NEW l \in Form!Lists, NEW entries \in Seq(1 .. s7 + 1),
           Form!IsInjective(entries), s7' = s7 + 1, Form!WritesList(l, entries), s3.next = 0, s4
    PROVE  Form!FormInvariant'
  <1>1. /\ s1 \in [text : [Form!Boxes -> Form!Texts], item : Form!Items, ofBag : BOOLEAN, list : Form!Entries]
        /\ s2 \in [text : [Form!Boxes -> Form!Texts], item : Form!Items, choice : {s2.choice}, list : Form!Entries]
        /\ s7 \in Nat /\ s2.list = s1.list
        /\ \A m \in Form!Lists : Form!IsInjective(s1.list[m])
    BY DEF Form!FormInvariant, Form!FormTypes, Form!ListsAgree
  <1> DEFINE lists == [s1.list EXCEPT ![l] = entries]
  <1>2. /\ lists \in [Form!Lists -> Seq(1 .. s7 + 1)]
        /\ \A m \in Form!Lists : lists[m] = IF m = l THEN entries ELSE s1.list[m]
    <2>1. \A x : x \in Seq(1 .. s7) => x \in Seq(1 .. s7 + 1)
      BY <1>1
    <2>2. s1.list \in [Form!Lists -> Seq(1 .. s7 + 1)]
      BY <1>1, <2>1 DEF Form!Entries
    <2> QED
      BY <2>2
  <1>3. s2' = [text |-> s2.text, item |-> s2.item, choice |-> s2.choice, list |-> lists]
    BY <1>1 DEF Form!WritesList
  <1>4. s2'.list[l] = entries
    BY <1>2, <1>3
  <1>5. s1' = [text |-> s1.text, item |-> s1.item, ofBag |-> s1.ofBag, list |-> lists]
    BY <1>1, <1>4 DEF Form!WritesList
  <1>6. s3' = s3 /\ s4' = s4 /\ s6' = s6 /\ s7' = s7 + 1
    BY DEF Form!WritesList
  <1> HIDE DEF lists
  <1>7. \A m \in Form!Lists : Form!IsInjective(lists[m])
    BY <1>1, <1>2
  <1>8. s7' \in Nat /\ lists \in [Form!Lists -> Seq(1 .. s7')]
    BY <1>1, <1>2
  <1>9. s1' \in [text : [Form!Boxes -> Form!Texts], item : Form!Items, ofBag : BOOLEAN,
                 list : [Form!Lists -> Seq(1 .. s7')]]
        /\ s2' \in [text : [Form!Boxes -> Form!Texts], item : Form!Items, choice : {s2'.choice},
                    list : [Form!Lists -> Seq(1 .. s7')]]
    BY <1>1, <1>3, <1>5, <1>8
  <1>10. Form!FormTypes'
    BY <1>6, <1>8, <1>9 DEF Form!FormInvariant, Form!FormTypes, Form!Entries, Form!Items
  <1> QED
    BY <1>3, <1>5, <1>6, <1>7, <1>10
    DEF Form!FormInvariant, Form!NeverAnotherItem, Form!ListsAgree, Form!IsInjective

\* What is selected in a list that is filled again is what was chosen, or nothing.
LEMMA RefilledRows ==
    ASSUME Form!FormInvariant, NEW ofBag
    PROVE  LET f == Form!Refilled(ofBag) IN
           /\ f = [text |-> s2.text, item |-> f.item, choice |-> f.choice, list |-> s2.list]
           /\ f.item \in Form!Items
           /\ \A r \in Form!RowSet : f.item[r] \in {s6[r], NoItem}
  <1> DEFINE f == Form!Refilled(ofBag)
             list == Form!ListFor(ofBag)
             items == [r \in Form!RowSet |-> Form!Selected(s1.item[r], list)]
  <1>1. s2 = [text |-> s2.text, item |-> s2.item, choice |-> s2.choice, list |-> s2.list]
    BY DEF Form!FormInvariant, Form!FormTypes
  <1>2. s1.item \in Form!Items /\ \A r \in Form!RowSet : s1.item[r] \in {s6[r], NoItem}
    BY DEF Form!FormInvariant, Form!FormTypes, Form!NeverAnotherItem
  <1>3. \A r \in Form!RowSet : Form!Selected(s1.item[r], list) \in {s1.item[r], NoItem}
    BY DEF Form!Selected
  <1>4. items \in Form!Items /\ \A r \in Form!RowSet : items[r] \in {s6[r], NoItem}
    BY <1>2, <1>3 DEF Form!Items
  <1>5. f = [s2 EXCEPT !.choice = list, !.item = items]
    BY DEF Form!Refilled
  <1> HIDE DEF list, items, f
  <1>6. f = [text |-> s2.text, item |-> items, choice |-> list, list |-> s2.list]
    BY <1>1, <1>5
  <1> QED
    BY <1>4, <1>6 DEF f

\* The settings change only by the player, who changes them as he chose.
LEMMA FormKeeps ==
    ASSUME Form!FormAssumption, Form!FormInvariant, [Form!Next]_(Form!vars)
    PROVE  Form!FormInvariant' /\ Form!FillingKeepsSettings
  <1>0. /\ s1 = [text |-> s1.text, item |-> s1.item, ofBag |-> s1.ofBag, list |-> s1.list]
        /\ s1.text \in [Form!Boxes -> Form!Texts] /\ s1.item \in Form!Items /\ s1.ofBag \in BOOLEAN
        /\ s1.list \in Form!Entries
        /\ s2 = [text |-> s2.text, item |-> s2.item, choice |-> s2.choice, list |-> s2.list]
        /\ s2.text \in [Form!Boxes -> Form!Texts] /\ s2.item \in Form!Items /\ s2.list \in Form!Entries
        /\ s3 \in [flag : BOOLEAN, next : Nat] /\ (s3.next > 0 => s3.flag)
        /\ s4 \in BOOLEAN /\ s6 \in Form!Items /\ s7 \in Nat
        /\ \A r \in Form!RowSet : s1.item[r] \in {s6[r], NoItem} /\ s2.item[r] \in {s6[r], NoItem}
        /\ s4 => s2.list = s1.list
        /\ \A l \in Form!Lists : s1.list[l] \in Seq(1 .. s7) /\ Form!IsInjective(s1.list[l])
    BY DEF Form!FormInvariant, Form!FormTypes, Form!NeverAnotherItem, Form!ListsAgree, Form!Entries
  <1> USE DEF Form!FillingKeepsSettings
  <1>1. CASE Form!Shows
    <2> DEFINE f == Form!Refilled(s1.ofBag)
    <2>1. /\ f = [text |-> s2.text, item |-> f.item, choice |-> f.choice, list |-> s2.list]
          /\ f.item \in Form!Items /\ \A r \in Form!RowSet : f.item[r] \in {s6[r], NoItem}
      BY RefilledRows
    <2>2. /\ s2' = [f EXCEPT !.list = s1.list] /\ s3' = [flag |-> TRUE, next |-> 1] /\ s4' = TRUE
          /\ s1' = s1 /\ s6' = s6 /\ s7' = s7
      BY <1>1 DEF Form!Shows
    <2> HIDE DEF f
    <2>3. s2' = [text |-> s2.text, item |-> f.item, choice |-> f.choice, list |-> s1.list]
      BY <2>1, <2>2
    <2>4. s2' \in [text : [Form!Boxes -> Form!Texts], item : Form!Items, choice : {s2'.choice}, list : Form!Entries]
      BY <1>0, <2>1, <2>3
    <2>5. Form!FormTypes'
      BY <1>0, <2>2, <2>4 DEF Form!FormInvariant, Form!FormTypes, Form!Entries, Form!Items
    <2> QED
      BY <1>0, <2>1, <2>2, <2>3, <2>5 DEF Form!FormInvariant, Form!NeverAnotherItem, Form!ListsAgree, Form!IsInjective
  <1>2. CASE Form!FillsBox
    <2> DEFINE b == Form!Order[s3.next]
    <2>1. /\ s3.next > 0 /\ s2' = [s2 EXCEPT !.text[b] = s1.text[b]] /\ Form!Heard(b, s2')
          /\ s3' \in {[flag |-> FALSE, next |-> 0], [s3 EXCEPT !.next = @ + 1]}
          /\ s4' = s4 /\ s6' = s6 /\ s7' = s7
      BY <1>2 DEF Form!FillsBox
    <2>2. s1' = s1
      BY <1>0, <2>1 DEF Form!Heard
    <2>3. s3' \in [flag : BOOLEAN, next : Nat] /\ (s3'.next > 0 => s3'.flag)
      <3>1. s3 = [flag |-> TRUE, next |-> s3.next] /\ s3.next \in Nat
        BY <1>0, <2>1
      <3>2. s3' \in {[flag |-> FALSE, next |-> 0], [flag |-> TRUE, next |-> s3.next + 1]}
        BY <2>1, <3>1
      <3>3. s3.next + 1 \in Nat
        BY <3>1
      <3>4. CASE s3' = [flag |-> FALSE, next |-> 0]
        BY <3>4
      <3>5. CASE s3' = [flag |-> TRUE, next |-> s3.next + 1]
        BY <3>3, <3>5
      <3> QED
        BY <3>2, <3>4, <3>5
    <2> HIDE DEF b
    <2>4. s2' = [text |-> [s2.text EXCEPT ![b] = s1.text[b]], item |-> s2.item, choice |-> s2.choice, list |-> s2.list]
      BY <1>0, <2>1
    <2>5. [s2.text EXCEPT ![b] = s1.text[b]] \in [Form!Boxes -> Form!Texts]
      BY <1>0
    <2>6. /\ s2' = [text |-> s2'.text, item |-> s2'.item, choice |-> s2'.choice, list |-> s2.list]
          /\ s2'.text \in [Form!Boxes -> Form!Texts] /\ s2'.item = s2.item
      BY <2>4, <2>5
    <2>7. Form!FormInvariant'
      BY <1>0, <2>1, <2>2, <2>3, <2>6, RowsKeep
    <2> QED
      BY <2>2, <2>7
  <1>3. CASE Form!Hides
    <2>1. s1' = s1 /\ s2' = s2 /\ s3' = s3 /\ s4' = FALSE /\ s6' = s6 /\ s7' = s7
      BY <1>3 DEF Form!Hides
    <2> QED
      BY <1>0, <2>1
      DEF Form!FormInvariant, Form!FormTypes, Form!NeverAnotherItem, Form!ListsAgree, Form!IsInjective, Form!Entries,
          Form!Items
  <1>4. CASE Form!Refills
    <2> DEFINE f == Form!Refilled(TRUE)
    <2>1. /\ f = [text |-> s2.text, item |-> f.item, choice |-> f.choice, list |-> s2.list]
          /\ f.item \in Form!Items /\ \A r \in Form!RowSet : f.item[r] \in {s6[r], NoItem}
      BY RefilledRows
    <2>2. s2' = f /\ s1' = s1 /\ s3' = s3 /\ s4' = s4 /\ s6' = s6 /\ s7' = s7
      BY <1>4 DEF Form!Refills
    <2> HIDE DEF f
    <2>3. s2'.text = s2.text /\ s2'.item = f.item
          /\ s2' = [text |-> s2'.text, item |-> s2'.item, choice |-> s2'.choice, list |-> s2.list]
      BY <2>1, <2>2
    <2>4. Form!FormInvariant'
      BY <1>0, <2>1, <2>2, <2>3, RowsKeep
    <2> QED
      BY <2>2, <2>4
  <1>5. CASE Form!BagChanges
    <2>1. s1' = s1 /\ s2' = s2 /\ s3' = s3 /\ s4' = s4 /\ s6' = s6 /\ s7' = s7 + 1
      BY <1>5 DEF Form!BagChanges, Form!Changes
    <2>2. Form!FormInvariant'
      BY <1>0, <2>1, RowsKeep
    <2> QED
      BY <2>1, <2>2
  <1>6. ASSUME NEW b \in Form!Boxes, NEW text \in Form!Texts, Form!Types(b, text)
        PROVE  Form!FormInvariant' /\ Form!FillingKeepsSettings
    <2> DEFINE f == [s2 EXCEPT !.text[b] = text]
    <2>1. /\ s2' = f /\ Form!Heard(b, f) /\ s3' = s3 /\ s4' = s4 /\ s6' = s6 /\ s7' = s7 + 1
      BY <1>6 DEF Form!Types, Form!Changes
    <2>2. f = [text |-> [s2.text EXCEPT ![b] = text], item |-> s2.item, choice |-> s2.choice, list |-> s2.list]
          /\ [s2.text EXCEPT ![b] = text] \in [Form!Boxes -> Form!Texts]
      BY <1>0
    <2> HIDE DEF f
    <2>3. f.text \in [Form!Boxes -> Form!Texts] /\ f.item = s2.item
          /\ f = [text |-> f.text, item |-> f.item, choice |-> f.choice, list |-> s2.list]
      BY <2>2
    <2>4. /\ s1'.text \in [Form!Boxes -> Form!Texts] /\ s1'.item \in {s1.item, s2.item}
          /\ s1' = [text |-> s1'.text, item |-> s1'.item, ofBag |-> s1.ofBag, list |-> s1.list]
      <3>1. CASE s1' = s1
        BY <1>0, <3>1
      <3>2. CASE Form!Writes(b[1], f)
        BY <2>3, <3>2, WritesKeep
      <3> QED
        BY <2>1, <3>1, <3>2 DEF Form!Heard
    <2>5. s1'.ofBag = s1.ofBag /\ s1' = [text |-> s1'.text, item |-> s1'.item, ofBag |-> s1'.ofBag, list |-> s1.list]
      BY <2>4
    <2>6. Form!FormInvariant'
      BY <1>0, <2>1, <2>3, <2>4, <2>5, RowsKeep
    <2>7. s7' # s7
      BY <1>0, <2>1
    <2> QED
      BY <2>6, <2>7
  <1>7. ASSUME NEW r \in Form!RowSet, NEW i \in Form!Things, Form!Chooses(r, i)
        PROVE  Form!FormInvariant' /\ Form!FillingKeepsSettings
    <2> DEFINE f == [s2 EXCEPT !.item[r] = i]
    <2>1. /\ s2' = f /\ Form!WritesPotions(f) /\ s6' = [s6 EXCEPT ![r] = i]
          /\ s3' = s3 /\ s4' = s4 /\ s7' = s7 + 1
      BY <1>7 DEF Form!Chooses, Form!Changes
    <2>2. f = [text |-> s2.text, item |-> [s2.item EXCEPT ![r] = i], choice |-> s2.choice, list |-> s2.list]
      BY <1>0
    <2> HIDE DEF f
    <2>3. f.text \in [Form!Boxes -> Form!Texts] /\ f.item = [s2.item EXCEPT ![r] = i]
          /\ f = [text |-> f.text, item |-> f.item, choice |-> f.choice, list |-> s2.list]
      BY <1>0, <2>2
    <2>4. Form!Read("potions", f) \in [Form!Boxes -> Form!Texts]
      BY <2>3, ReadIsText
    <2>5. s1' = [text |-> Form!Read("potions", f), item |-> f.item, ofBag |-> s1.ofBag, list |-> s1.list]
      BY <1>0, <2>1 DEF Form!WritesPotions
    <2>6. s1'.text \in [Form!Boxes -> Form!Texts] /\ s1'.item = f.item /\ s1'.ofBag = s1.ofBag
          /\ s1' = [text |-> s1'.text, item |-> s1'.item, ofBag |-> s1'.ofBag, list |-> s1.list]
      BY <2>4, <2>5
    <2>7. f.item \in Form!Items /\ s6' \in Form!Items /\ \A q \in Form!RowSet : f.item[q] \in {s6'[q], NoItem}
      BY <1>0, <2>1, <2>3 DEF Form!Items
    <2>8. Form!FormInvariant'
      BY <1>0, <2>1, <2>3, <2>6, <2>7, RowsKeep
    <2>9. s7' # s7
      BY <1>0, <2>1
    <2> QED
      BY <2>8, <2>9
  <1>8. CASE Form!TogglesList
    <2> DEFINE f == Form!Refilled(~s1.ofBag)
               text == [b \in Form!Boxes |-> IF b[1] = "potions" THEN s1.text[b] ELSE s2.text[b]]
    <2>1. /\ f = [text |-> s2.text, item |-> f.item, choice |-> f.choice, list |-> s2.list]
          /\ f.item \in Form!Items /\ \A r \in Form!RowSet : f.item[r] \in {s6[r], NoItem}
      BY RefilledRows
    <2>2. /\ s1' = [s1 EXCEPT !.ofBag = ~@] /\ s2' = [f EXCEPT !.text = text]
          /\ s3' = s3 /\ s4' = s4 /\ s6' = s6 /\ s7' = s7 + 1
      BY <1>8 DEF Form!TogglesList, Form!Changes
    <2>3. text \in [Form!Boxes -> Form!Texts]
      BY <1>0
    <2> HIDE DEF f, text
    <2>4. s2' = [text |-> text, item |-> f.item, choice |-> f.choice, list |-> s2.list]
      BY <2>1, <2>2
    <2>5. s2'.text = text /\ s2'.item = f.item
          /\ s2' = [text |-> s2'.text, item |-> s2'.item, choice |-> s2'.choice, list |-> s2.list]
      BY <2>4
    <2>6. s1' = [text |-> s1.text, item |-> s1.item, ofBag |-> ~s1.ofBag, list |-> s1.list]
      BY <1>0, <2>2
    <2>7. s1'.text = s1.text /\ s1'.item = s1.item /\ s1'.ofBag \in BOOLEAN
          /\ s1' = [text |-> s1'.text, item |-> s1'.item, ofBag |-> s1'.ofBag, list |-> s1.list]
      BY <2>6
    <2>8. Form!FormInvariant'
      BY <1>0, <2>1, <2>2, <2>3, <2>5, <2>7, RowsKeep
    <2>9. s7' # s7
      BY <1>0, <2>2
    <2> QED
      BY <2>8, <2>9
  <1>9. ASSUME NEW l \in Form!Lists, NEW entries, Form!WritesList(l, entries), Form!Idle, Form!Changes,
               entries \in Seq(1 .. s7 + 1), Form!IsInjective(entries)
        PROVE  Form!FormInvariant' /\ Form!FillingKeepsSettings
    <2>1. s7' = s7 + 1 /\ s3.next = 0 /\ s4
      BY <1>9 DEF Form!Idle, Form!Changes
    <2>2. Form!FormInvariant'
      BY <1>9, <2>1, ListKept
    <2> QED
      BY <1>0, <2>1, <2>2
  <1>10. ASSUME NEW l \in Form!Lists, Form!Idle
         PROVE  s2.list[l] \in Seq(1 .. s7) /\ s2.list[l] \in Seq(1 .. s7 + 1) /\ Form!IsInjective(s2.list[l])
    <2>1. s2.list[l] \in Seq(1 .. s7) /\ Form!IsInjective(s2.list[l])
      BY <1>0, <1>10 DEF Form!Idle
    <2>2. \A x : x \in Seq(1 .. s7) => x \in Seq(1 .. s7 + 1)
      BY <1>0
    <2> QED
      BY <2>1, <2>2
  <1>11. ASSUME NEW l \in Form!Lists, Form!Adds(l)
         PROVE  Form!FormInvariant' /\ Form!FillingKeepsSettings
    <2>1. Form!WritesList(l, Append(s2.list[l], s7')) /\ Form!Idle /\ Form!Changes /\ s7' = s7 + 1
      BY <1>11 DEF Form!Adds, Form!Changes
    <2>2. Append(s2.list[l], s7 + 1) \in Seq(1 .. s7 + 1) /\ Form!IsInjective(Append(s2.list[l], s7 + 1))
      BY <1>0, <1>10, <2>1, AppendIsInjective
    <2>3. Form!WritesList(l, Append(s2.list[l], s7 + 1))
      BY <2>1
    <2> QED
      BY <1>9, <2>1, <2>2, <2>3
  <1>12. ASSUME NEW l \in Form!Lists, NEW k, Form!Removes(l, k)
         PROVE  Form!FormInvariant' /\ Form!FillingKeepsSettings
    <2>1. Form!WritesList(l, Form!RemoveAt(s2.list[l], k)) /\ Form!Idle /\ Form!Changes /\ k \in DOMAIN s2.list[l]
      BY <1>12 DEF Form!Removes
    <2>2. Form!RemoveAt(s2.list[l], k) \in Seq(1 .. s7 + 1) /\ Form!IsInjective(Form!RemoveAt(s2.list[l], k))
      BY <1>10, <2>1, RemovedIsInjective
    <2> QED
      BY <1>9, <2>1, <2>2
  <1>13. ASSUME NEW k, NEW to, Form!Moves(k, to)
         PROVE  Form!FormInvariant' /\ Form!FillingKeepsSettings
    <2>1. /\ Form!WritesList("buffs", Form!Moved(s2.list["buffs"], k, to)) /\ Form!Idle /\ Form!Changes
          /\ k \in DOMAIN s2.list["buffs"] /\ to \in DOMAIN s2.list["buffs"] /\ "buffs" \in Form!Lists
      BY <1>13 DEF Form!Moves, Form!Lists
    <2>2. /\ Form!Moved(s2.list["buffs"], k, to) \in Seq(1 .. s7 + 1)
          /\ Form!IsInjective(Form!Moved(s2.list["buffs"], k, to))
      BY <1>10, <2>1, MovedIsInjective
    <2> QED
      BY <1>9, <2>1, <2>2
  <1>14. CASE UNCHANGED Form!vars
    <2>1. s1' = s1 /\ s2' = s2 /\ s3' = s3 /\ s4' = s4 /\ s6' = s6 /\ s7' = s7
      BY <1>14 DEF Form!vars
    <2>2. Form!FormInvariant'
      BY <1>0, <2>1, RowsKeep
    <2> QED
      BY <2>1, <2>2
  <1> QED
    BY <1>1, <1>2, <1>3, <1>4, <1>5, <1>6, <1>7, <1>8, <1>11, <1>12, <1>13, <1>14 DEF Form!Next, Form!Player

-----------------------------------------------------------------------------
(***************************************************************************)
(* RunFeet: s1 to s7 are address, table, frame, haste, answer, shown, again.  *)
(***************************************************************************)

LEMMA FeetBegin == ASSUME Feet!FeetAssumption, Feet!Init PROVE Feet!FeetInvariant
  BY DEF Feet!FeetAssumption, Feet!Init, Feet!FeetInvariant, Feet!FeetTypes, Feet!SlotIsThere, Feet!Original,
         Feet!NoStep

\* A creature whose steps are shown finds its entry as it was, unless another took it.
LEMMA EntryIsRight ==
    ASSUME Feet!FeetAssumption, Feet!FeetInvariant, NEW e \in Entities, NEW action
    PROVE  LET entry == Feet!EntryFor(e, action) IN
           /\ entry \in [tag : Nat, prev : Nat, foot : {0, 1}]
           /\ entry.tag = Feet!TagOf(e) /\ entry.prev = s3[e]
           /\ Feet!Alone(e) /\ s6[e] # Feet!NoStep /\ entry.foot # s6[e] => s7[e]
  <1> DEFINE was == s2[Feet!SlotOf(e)]
             entry == Feet!EntryFor(e, action)
  <1>1. /\ was \in [tag : Nat, prev : Nat, foot : {0, 1}] /\ s3[e] \in Nat
        /\ Feet!TagOf(e) \in Nat /\ s7[e] \in BOOLEAN
    BY DEF Feet!FeetInvariant, Feet!FeetTypes, Feet!FeetAssumption, Feet!Slots, Feet!TagOf, Feet!SlotOf
  <1>2. Feet!Alone(e) /\ s6[e] # Feet!NoStep =>
            was.tag = Feet!TagOf(e) /\ was.foot = s6[e] /\ (~s7[e] => was.prev =< s3[e])
    BY DEF Feet!FeetInvariant
  <1>3. entry = IF was.tag = Feet!TagOf(e) THEN Feet!Kept(was, s3[e]) ELSE Feet!New(e, action, s3[e])
    BY DEF Feet!EntryFor
  <1> HIDE DEF was, entry
  <1>4. CASE was.tag = Feet!TagOf(e)
    <2>1. entry = [tag |-> was.tag, prev |-> s3[e], foot |-> IF s3[e] < was.prev THEN 1 - was.foot ELSE was.foot]
      BY <1>1, <1>3, <1>4 DEF Feet!Kept, Feet!StartsAgain
    <2>2. (IF s3[e] < was.prev THEN 1 - was.foot ELSE was.foot) \in {0, 1}
      BY <1>1
    <2>3. entry \in [tag : Nat, prev : Nat, foot : {0, 1}]
      BY <1>1, <2>1, <2>2
    <2>4. entry.tag = Feet!TagOf(e) /\ entry.prev = s3[e] /\ (entry.foot # was.foot => s3[e] < was.prev)
      BY <1>4, <2>1
    <2> QED
      BY <1>1, <1>2, <2>3, <2>4 DEF entry
  <1>5. CASE was.tag # Feet!TagOf(e)
    <2>1. entry = [tag |-> Feet!TagOf(e), prev |-> s3[e], foot |-> IF action = Feet!WalkFirst THEN 0 ELSE 1]
      BY <1>3, <1>5 DEF Feet!New
    <2> QED
      BY <1>1, <1>2, <1>5, <2>1 DEF entry
  <1> QED
    BY <1>4, <1>5

\* The entry of a creature that has it for itself is changed only with its foot.
LEMMA FeetKeep ==
    ASSUME Feet!FeetAssumption, Feet!FeetInvariant, [Feet!Next]_(Feet!vars)
    PROVE  Feet!FeetInvariant' /\ Feet!FootIsSteady
  <1>0. /\ s1 \in Addresses
        /\ s2 \in [Feet!Slots -> [tag : Nat, prev : Nat, foot : {0, 1}]]
        /\ s3 \in [Entities -> Nat]
        /\ s6 \in [Entities -> {Feet!NoStep, 0, 1}] /\ s7 \in [Entities -> BOOLEAN] /\ Feet!SlotIsThere
    BY DEF Feet!FeetInvariant, Feet!FeetTypes
  <1>1. ASSUME NEW e \in Entities, Feet!Animates(e)
        PROVE  Feet!FeetInvariant' /\ Feet!FootIsSteady
    <2>1. PICK to \in {0, s3[e] + 1} :
              /\ s3' = [s3 EXCEPT ![e] = to] /\ s7' = [s7 EXCEPT ![e] = @ \/ to < s3[e]]
              /\ UNCHANGED <<s1, s2, s4, s5, s6>>
      BY <1>1 DEF Feet!Animates
    <2>2. s3' \in [Entities -> Nat] /\ s7' \in [Entities -> BOOLEAN]
      BY <1>0, <2>1
    <2>3. ASSUME NEW d \in Entities, Feet!Alone(d), s6[d] # Feet!NoStep
          PROVE  /\ s2[Feet!SlotOf(d)].tag = Feet!TagOf(d) /\ s2[Feet!SlotOf(d)].foot = s6[d]
                 /\ ~s7'[d] => s2[Feet!SlotOf(d)].prev =< s3'[d]
      <3>1. /\ s2[Feet!SlotOf(d)].tag = Feet!TagOf(d) /\ s2[Feet!SlotOf(d)].foot = s6[d]
            /\ ~s7[d] => s2[Feet!SlotOf(d)].prev =< s3[d]
        BY <2>3 DEF Feet!FeetInvariant
      <3>2. s2[Feet!SlotOf(d)].prev \in Nat
        BY <1>0 DEF Feet!Slots
      <3>3. CASE d = e
        <4>1. s3'[d] = to /\ s7'[d] = (s7[d] \/ to < s3[d])
          BY <1>0, <2>1, <3>3
        <4>2. ~s7'[d] => ~s7[d] /\ ~(to < s3[d])
          BY <4>1
        <4>3. s3[d] \in Nat /\ to \in Nat
          BY <1>0, <3>3
        <4> QED
          BY <3>1, <3>2, <4>1, <4>2, <4>3
      <3>4. CASE d # e
        BY <1>0, <2>1, <3>1, <3>4
      <3> QED
        BY <3>3, <3>4
    <2> QED
      BY <1>0, <2>1, <2>2, <2>3
      DEF Feet!FeetInvariant, Feet!FeetTypes, Feet!SlotIsThere, Feet!FootIsSteady, Feet!Alone, Feet!SlotOf, Feet!TagOf,
          Feet!Slots
  <1>2. ASSUME NEW e \in Entities, Feet!Hastens(e)
        PROVE  Feet!FeetInvariant' /\ Feet!FootIsSteady
    BY <1>0, <1>2
    DEF Feet!Hastens, Feet!FeetInvariant, Feet!FeetTypes, Feet!SlotIsThere, Feet!FootIsSteady, Feet!Alone, Feet!SlotOf,
        Feet!TagOf, Feet!Slots
  <1>3. ASSUME NEW e \in Entities, NEW action, NEW moving, Feet!LooksUp(e, action, moving)
        PROVE  Feet!FeetInvariant' /\ Feet!FootIsSteady
    <2>1. CASE ~Feet!Replaced(e, action, moving)
      <3>1. s5' = [who |-> e, slot |-> Feet!Original] /\ UNCHANGED <<s1, s2, s3, s4, s6, s7>>
        BY <1>3, <2>1 DEF Feet!LooksUp
      <3> QED
        BY <1>0, <3>1
        DEF Feet!FeetInvariant, Feet!FeetTypes, Feet!SlotIsThere, Feet!FootIsSteady, Feet!Alone, Feet!SlotOf,
            Feet!TagOf, Feet!Slots
    <2>2. CASE Feet!Replaced(e, action, moving)
      <3> DEFINE entry == Feet!EntryFor(e, action)
      <3>1. /\ s2' = [s2 EXCEPT ![Feet!SlotOf(e)] = entry]
            /\ s5' = [who |-> e, slot |-> Feet!StepShown(e, entry.foot)]
            /\ s6' = [s6 EXCEPT ![e] = entry.foot] /\ s7' = [s7 EXCEPT ![e] = FALSE]
            /\ s1' = s1 /\ s3' = s3 /\ s4' = s4
        BY <1>3, <2>2 DEF Feet!LooksUp
      <3>2. /\ entry \in [tag : Nat, prev : Nat, foot : {0, 1}]
            /\ entry.tag = Feet!TagOf(e) /\ entry.prev = s3[e]
            /\ Feet!Alone(e) /\ s6[e] # Feet!NoStep /\ entry.foot # s6[e] => s7[e]
        BY EntryIsRight
      <3> HIDE DEF entry
      <3>3. 98 \in SpriteSteps[e]
        BY <2>2 DEF Feet!Replaced
      <3>4. Feet!SlotIsThere'
        BY <3>1, <3>3 DEF Feet!SlotIsThere, Feet!StepShown
      <3>5. Feet!FeetTypes'
        <4>1. Feet!SlotOf(e) \in Feet!Slots /\ Feet!Slots' = Feet!Slots
          BY <3>1 DEF Feet!Slots, Feet!SlotOf
        <4>2. s2' \in [Feet!Slots -> [tag : Nat, prev : Nat, foot : {0, 1}]]
          BY <1>0, <3>1, <3>2, <4>1
        <4>3. s6' \in [Entities -> {Feet!NoStep, 0, 1}] /\ s7' \in [Entities -> BOOLEAN]
          BY <1>0, <3>1, <3>2
        <4> QED
          BY <1>0, <3>1, <4>1, <4>2, <4>3 DEF Feet!FeetTypes
      <3>6. ASSUME NEW d \in Entities, Feet!Alone(d), s6'[d] # Feet!NoStep
            PROVE  /\ s2'[Feet!SlotOf(d)].tag = Feet!TagOf(d) /\ s2'[Feet!SlotOf(d)].foot = s6'[d]
                   /\ ~s7'[d] => s2'[Feet!SlotOf(d)].prev =< s3[d]
        <4>1. CASE d = e
          <5>1. s2'[Feet!SlotOf(d)] = entry /\ s6'[d] = entry.foot
            BY <1>0, <3>1, <4>1 DEF Feet!Slots
          <5>2. s3[d] \in Nat
            BY <1>0
          <5> QED
            BY <3>2, <4>1, <5>1, <5>2
        <4>2. CASE d # e
          <5>1. Feet!SlotOf(d) # Feet!SlotOf(e) /\ Feet!SlotOf(d) \in Feet!Slots
            BY <3>6, <4>2 DEF Feet!Alone, Feet!Slots
          <5>2. s2'[Feet!SlotOf(d)] = s2[Feet!SlotOf(d)] /\ s6'[d] = s6[d] /\ s7'[d] = s7[d]
            BY <1>0, <3>1, <4>2, <5>1
          <5> QED
            BY <3>6, <5>2 DEF Feet!FeetInvariant
        <4> QED
          BY <4>1, <4>2
      <3>7. Feet!FeetInvariant'
        BY <3>1, <3>4, <3>5, <3>6 DEF Feet!FeetInvariant, Feet!Alone, Feet!SlotOf, Feet!TagOf
      <3>8. Feet!FootIsSteady
        BY <1>0, <3>1, <3>2 DEF Feet!FootIsSteady, Feet!Alone
      <3> QED
        BY <3>7, <3>8
    <2> QED
      BY <2>1, <2>2
  <1>4. CASE UNCHANGED Feet!vars
    BY <1>0, <1>4
    DEF Feet!vars, Feet!FeetInvariant, Feet!FeetTypes, Feet!SlotIsThere, Feet!FootIsSteady, Feet!Alone, Feet!SlotOf,
        Feet!TagOf, Feet!Slots
  <1> QED
    BY <1>1, <1>2, <1>3, <1>4 DEF Feet!Next

-----------------------------------------------------------------------------
(***************************************************************************)
(* Profiles: s1 to s6 are player, session, disk, wish, excuse and steps.      *)
(***************************************************************************)

LEMMA ProfileBegins == ASSUME Profile!ProfilesAssumption, Profile!Init PROVE Profile!ProfileInvariant
  <1>1. /\ s1 = NoCharacter /\ s2 = [on |-> FALSE, file |-> Fallback, settings |-> Default, for |-> NoCharacter]
        /\ s3 = [f \in Files |-> "none"] /\ s4 = [c \in Characters |-> Default] /\ s5 = {}
        /\ FileOf \in [Characters -> Files] /\ Fallback \in Files /\ Default \in Values
    BY DEF Profile!Init, Profile!NoSession, Profile!ProfilesAssumption
  <1> QED
    BY <1>1 DEF Profile!ProfileInvariant, Profile!ProfileTypes, Profile!SettingsComeBack

\* A session that starts with the file of the player has what was in it.
LEMMA StartsRight ==
    ASSUME Profile!ProfilesAssumption, Profile!ProfileInvariant, NEW file \in Files, NEW readable \in BOOLEAN,
           Profile!Begins(file, readable), s5 \subseteq s5',
           file # FileOf[s1] => s1 \in s5' /\ Profile!Sharing(file) \subseteq s5',
           ~readable \/ s3[file] = "garbled" => Profile!Sharing(file) \subseteq s5'
    PROVE  Profile!ProfileInvariant'
  <1>0. /\ s1 \in Characters \cup {NoCharacter} /\ s3 \in [Files -> Values \cup {"none", "garbled"}]
        /\ s4 \in [Characters -> Values] /\ Profile!SettingsComeBack
        /\ FileOf \in [Characters -> Files] /\ Default \in Values /\ {"none", "garbled"} \cap Values = {}
    BY DEF Profile!ProfileInvariant, Profile!ProfileTypes, Profile!ProfilesAssumption
  <1> DEFINE settings == IF readable THEN Profile!Loaded(file) ELSE Default
  <1>1. /\ s1 \in Characters /\ ~s2.on /\ s1' = s1 /\ s3' = s3 /\ s4' = s4
        /\ s2' = [on |-> TRUE, file |-> file, for |-> s1, settings |-> settings]
    BY <1>0 DEF Profile!Begins
  <1>2. settings \in Values
    BY <1>0 DEF Profile!Loaded
  <1>3. Profile!ProfileTypes'
    BY <1>0, <1>1, <1>2 DEF Profile!ProfileTypes
  <1>4. ASSUME NEW c \in Characters \ s5', FileOf[c] = file
        PROVE  settings = s4[c]
    <2>1. readable /\ s3[file] # "garbled" /\ c \notin s5
      BY <1>4 DEF Profile!Sharing
    <2>2. s3[file] = s4[c] \/ (s3[file] = "none" /\ s4[c] = Default)
      BY <1>0, <1>1, <1>4, <2>1 DEF Profile!SettingsComeBack
    <2>3. s4[c] \in Values
      BY <1>0
    <2> QED
      BY <1>0, <2>1, <2>2, <2>3 DEF Profile!Loaded
  <1> HIDE DEF settings
  <1>5. /\ s2'.on /\ s2'.file = file /\ s2'.for = s1 /\ s2'.settings = settings
    BY <1>1
  <1>6. ASSUME NEW c \in Characters \ s5', s1 = c
        PROVE  file = FileOf[c]
    BY <1>6
  <1>7. Profile!SettingsComeBack'
    <2> SUFFICES ASSUME NEW c \in Characters \ s5'
                 PROVE  IF s1 = c THEN settings = s4[c]
                        ELSE s3[FileOf[c]] = s4[c] \/ (s3[FileOf[c]] = "none" /\ s4[c] = Default)
      BY <1>1, <1>5 DEF Profile!SettingsComeBack
    <2> QED
      BY <1>0, <1>1, <1>4, <1>6 DEF Profile!SettingsComeBack
  <1> QED
    BY <1>1, <1>3, <1>4, <1>5, <1>6, <1>7 DEF Profile!ProfileInvariant

\* A session that ends leaves in its file what everybody wants who has the file,
\* unless it fails.
LEMMA EndsRight ==
    ASSUME Profile!ProfilesAssumption, Profile!ProfileInvariant, s2.on, s1' = s1, s4' = s4,
           s2' = Profile!NoSession, s5 \subseteq s5',
           s3' \in {s3, [s3 EXCEPT ![s2.file] = "garbled"], [s3 EXCEPT ![s2.file] = s2.settings]},
           s3' # [s3 EXCEPT ![s2.file] = s2.settings] => Profile!Sharing(s2.file) \subseteq s5'
    PROVE  Profile!ProfileInvariant'
  <1>0. /\ s1 \in Characters \cup {NoCharacter} /\ s3 \in [Files -> Values \cup {"none", "garbled"}]
        /\ s2.file \in Files /\ s2.settings \in Values /\ s4 \in [Characters -> Values]
        /\ FileOf \in [Characters -> Files] /\ Default \in Values /\ Fallback \in Files
    BY DEF Profile!ProfileInvariant, Profile!ProfileTypes, Profile!ProfilesAssumption
  <1>1. s2' = [on |-> FALSE, file |-> Fallback, settings |-> Default, for |-> NoCharacter]
    BY DEF Profile!NoSession
  <1>2. s3' \in [Files -> Values \cup {"none", "garbled"}]
    BY <1>0
  <1>3. Profile!ProfileTypes'
    BY <1>0, <1>1, <1>2 DEF Profile!ProfileTypes
  <1>4. ASSUME NEW c \in Characters \ s5'
        PROVE  s3'[FileOf[c]] = s4[c] \/ (s3'[FileOf[c]] = "none" /\ s4[c] = Default)
    <2>1. /\ c \notin s5 /\ FileOf[c] \in Files
          /\ s2.for = c => s2.file = FileOf[c]
          /\ s2.file = FileOf[c] => s2.settings = s4[c]
          /\ s2.for # c => s3[FileOf[c]] = s4[c] \/ (s3[FileOf[c]] = "none" /\ s4[c] = Default)
      BY <1>0, <1>4 DEF Profile!ProfileInvariant, Profile!SettingsComeBack
    <2>2. CASE FileOf[c] = s2.file
      <3>1. c \in Profile!Sharing(s2.file)
        BY <2>2 DEF Profile!Sharing
      <3>2. s3' = [s3 EXCEPT ![s2.file] = s2.settings]
        BY <1>4, <3>1
      <3>3. s3'[FileOf[c]] = s2.settings
        BY <1>0, <2>2, <3>2
      <3> QED
        BY <2>1, <2>2, <3>3
    <2>3. CASE FileOf[c] # s2.file
      BY <1>0, <2>1, <2>3
    <2> QED
      BY <2>2, <2>3
  <1> QED
    BY <1>1, <1>3, <1>4 DEF Profile!ProfileInvariant, Profile!SettingsComeBack

\* Settings come back, whatever the players and the listener do.
LEMMA ProfileKeeps ==
    ASSUME Profile!ProfilesAssumption, Profile!ProfileInvariant, [Profile!Next]_(Profile!vars)
    PROVE  Profile!ProfileInvariant'
  <1>0. /\ s1 \in Characters \cup {NoCharacter} /\ s3 \in [Files -> Values \cup {"none", "garbled"}]
        /\ s2 \in [on : BOOLEAN, file : Files, settings : Values, for : Characters \cup {NoCharacter}]
        /\ s4 \in [Characters -> Values]
        /\ FileOf \in [Characters -> Files] /\ Fallback \in Files
    BY DEF Profile!ProfileInvariant, Profile!ProfileTypes, Profile!ProfilesAssumption
  <1>1. CASE Profile!Starts
    <2>1. /\ Profile!Begins(FileOf[s1], TRUE) /\ s5 \subseteq s5'
          /\ s3[FileOf[s1]] = "garbled" => Profile!Sharing(FileOf[s1]) \subseteq s5'
      BY <1>1 DEF Profile!Starts
    <2>2. FileOf[s1] \in Files
      BY <1>0, <2>1 DEF Profile!Begins
    <2> QED
      BY <2>1, <2>2, StartsRight
  <1>2. CASE Profile!StartsUnread
    <2>1. /\ Profile!Begins(FileOf[s1], FALSE) /\ s5 \subseteq s5'
          /\ Profile!Sharing(FileOf[s1]) \subseteq s5'
      BY <1>2 DEF Profile!StartsUnread
    <2>2. FileOf[s1] \in Files
      BY <1>0, <2>1 DEF Profile!Begins
    <2> QED
      BY <2>1, <2>2, StartsRight
  <1>3. CASE Profile!StartsNameless
    <2>1. /\ Profile!Begins(Fallback, TRUE) /\ s5 \subseteq s5'
          /\ s1 \in s5' /\ Profile!Sharing(Fallback) \subseteq s5'
      BY <1>3 DEF Profile!StartsNameless
    <2> QED
      BY <1>0, <2>1, StartsRight
  <1>4. CASE Profile!Ends
    BY <1>4, EndsRight DEF Profile!Ends, Profile!FileToWrite
  <1>5. CASE Profile!EndsUnwritten
    BY <1>5, EndsRight DEF Profile!EndsUnwritten, Profile!FileToWrite
  <1>6. ASSUME NEW v \in Values, Profile!Sets(v)
        PROVE  Profile!ProfileInvariant'
    <2>1. /\ s2.on /\ s1 \in Characters /\ s1' = s1 /\ s3' = s3
          /\ s2' = [s2 EXCEPT !.settings = v] /\ s4' = [s4 EXCEPT ![s1] = v]
          /\ s5' = s5 \cup IF s1 # s2.for THEN {s1} \cup Profile!Sharing(s2.file)
                           ELSE Profile!Sharing(s2.file) \ {s1}
      BY <1>0, <1>6 DEF Profile!Sets
    <2>2. s2' = [on |-> TRUE, file |-> s2.file, settings |-> v, for |-> s2.for]
      BY <1>0, <2>1
    <2>3. Profile!ProfileTypes'
      BY <1>0, <2>1, <2>2 DEF Profile!ProfileTypes
    <2>4. ASSUME NEW c \in Characters \ s5'
          PROVE  /\ s2.for = c => s2.file = FileOf[c] /\ s4'[c] = v
                 /\ s2.file = FileOf[c] => s4'[c] = v
                 /\ s2.for # c => s3[FileOf[c]] = s4'[c] \/ (s3[FileOf[c]] = "none" /\ s4'[c] = Default)
      <3>1. /\ c \notin s5 /\ FileOf[c] \in Files
            /\ s2.for = c => s2.file = FileOf[c]
            /\ s2.for # c => s3[FileOf[c]] = s4[c] \/ (s3[FileOf[c]] = "none" /\ s4[c] = Default)
        BY <1>0, <2>1, <2>4 DEF Profile!ProfileInvariant, Profile!SettingsComeBack
      <3>2. CASE c = s1
        BY <1>0, <2>1, <2>4, <3>1, <3>2
      <3>3. CASE c # s1
        <4>1. s2.file # FileOf[c]
          BY <2>1, <2>4, <3>3 DEF Profile!Sharing
        <4>2. s4'[c] = s4[c]
          BY <1>0, <2>1, <3>3
        <4> QED
          BY <3>1, <4>1, <4>2
      <3> QED
        BY <3>2, <3>3
    <2> QED
      BY <2>1, <2>2, <2>3, <2>4 DEF Profile!ProfileInvariant, Profile!SettingsComeBack
  <1>7. ASSUME NEW c \in Characters, Profile!Enters(c)
        PROVE  Profile!ProfileInvariant'
    BY <1>0, <1>7 DEF Profile!Enters, Profile!ProfileInvariant, Profile!ProfileTypes, Profile!SettingsComeBack
  <1>8. CASE Profile!Leaves
    BY <1>0, <1>8 DEF Profile!Leaves, Profile!ProfileInvariant, Profile!ProfileTypes, Profile!SettingsComeBack
  <1>9. CASE UNCHANGED Profile!vars
    BY <1>0, <1>9 DEF Profile!vars, Profile!ProfileInvariant, Profile!ProfileTypes, Profile!SettingsComeBack
  <1> QED
    BY <1>1, <1>2, <1>3, <1>4, <1>5, <1>6, <1>7, <1>8, <1>9 DEF Profile!Next, Profile!Listener, Profile!Player

-----------------------------------------------------------------------------
(***************************************************************************)
(* ServerLists: s1 to s10 are list, config, server, slots, current, form,     *)
(* keys, saved, typed and past.                                            *)
(***************************************************************************)

\* The slots that are filled from a list have its servers.
LEMMA FilledSlots ==
    ASSUME Lists!ListsAssumption, NEW servers \in Seq(Lists!Servers)
    PROVE  /\ Lists!Filled(servers) \in [Lists!SlotSet -> Lists!Servers]
           /\ \A i \in Lists!SlotSet : i <= Len(servers) => Lists!Filled(servers)[i] = servers[i]
  <1>1. ASSUME NEW i \in Lists!SlotSet
        PROVE  (IF i <= Len(servers) THEN servers[i] ELSE [name |-> i, key |-> 0]) \in Lists!Servers
    <2>1. CASE i <= Len(servers)
      BY <2>1 DEF Lists!SlotSet
    <2>2. CASE ~(i <= Len(servers))
      <3>1. 0 \in 0 .. MaxKeys
        BY DEF Lists!ListsAssumption
      <3> QED
        BY <2>2, <3>1 DEF Lists!Servers
    <2> QED
      BY <2>1, <2>2
  <1> QED
    BY <1>1 DEF Lists!Filled

\* So have those that are loaded, from the list or from an old config.ini.
LEMMA LoadedSlots ==
    ASSUME Lists!ListsAssumption, s1 \in [readable : BOOLEAN, servers : Seq(Lists!Servers)]
    PROVE  Lists!Existing \in Seq(Lists!Servers) /\ Lists!Loaded \in [Lists!SlotSet -> Lists!Servers]
  <1>1. ListSlots \in Nat /\ MaxKeys \in Nat
    BY DEF Lists!ListsAssumption
  <1>2. ASSUME NEW i \in Lists!SlotSet
        PROVE  [name |-> ListSlots + 1 - i, key |-> 0] \in Lists!Servers
    <2>1. ListSlots + 1 - i \in Lists!SlotSet
      BY <1>1 DEF Lists!SlotSet
    <2> QED
      BY <1>1, <2>1 DEF Lists!Servers
  <1>3. Lists!Old \in [1 .. ListSlots -> Lists!Servers]
    BY <1>2 DEF Lists!Old, Lists!SlotSet
  <1>4. Lists!Old \in Seq(Lists!Servers)
    BY <1>1, <1>3
  <1>5. Lists!Existing \in Seq(Lists!Servers)
    BY DEF Lists!Existing
  <1> DEFINE servers == IF Lists!Existing = <<>> /\ s2 = "old" THEN Lists!Old ELSE Lists!Existing
  <1>6. servers \in Seq(Lists!Servers)
    BY <1>4, <1>5
  <1>7. Lists!Loaded = Lists!Filled(servers)
    BY DEF Lists!Loaded
  <1> HIDE DEF servers
  <1> QED
    BY <1>5, <1>6, <1>7, FilledSlots

LEMMA ListsBegin == ASSUME Lists!ListsAssumption, Lists!Init PROVE Lists!ListsInvariant
  <1>1. /\ s1 \in [readable : {TRUE}, servers : {<<>>, <<[name |-> 1, key |-> 0]>>}]
        /\ s3 = 0 /\ s4 = Lists!Loaded /\ s5 = 1
        /\ s6 = [name |-> Lists!Loaded[1].name, options |-> Lists!LoadedOptions] /\ s7 = 0
        /\ s8 = [i \in Lists!SlotSet |-> IF i <= Len(s1.servers) THEN s1.servers[i] ELSE Lists!None]
        /\ s9 = [i \in Lists!SlotSet |-> Lists!Loaded[i].name]
        /\ s10 = [steps |-> 0, moved |-> FALSE, unread |-> FALSE, lost |-> FALSE, of |-> 0]
    BY DEF Lists!Init
  <1>2. /\ 1 \in Lists!SlotSet /\ [name |-> 1, key |-> 0] \in Lists!Servers /\ Lists!None \in Lists!Servers
        /\ ListSlots \in Nat /\ MaxKeys \in Nat
    BY DEF Lists!ListsAssumption, Lists!SlotSet, Lists!Servers, Lists!None
  <1>3. s1.servers \in Seq(Lists!Servers) /\ s1 \in [readable : BOOLEAN, servers : Seq(Lists!Servers)]
    <2>1. <<>> \in Seq(Lists!Servers) /\ <<[name |-> 1, key |-> 0]>> \in Seq(Lists!Servers)
      BY <1>2
    <2>2. PICK servers \in {<<>>, <<[name |-> 1, key |-> 0]>>} : s1 = [readable |-> TRUE, servers |-> servers]
      BY <1>1
    <2>3. servers \in Seq(Lists!Servers)
      BY <2>1, <2>2
    <2> QED
      BY <2>2, <2>3
  <1>4. Lists!Loaded \in [Lists!SlotSet -> Lists!Servers]
    BY <1>3, LoadedSlots
  <1>5. \A i \in Lists!SlotSet : Lists!Loaded[i].name \in Typed \cup Lists!SlotSet
    BY <1>4 DEF Lists!Servers
  <1>6. s8 \in [Lists!SlotSet -> Lists!Servers]
    BY <1>1, <1>2, <1>3 DEF Lists!SlotSet
  <1>7. Lists!LoadedOptions \in {"default", "chosen"}
    BY DEF Lists!LoadedOptions
  <1>8. Lists!ListTypes
    BY <1>1, <1>2, <1>3, <1>4, <1>5, <1>6, <1>7 DEF Lists!ListTypes
  <1>9. Lists!TypedIsKept
    BY <1>1, <1>2, <1>4 DEF Lists!TypedIsKept
  <1>10. Lists!InItsPlace
    BY <1>1 DEF Lists!InItsPlace
  <1> QED
    BY <1>1, <1>8, <1>9, <1>10 DEF Lists!ListsInvariant, Lists!LastPair

\* What the form says goes into its slot; the keys stay.
LEMMA FlushedSlots ==
    ASSUME Lists!ListTypes
    PROVE  /\ Lists!Flushed \in [Lists!SlotSet -> Lists!Servers]
           /\ \A i \in Lists!SlotSet :
                  /\ Lists!Flushed[i].key = s4[i].key
                  /\ Lists!Flushed[i].name = IF i = s5 THEN s6.name ELSE s4[i].name
  <1>1. /\ s4 \in [Lists!SlotSet -> Lists!Servers] /\ s5 \in Lists!SlotSet
        /\ s6.name \in Typed \cup Lists!SlotSet
    BY DEF Lists!ListTypes
  <1>2. s4[s5] = [name |-> s4[s5].name, key |-> s4[s5].key] /\ s4[s5].key \in 0 .. MaxKeys
    BY <1>1 DEF Lists!Servers
  <1>3. Lists!Flushed = [s4 EXCEPT ![s5] = [name |-> s6.name, key |-> s4[s5].key]]
    <2>1. [s4[s5] EXCEPT !.name = s6.name] = [name |-> s6.name, key |-> s4[s5].key]
      BY <1>2
    <2> QED
      BY <2>1 DEF Lists!Flushed
  <1>4. [name |-> s6.name, key |-> s4[s5].key] \in Lists!Servers
    BY <1>1, <1>2 DEF Lists!Servers
  <1> QED
    BY <1>1, <1>3, <1>4

\* The list that a save writes has the server in the place of its slot, if the list
\* goes that far, and all others in theirs.
LEMMA PutInPlace ==
    ASSUME Lists!ListTypes, NEW this \in Lists!Servers
    PROVE  /\ Lists!Put(this) \in Seq(Lists!Servers)
           /\ s5 <= Len(Lists!Existing) + 1 =>
                  /\ s5 <= Len(Lists!Put(this)) /\ Lists!Put(this)[s5] = this
                  /\ \A i \in Lists!SlotSet : i # s5 /\ i <= Len(Lists!Existing) =>
                         i <= Len(Lists!Put(this)) /\ Lists!Put(this)[i] = Lists!Existing[i]
  <1> DEFINE existing == Lists!Existing
             put == Lists!Put(this)
  <1>1. existing \in Seq(Lists!Servers) /\ s5 \in Nat \ {0} /\ Lists!SlotSet \subseteq Nat \ {0}
    BY DEF Lists!ListTypes, Lists!Existing, Lists!SlotSet
  <1>2. put = IF s5 <= Len(existing) THEN [existing EXCEPT ![s5] = this] ELSE Append(existing, this)
    BY DEF Lists!Put
  <1> HIDE DEF existing, put
  <1>3. CASE s5 <= Len(existing)
    <2>1. put = [existing EXCEPT ![s5] = this]
      BY <1>2, <1>3
    <2>2. put \in Seq(Lists!Servers) /\ Len(put) = Len(existing)
      BY <1>1, <1>3, <2>1
    <2>3. \A i \in 1 .. Len(existing) : put[i] = IF i = s5 THEN this ELSE existing[i]
      BY <1>1, <1>3, <2>1
    <2>4. s5 \in 1 .. Len(existing)
      BY <1>1, <1>3
    <2> QED
      BY <1>1, <1>3, <2>2, <2>3, <2>4 DEF existing, put
  <1>4. CASE ~(s5 <= Len(existing))
    <2>1. put = Append(existing, this)
      BY <1>2, <1>4
    <2>2. put \in Seq(Lists!Servers) /\ Len(put) = Len(existing) + 1
      BY <1>1, <2>1
    <2>3. put[Len(existing) + 1] = this /\ \A i \in 1 .. Len(existing) : put[i] = existing[i]
      BY <1>1, <2>1
    <2>4. s5 <= Len(existing) + 1 => s5 = Len(existing) + 1
      BY <1>1, <1>4
    <2> QED
      BY <1>1, <2>2, <2>3, <2>4 DEF existing, put
  <1> QED
    BY <1>3, <1>4

\* The slots keep what was typed in them, their places in the list and the last key.
LEMMA ListsKeep ==
    ASSUME Lists!ListsAssumption, Lists!ListsInvariant, [Lists!Next]_(Lists!vars)
    PROVE  Lists!ListsInvariant'
  <1>0. /\ s1 \in [readable : BOOLEAN, servers : Seq(Lists!Servers)]
        /\ s3 \in Nat /\ s7 \in 0 .. MaxKeys
        /\ s4 \in [Lists!SlotSet -> Lists!Servers] /\ s5 \in Lists!SlotSet
        /\ s6 \in [name : Typed \cup Lists!SlotSet, options : {"default", "chosen"}]
        /\ s8 \in [Lists!SlotSet -> Lists!Servers] /\ s9 \in [Lists!SlotSet -> Typed \cup Lists!SlotSet]
        /\ s10 \in [steps : Nat, moved : BOOLEAN, unread : BOOLEAN, lost : BOOLEAN, of : 0 .. ListSlots]
        /\ Lists!TypedIsKept /\ Lists!InItsPlace /\ Lists!LastPair
        /\ MaxKeys \in Nat /\ ListSlots \in Nat \ {0}
    BY DEF Lists!ListsInvariant, Lists!ListTypes, Lists!ListsAssumption
  <1>a. s10 = [steps |-> s10.steps, moved |-> s10.moved, unread |-> s10.unread, lost |-> s10.lost, of |-> s10.of]
    BY <1>0
  <1>b. s6 = [name |-> s6.name, options |-> s6.options]
    BY <1>0
  <1>1. ASSUME NEW name \in Typed, Lists!Types(name)
        PROVE  Lists!ListsInvariant'
    <2>1. /\ s10' = [steps |-> s10.steps + 1, moved |-> s10.moved, unread |-> s10.unread, lost |-> s10.lost, of |-> s10.of]
          /\ s6' = [name |-> name, options |-> s6.options]
          /\ s9' = [s9 EXCEPT ![s5] = name]
          /\ UNCHANGED <<s1, s2, s3, s4, s5, s7, s8>>
      BY <1>1, <1>a, <1>b DEF Lists!Types, Lists!Step
    <2>2. Lists!ListTypes'
      BY <1>0, <2>1 DEF Lists!ListTypes
    <2>3. Lists!TypedIsKept' /\ Lists!InItsPlace' /\ Lists!LastPair'
      BY <1>0, <2>1 DEF Lists!TypedIsKept, Lists!InItsPlace, Lists!LastPair
    <2> QED
      BY <2>2, <2>3 DEF Lists!ListsInvariant
  <1>2. CASE Lists!ChoosesOptions
    <2>1. /\ s10' = [steps |-> s10.steps + 1, moved |-> s10.moved, unread |-> s10.unread, lost |-> s10.lost, of |-> s10.of]
          /\ s6' = [name |-> s6.name, options |-> "chosen"]
          /\ UNCHANGED <<s1, s2, s3, s4, s5, s7, s8, s9>>
      BY <1>2, <1>a, <1>b DEF Lists!ChoosesOptions, Lists!Step
    <2>2. Lists!ListTypes'
      BY <1>0, <2>1 DEF Lists!ListTypes
    <2>3. Lists!TypedIsKept' /\ Lists!InItsPlace' /\ Lists!LastPair'
      BY <1>0, <2>1 DEF Lists!TypedIsKept, Lists!InItsPlace, Lists!LastPair
    <2> QED
      BY <2>2, <2>3 DEF Lists!ListsInvariant
  <1>3. ASSUME NEW config1, Lists!Saves(config1)
        PROVE  Lists!ListsInvariant'
    <2> DEFINE this == Lists!Flushed[s5]
    <2>1. /\ s10' = [steps |-> s10.steps + 1, moved |-> s10.moved \/ s5 > Len(Lists!Existing) + 1 \/ ~s1.readable,
                     unread |-> s10.unread \/ ~s1.readable, lost |-> s10.lost, of |-> s10.of]
          /\ s4' = Lists!Flushed /\ s1' = [readable |-> TRUE, servers |-> Lists!Put(this)]
          /\ s8' = [s8 EXCEPT ![s5] = this]
          /\ UNCHANGED <<s3, s5, s6, s7, s9>>
      BY <1>3, <1>a DEF Lists!Saves, Lists!Step
    <2>2. /\ Lists!Flushed \in [Lists!SlotSet -> Lists!Servers]
          /\ \A i \in Lists!SlotSet :
                 /\ Lists!Flushed[i].key = s4[i].key
                 /\ Lists!Flushed[i].name = IF i = s5 THEN s6.name ELSE s4[i].name
      BY FlushedSlots DEF Lists!ListsInvariant
    <2>3. this \in Lists!Servers
      BY <1>0, <2>2
    <2> HIDE DEF this
    <2>4. /\ Lists!Put(this) \in Seq(Lists!Servers)
          /\ s5 <= Len(Lists!Existing) + 1 =>
                  /\ s5 <= Len(Lists!Put(this)) /\ Lists!Put(this)[s5] = this
                  /\ \A i \in Lists!SlotSet : i # s5 /\ i <= Len(Lists!Existing) =>
                         i <= Len(Lists!Put(this)) /\ Lists!Put(this)[i] = Lists!Existing[i]
      BY <2>3, PutInPlace DEF Lists!ListsInvariant
    <2>5. Lists!ListTypes'
      <3>1. s8' \in [Lists!SlotSet -> Lists!Servers]
        BY <1>0, <2>1, <2>3
      <3>2. s1' \in [readable : BOOLEAN, servers : Seq(Lists!Servers)]
        BY <2>1, <2>4
      <3>3. s10' \in [steps : Nat, moved : BOOLEAN, unread : BOOLEAN, lost : BOOLEAN, of : 0 .. ListSlots]
        BY <1>0, <2>1
      <3> QED
        BY <1>0, <2>1, <2>2, <3>1, <3>2, <3>3 DEF Lists!ListTypes
    <2>6. Lists!TypedIsKept' /\ Lists!LastPair'
      BY <1>0, <2>1, <2>2 DEF Lists!TypedIsKept, Lists!LastPair
    <2>7. Lists!InItsPlace'
      <3> SUFFICES ASSUME ~s10'.moved, NEW i \in Lists!SlotSet, s8'[i] # Lists!None
                   PROVE  i <= Len(Lists!Put(this)) /\ Lists!Put(this)[i] = s8'[i]
        BY <2>1 DEF Lists!InItsPlace, Lists!None
      <3>1. ~s10.moved /\ s1.readable /\ ~(s5 > Len(Lists!Existing) + 1)
        BY <2>1
      <3>2. Lists!Existing = s1.servers /\ Len(s1.servers) \in Nat /\ s5 \in Nat
        BY <1>0, <3>1 DEF Lists!Existing, Lists!SlotSet
      <3>3. s5 <= Len(Lists!Existing) + 1
        BY <3>1, <3>2
      <3>4. CASE i = s5
        BY <1>0, <2>1, <2>4, <3>3, <3>4
      <3>5. CASE i # s5
        <4>1. s8'[i] = s8[i]
          BY <1>0, <2>1, <3>5
        <4>2. i <= Len(s1.servers) /\ s1.servers[i] = s8[i]
          BY <1>0, <3>1, <4>1 DEF Lists!InItsPlace
        <4> QED
          BY <2>4, <3>2, <3>3, <3>5, <4>1, <4>2
      <3> QED
        BY <3>4, <3>5
    <2> QED
      BY <2>5, <2>6, <2>7 DEF Lists!ListsInvariant
  <1>4. CASE Lists!SaveFails
    <2>1. /\ s10' = [steps |-> s10.steps + 1, moved |-> s10.moved, unread |-> s10.unread, lost |-> s10.lost, of |-> s10.of]
          /\ s4' = Lists!Flushed /\ UNCHANGED <<s1, s2, s3, s5, s6, s7, s8, s9>>
      BY <1>4, <1>a DEF Lists!SaveFails, Lists!Step
    <2>2. /\ Lists!Flushed \in [Lists!SlotSet -> Lists!Servers]
          /\ \A i \in Lists!SlotSet :
                 /\ Lists!Flushed[i].key = s4[i].key
                 /\ Lists!Flushed[i].name = IF i = s5 THEN s6.name ELSE s4[i].name
      BY FlushedSlots DEF Lists!ListsInvariant
    <2>3. Lists!ListTypes'
      BY <1>0, <2>1, <2>2 DEF Lists!ListTypes
    <2>4. Lists!TypedIsKept' /\ Lists!InItsPlace' /\ Lists!LastPair'
      BY <1>0, <2>1, <2>2 DEF Lists!TypedIsKept, Lists!InItsPlace, Lists!LastPair
    <2> QED
      BY <2>3, <2>4 DEF Lists!ListsInvariant
  <1>5. ASSUME NEW i \in Lists!SlotSet, Lists!Selects(i)
        PROVE  Lists!ListsInvariant'
    <2>1. /\ s10' = [steps |-> s10.steps + 1, moved |-> s10.moved, unread |-> s10.unread, lost |-> s10.lost, of |-> s10.of]
          /\ s4' = Lists!Flushed /\ s5' = i /\ s5' # s5
          /\ s6' = [name |-> Lists!Flushed[i].name, options |-> s6.options]
          /\ UNCHANGED <<s1, s2, s3, s7, s8, s9>>
      BY <1>5, <1>a, <1>b DEF Lists!Selects, Lists!Kept, Lists!Step
    <2>2. /\ Lists!Flushed \in [Lists!SlotSet -> Lists!Servers]
          /\ \A j \in Lists!SlotSet :
                 /\ Lists!Flushed[j].key = s4[j].key
                 /\ Lists!Flushed[j].name = IF j = s5 THEN s6.name ELSE s4[j].name
      BY FlushedSlots DEF Lists!ListsInvariant
    <2>3. Lists!Flushed[i].name \in Typed \cup Lists!SlotSet
      BY <2>2 DEF Lists!Servers
    <2>4. Lists!ListTypes'
      BY <1>0, <2>1, <2>2, <2>3 DEF Lists!ListTypes
    <2>5. Lists!TypedIsKept' /\ Lists!InItsPlace' /\ Lists!LastPair'
      BY <1>0, <2>1, <2>2 DEF Lists!TypedIsKept, Lists!InItsPlace, Lists!LastPair
    <2> QED
      BY <2>4, <2>5 DEF Lists!ListsInvariant
  <1>6. ASSUME NEW written \in BOOLEAN, Lists!Generates(written)
        PROVE  Lists!ListsInvariant'
    <2>1. /\ s10' = [steps |-> s10.steps + 1, moved |-> s10.moved, unread |-> s10.unread, lost |-> ~written, of |-> s5]
          /\ s7 < MaxKeys /\ s7' = s7 + 1 /\ s3' = IF written THEN s7 + 1 ELSE s3
          /\ s4' = [Lists!Flushed EXCEPT ![s5].key = s7 + 1]
          /\ UNCHANGED <<s1, s2, s5, s6, s8, s9>>
      BY <1>6, <1>a DEF Lists!Generates, Lists!Step
    <2>2. /\ Lists!Flushed \in [Lists!SlotSet -> Lists!Servers]
          /\ \A i \in Lists!SlotSet :
                 Lists!Flushed[i].name = IF i = s5 THEN s6.name ELSE s4[i].name
      BY FlushedSlots DEF Lists!ListsInvariant
    <2>3. [Lists!Flushed[s5] EXCEPT !.key = s7 + 1] = [name |-> Lists!Flushed[s5].name, key |-> s7 + 1]
      BY <1>0, <2>2 DEF Lists!Servers
    <2>4. s4' = [Lists!Flushed EXCEPT ![s5] = [name |-> Lists!Flushed[s5].name, key |-> s7 + 1]]
      BY <2>1, <2>3
    <2>5. s7 + 1 \in 0 .. MaxKeys
      BY <1>0, <2>1
    <2>6. [name |-> Lists!Flushed[s5].name, key |-> s7 + 1] \in Lists!Servers
      BY <1>0, <2>2, <2>5 DEF Lists!Servers
    <2>7. s4' \in [Lists!SlotSet -> Lists!Servers] /\ s4'[s5].key = s7 + 1
          /\ \A i \in Lists!SlotSet : s4'[i].name = Lists!Flushed[i].name
      BY <1>0, <2>2, <2>4, <2>6
    <2>8. s5 \in 0 .. ListSlots /\ s3' \in Nat
      BY <1>0, <2>1 DEF Lists!SlotSet
    <2>9. Lists!ListTypes'
      BY <1>0, <2>1, <2>5, <2>7, <2>8 DEF Lists!ListTypes
    <2>10. Lists!TypedIsKept' /\ Lists!InItsPlace' /\ Lists!LastPair'
      BY <1>0, <2>1, <2>2, <2>7 DEF Lists!TypedIsKept, Lists!InItsPlace, Lists!LastPair
    <2> QED
      BY <2>9, <2>10 DEF Lists!ListsInvariant
  <1>7. CASE Lists!Loads
    <2> DEFINE of == IF \E i \in Lists!SlotSet : Lists!Loaded[i].key = s3
                     THEN CHOOSE i \in Lists!SlotSet : Lists!Loaded[i].key = s3 ELSE 0
               lost == s10.lost \/ (s3 # 0 /\ \A i \in Lists!SlotSet : Lists!Loaded[i].key # s3)
    <2>1. /\ s10' = [steps |-> s10.steps + 1, moved |-> FALSE, unread |-> s10.unread \/ ~s1.readable,
                     lost |-> lost, of |-> of]
          /\ s4' = Lists!Loaded /\ s5' = 1
          /\ s6' = [name |-> Lists!Loaded[1].name, options |-> Lists!LoadedOptions]
          /\ s8' = [i \in Lists!SlotSet |-> IF i <= Len(Lists!Existing) THEN Lists!Existing[i] ELSE Lists!None]
          /\ s9' = [i \in Lists!SlotSet |-> Lists!Loaded[i].name]
          /\ UNCHANGED <<s1, s2, s3, s7>>
      BY <1>7, <1>a DEF Lists!Loads, Lists!Step
    <2>2. Lists!Existing \in Seq(Lists!Servers)
      BY <1>0, LoadedSlots
    <2>3. Lists!Loaded \in [Lists!SlotSet -> Lists!Servers]
      BY <1>0, LoadedSlots
    <2>4. 1 \in Lists!SlotSet /\ Lists!None \in Lists!Servers
      BY <1>0 DEF Lists!SlotSet, Lists!None, Lists!Servers, Lists!ListsAssumption
    <2>5. \A i \in Lists!SlotSet : Lists!Loaded[i].name \in Typed \cup Lists!SlotSet
      BY <2>3 DEF Lists!Servers
    <2>6. s8' \in [Lists!SlotSet -> Lists!Servers]
      BY <2>1, <2>2, <2>4 DEF Lists!SlotSet
    <2>7. Lists!LoadedOptions \in {"default", "chosen"}
      BY DEF Lists!LoadedOptions
    <2>8. of \in 0 .. ListSlots /\ lost \in BOOLEAN
          /\ (s3 # 0 /\ ~lost => of \in Lists!SlotSet /\ Lists!Loaded[of].key = s3)
      <3>1. CASE \E i \in Lists!SlotSet : Lists!Loaded[i].key = s3
        <4>1. of = CHOOSE i \in Lists!SlotSet : Lists!Loaded[i].key = s3
          BY <3>1
        <4>2. of \in Lists!SlotSet /\ Lists!Loaded[of].key = s3
          <5> HIDE DEF of
          <5> QED
            BY <3>1, <4>1, Zenon
        <4>3. of \in 0 .. ListSlots
          <5> HIDE DEF of
          <5> QED
            BY <1>0, <4>2 DEF Lists!SlotSet
        <4>4. lost \in BOOLEAN
          OBVIOUS
        <4> HIDE DEF of
        <4> QED
          BY <4>2, <4>3, <4>4
      <3>2. CASE \A i \in Lists!SlotSet : Lists!Loaded[i].key # s3
        <4>1. of = 0 /\ (s3 # 0 => lost) /\ lost \in BOOLEAN /\ 0 \in 0 .. ListSlots
          BY <1>0, <3>2
        <4> HIDE DEF of
        <4> QED
          BY <4>1
      <3> QED
        BY <3>1, <3>2
    <2> HIDE DEF of, lost
    <2>9. s10' \in [steps : Nat, moved : BOOLEAN, unread : BOOLEAN, lost : BOOLEAN, of : 0 .. ListSlots]
      BY <1>0, <2>1, <2>8
    <2>10. Lists!ListTypes'
      BY <1>0, <2>1, <2>3, <2>4, <2>5, <2>6, <2>7, <2>9 DEF Lists!ListTypes
    <2>11. Lists!TypedIsKept' /\ Lists!LastPair'
      BY <2>1, <2>4, <2>8 DEF Lists!TypedIsKept, Lists!LastPair
    <2>12. Lists!InItsPlace'
      BY <2>1 DEF Lists!InItsPlace, Lists!Existing, Lists!None
    <2> QED
      BY <2>10, <2>11, <2>12 DEF Lists!ListsInvariant
  <1>8. CASE Lists!Garbles
    <2>1. /\ s10' = [steps |-> s10.steps + 1, moved |-> s10.moved, unread |-> s10.unread, lost |-> s10.lost, of |-> s10.of]
          /\ s1' = s1 \/ s1' = [readable |-> FALSE, servers |-> s1.servers]
          /\ UNCHANGED <<s3, s4, s5, s6, s7, s8, s9>>
      BY <1>0, <1>8, <1>a DEF Lists!Garbles, Lists!Step
    <2>2. s1' \in [readable : BOOLEAN, servers : Seq(Lists!Servers)] /\ (s1'.readable => s1' = s1)
      <3>1. s1.servers \in Seq(Lists!Servers)
        BY <1>0
      <3>2. CASE s1' = s1
        BY <1>0, <3>2
      <3>3. CASE s1' = [readable |-> FALSE, servers |-> s1.servers]
        BY <3>1, <3>3
      <3> QED
        BY <2>1, <3>2, <3>3
    <2>3. Lists!ListTypes'
      BY <1>0, <2>1, <2>2 DEF Lists!ListTypes
    <2>4. Lists!TypedIsKept' /\ Lists!InItsPlace' /\ Lists!LastPair'
      BY <1>0, <2>1, <2>2 DEF Lists!TypedIsKept, Lists!InItsPlace, Lists!LastPair, Lists!None
    <2> QED
      BY <2>3, <2>4 DEF Lists!ListsInvariant
  <1>9. CASE Lists!CutOff
    <2> DEFINE written == Lists!Put(Lists!Flushed[s5])
    <2>1. /\ s10' = [steps |-> s10.steps + 1, moved |-> TRUE, unread |-> TRUE, lost |-> s10.lost, of |-> s10.of]
          /\ s4' = Lists!Flushed
          /\ \/ \E n \in 0 .. Len(written) - 1 : s1' = [readable |-> TRUE, servers |-> SubSeq(written, 1, n)]
             \/ s1' = [readable |-> FALSE, servers |-> s1.servers]
          /\ UNCHANGED <<s2, s3, s5, s6, s7, s8, s9>>
      BY <1>0, <1>9, <1>a DEF Lists!CutOff, Lists!Step
    <2>2. /\ Lists!Flushed \in [Lists!SlotSet -> Lists!Servers]
          /\ \A i \in Lists!SlotSet :
                 /\ Lists!Flushed[i].key = s4[i].key
                 /\ Lists!Flushed[i].name = IF i = s5 THEN s6.name ELSE s4[i].name
      BY FlushedSlots DEF Lists!ListsInvariant
    <2>3. written \in Seq(Lists!Servers)
      BY <1>0, <2>2, PutInPlace DEF Lists!ListsInvariant
    <2> HIDE DEF written
    <2>4. s1' \in [readable : BOOLEAN, servers : Seq(Lists!Servers)]
      <3>1. CASE s1' = [readable |-> FALSE, servers |-> s1.servers]
        BY <1>0, <3>1
      <3>2. ASSUME NEW n \in 0 .. Len(written) - 1, s1' = [readable |-> TRUE, servers |-> SubSeq(written, 1, n)]
            PROVE  s1' \in [readable : BOOLEAN, servers : Seq(Lists!Servers)]
        <4>1. n \in Nat /\ n <= Len(written) /\ Len(written) \in Nat
          BY <2>3
        <4>2. SubSeq(written, 1, n) \in Seq(Lists!Servers)
          BY <2>3, <4>1
        <4> QED
          BY <3>2, <4>2
      <3> QED
        BY <2>1, <3>1, <3>2
    <2>5. Lists!ListTypes'
      BY <1>0, <2>1, <2>2, <2>4 DEF Lists!ListTypes
    <2>6. Lists!TypedIsKept' /\ Lists!InItsPlace' /\ Lists!LastPair'
      BY <1>0, <2>1, <2>2 DEF Lists!TypedIsKept, Lists!InItsPlace, Lists!LastPair
    <2> QED
      BY <2>5, <2>6 DEF Lists!ListsInvariant
  <1>10. CASE UNCHANGED Lists!vars
    BY <1>0, <1>10
    DEF Lists!vars, Lists!ListsInvariant, Lists!ListTypes, Lists!TypedIsKept, Lists!InItsPlace, Lists!LastPair
  <1> QED
    BY <1>1, <1>2, <1>3, <1>4, <1>5, <1>6, <1>7, <1>8, <1>9, <1>10
    DEF Lists!Next, Lists!User, Lists!SavesBoth, Lists!SavesList

\* What was encoded stays in the list, and the server's key is in it.
LEMMA ListsHold ==
    ASSUME Lists!ListsAssumption, Lists!ListsInvariant
    PROVE  Lists!KeptWithoutGaps /\ Lists!ServerKeyReachesList
  <1>0. /\ s1.servers \in Seq(Lists!Servers) /\ s8 \in [Lists!SlotSet -> Lists!Servers]
        /\ Lists!InItsPlace /\ Lists!LastPair /\ Lists!SlotSet \subseteq Nat \ {0}
    BY DEF Lists!ListsInvariant, Lists!ListTypes, Lists!SlotSet
  <1>1. ASSUME ~s10.moved, s1.readable, NEW i \in Lists!SlotSet, s8[i] # Lists!None
        PROVE  i \in 1 .. Len(s1.servers) /\ s1.servers[i] = s8[i]
    BY <1>0, <1>1 DEF Lists!InItsPlace
  <1>2. Lists!KeptWithoutGaps
    <2> SUFFICES ASSUME ~s10.moved, s1.readable, NEW i \in Lists!SlotSet, s8[i] # Lists!None
                 PROVE  s8[i] \in Lists!ToSet(s1.servers)
      BY DEF Lists!KeptWithoutGaps, Lists!OthersAreKept
    <2>1. i \in DOMAIN s1.servers /\ s1.servers[i] = s8[i]
      BY <1>0, <1>1
    <2> QED
      BY <2>1 DEF Lists!ToSet
  <1>3. ASSUME s3 # 0, ~s10.lost, ~s10.moved, s1.readable, s8[s10.of].key = s3
        PROVE  \E i \in 1 .. Len(s1.servers) : s1.servers[i].key = s3
    <2>1. s10.of \in Lists!SlotSet /\ s8[s10.of] # Lists!None
      BY <1>0, <1>3 DEF Lists!LastPair, Lists!None
    <2> QED
      BY <1>1, <1>3, <2>1
  <1> QED
    BY <1>0, <1>2, <1>3 DEF Lists!ServerKeyReachesList, Lists!LastPair

-----------------------------------------------------------------------------
(***************************************************************************)
(* HuntDispatch: s1 to s9 are now, cfg, seq, gates, ranges, memory, streak,    *)
(* sent and turns.                                                         *)
(***************************************************************************)

\* A sequence has steps, and each a time to wait.
LEMMA StepsAreThere ==
    ASSUME Dispatch!DispatchAssumption, NEW c \in Dispatch!Config
    PROVE  /\ Len(Dispatch!Steps(c)) \in Nat \ {0}
           /\ \A i \in 1 .. Len(Dispatch!Steps(c)) : Dispatch!Steps(c)[i].wait \in Nat
  <1>1. c.steps \in Seq(Dispatch!Step) /\ MaxSteps \in Nat \ {0}
    BY DEF Dispatch!Config, Dispatch!DispatchAssumption
  <1>2. \A s \in Dispatch!Step : s.wait \in Nat
    BY DEF Dispatch!Step
  <1>3. CASE c.steps # <<>>
    <2> DEFINE n == IF Len(c.steps) > MaxSteps THEN MaxSteps ELSE Len(c.steps)
    <2>1. n \in 1 .. Len(c.steps)
      BY <1>1, <1>3
    <2>2. Dispatch!Steps(c) = SubSeq(c.steps, 1, n)
      BY <1>3 DEF Dispatch!Steps
    <2> HIDE DEF n
    <2>3. /\ Len(SubSeq(c.steps, 1, n)) = n
          /\ \A i \in 1 .. n : SubSeq(c.steps, 1, n)[i] = c.steps[i] /\ c.steps[i] \in Dispatch!Step
      BY <1>1, <2>1
    <2> QED
      BY <1>2, <2>1, <2>2, <2>3
  <1>4. CASE c.steps = <<>>
    BY <1>4 DEF Dispatch!Steps
  <1> QED
    BY <1>3, <1>4

LEMMA DispatchBegins == ASSUME Dispatch!DispatchAssumption, Dispatch!Init PROVE Dispatch!DispatchInvariant
  <1>1. /\ s1 = 0 /\ s2 \in Dispatch!Config
        /\ s3 = [index |-> 1, started |-> -1, ready |-> -1]
        /\ s8.intent = s8.backend
        /\ s9 = [count |-> 0, until |-> 0, origin |-> -1, rounds |-> 0]
    BY DEF Dispatch!Init, Dispatch!Never, Dispatch!NoTurn, Dispatch!DispatchAssumption
  <1>2. Len(Dispatch!Steps(s2)) \in Nat \ {0}
    BY <1>1, StepsAreThere
  <1> QED
    BY <1>1, <1>2
    DEF Dispatch!DispatchInvariant, Dispatch!DispatchTypes, Dispatch!InTurn, Dispatch!InRound,
        Dispatch!SentIsDecided, Dispatch!Never

\* The turn that a tick finds: if it had to begin anew it begins now.
LEMMA CurrentTurn ==
    ASSUME Dispatch!DispatchAssumption, Dispatch!DispatchInvariant
    PROVE  LET s == Dispatch!Current(s3) IN
           /\ s \in [index : Nat \ {0}, started : Nat, ready : Nat \cup {Dispatch!Never}]
           /\ s.index \in 1 .. Len(Dispatch!Steps(s2))
           /\ s3.index =< Len(Dispatch!Steps(s2)) => s.index = s3.index /\ s.ready = s3.ready
           /\ s.started = s3.started \/ s.started = s1
           /\ s3.started # Dispatch!Never /\ s3.index =< Len(Dispatch!Steps(s2)) => s = s3
           /\ s9.origin # Dispatch!Never => s.started >= s9.origin + s9.rounds * s2.cycle
           /\ s.index = 1 => s.ready >= s.started \/ s.started =< s1
           /\ s.index > 1 => s.started =< s1
  <1> DEFINE s == Dispatch!Current(s3)
             n == Len(Dispatch!Steps(s2))
  <1>1. /\ s1 \in Nat /\ s3 \in [index : Nat \ {0}, started : Nat \cup {-1}, ready : Nat \cup {-1}]
        /\ s2 \in Dispatch!Config /\ Dispatch!Never = -1 /\ s2.cycle \in Nat
        /\ s9 \in [count : Nat, until : Nat, origin : Nat \cup {-1}, rounds : Nat]
    BY DEF Dispatch!DispatchInvariant, Dispatch!DispatchTypes, Dispatch!Never, Dispatch!Config
  <1>2. n \in Nat \ {0}
    BY <1>1, StepsAreThere
  <1>3. /\ s9.origin # -1 => s3.started >= s9.origin + s9.rounds * s2.cycle
        /\ s3.started = -1 => s9.origin = -1
        /\ s3.index = 1 => s3.ready >= s3.started \/ s3.started =< s1
        /\ s3.index > 1 => s3.started =< s1
        /\ s3.index > n => s9.rounds = 0 /\ s9.origin =< s1
    BY DEF Dispatch!DispatchInvariant, Dispatch!InRound, Dispatch!Never
  <1>4. s = IF s3.index > n THEN [index |-> 1, started |-> s1, ready |-> -1]
            ELSE IF s3.started = -1 THEN [s3 EXCEPT !.started = s1] ELSE s3
    BY <1>1 DEF Dispatch!Current
  <1> HIDE DEF s, n
  <1>5. CASE s3.index > n
    <2>1. s = [index |-> 1, started |-> s1, ready |-> -1]
      BY <1>4, <1>5
    <2>2. s9.rounds * s2.cycle = 0
      BY <1>1, <1>3, <1>5
    <2> QED
      BY <1>1, <1>2, <1>3, <1>5, <2>1, <2>2 DEF s, n
  <1>6. CASE ~(s3.index > n) /\ s3.started = -1
    <2>1. s = [index |-> s3.index, started |-> s1, ready |-> s3.ready]
      BY <1>1, <1>4, <1>6
    <2> QED
      BY <1>1, <1>2, <1>3, <1>6, <2>1 DEF s, n
  <1>7. CASE ~(s3.index > n) /\ s3.started # -1
    <2>1. s = s3
      BY <1>4, <1>7
    <2> QED
      BY <1>1, <1>2, <1>3, <1>7, <2>1 DEF s, n
  <1> QED
    BY <1>5, <1>6, <1>7

\* Of a turn that is used the next begins after its time, and the next round after as
\* many cycles as there were rounds.
LEMMA AdvancedTurn ==
    ASSUME Dispatch!DispatchAssumption, s2 \in Dispatch!Config, s1 \in Nat,
           NEW s \in [index : Nat \ {0}, started : Nat, ready : Nat \cup {Dispatch!Never}],
           s.index \in 1 .. Len(Dispatch!Steps(s2)), s.started =< s1,
           NEW origin \in Nat, NEW rounds \in Nat, s.started >= origin + rounds * s2.cycle
    PROVE  LET next == Dispatch!Advanced(s)
               wait == Dispatch!Steps(s2)[s.index].wait
               n == Len(Dispatch!Steps(s2))
           IN  /\ wait \in Nat
               /\ next \in [index : Nat \ {0}, started : Nat, ready : Nat]
               /\ next.index =< n /\ next.ready >= s1 + wait
               /\ next.index = 1 => next.ready >= next.started
               /\ next.index > 1 => next.started =< s1
               /\ next.started >= origin + (IF s.index = n THEN rounds + 1 ELSE rounds) * s2.cycle
  <1> DEFINE next == Dispatch!Advanced(s)
             wait == Dispatch!Steps(s2)[s.index].wait
             n == Len(Dispatch!Steps(s2))
             round == IF s2.cycle = 0 THEN s1 ELSE s.started + s2.cycle
  <1>1. s2.cycle \in Nat /\ n \in Nat \ {0} /\ wait \in Nat /\ s.index \in 1 .. n
    BY StepsAreThere DEF Dispatch!Config
  <1>2. round \in Nat /\ round >= s.started + s2.cycle
    BY <1>1
  <1>3. CASE s.index = n
    <2> DEFINE ready == Dispatch!Larger(s1 + wait, round)
    <2>2. next = [index |-> 1, started |-> ready, ready |-> ready]
      BY <1>3 DEF Dispatch!Advanced
    <2> HIDE DEF next, wait, n, round
    <2>1. ready \in Nat /\ ready >= s1 + wait /\ ready >= round
      BY <1>1, <1>2 DEF Dispatch!Larger
    <2> HIDE DEF ready
    <2> DEFINE through == rounds * s2.cycle
    <2>3. (rounds + 1) * s2.cycle = through + s2.cycle /\ through \in Nat /\ s.started >= origin + through
      <3>1. \A a, c \in Nat : (a + 1) * c = a * c + c /\ a * c \in Nat
        OBVIOUS
      <3> QED
        BY <1>1, <3>1
    <2> HIDE DEF through
    <2>5. ready >= s.started + s2.cycle /\ s.started \in Nat
      BY <1>1, <1>2, <2>1
    <2>6. ready >= origin + (through + s2.cycle)
      <3>1. \A r, b, c, d, e \in Int : r >= b + c /\ b >= e + d => r >= e + (d + c)
        OBVIOUS
      <3>2. ready \in Int /\ s.started \in Int /\ s2.cycle \in Int /\ origin \in Int /\ through \in Int
        BY <1>1, <2>1, <2>3, <2>5
      <3>3. ready >= s.started + s2.cycle /\ s.started >= origin + through
        BY <2>3, <2>5
      <3> QED
        BY <3>1, <3>2, <3>3
    <2>4. ready >= origin + (rounds + 1) * s2.cycle
      BY <2>3, <2>6
    <2> QED
      BY <1>1, <1>3, <2>1, <2>2, <2>4 DEF next, wait, n
  <1>4. CASE s.index # n
    <2>1. next = [index |-> s.index + 1, started |-> s.started, ready |-> s1 + wait]
      BY <1>4 DEF Dispatch!Advanced
    <2> HIDE DEF next, wait, n, round
    <2> QED
      BY <1>1, <1>4, <2>1 DEF next, wait, n
  <1> QED
    BY <1>3, <1>4

\* The turns are spaced and the rounds keep pace, whatever the settings become; and
\* what is sent is what was decided.
LEMMA DispatchKeeps ==
    ASSUME Dispatch!DispatchAssumption, Dispatch!DispatchInvariant, [Dispatch!Next]_(Dispatch!vars)
    PROVE  Dispatch!DispatchInvariant' /\ Dispatch!StepsSpaced /\ Dispatch!RoundsKeepPace
  <1>0. /\ s1 \in Nat /\ s2 \in Dispatch!Config
        /\ s3 \in [index : Nat \ {0}, started : Nat \cup {-1}, ready : Nat \cup {-1}]
        /\ s9 \in [count : Nat, until : Nat, origin : Nat \cup {-1}, rounds : Nat]
        /\ s2.cycle \in Nat /\ Dispatch!Never = -1 /\ s8.intent = s8.backend
    BY DEF Dispatch!DispatchInvariant, Dispatch!DispatchTypes, Dispatch!Never, Dispatch!Config, Dispatch!SentIsDecided
  <1>a. Len(Dispatch!Steps(s2)) \in Nat \ {0}
    BY <1>0, StepsAreThere
  <1>b. /\ s9.until > 0 => s9.until =< s3.ready
        /\ s9.origin # -1 => s3.started >= s9.origin + s9.rounds * s2.cycle
        /\ s9.origin = -1 => s9.rounds = 0
        /\ s3.started = -1 => s9.origin = -1
        /\ s3.index = 1 => s3.ready >= s3.started \/ s3.started =< s1
        /\ s3.index > 1 => s3.started =< s1
        /\ s3.index > Len(Dispatch!Steps(s2)) => s9.rounds = 0 /\ s9.origin =< s1
    BY DEF Dispatch!DispatchInvariant, Dispatch!InTurn, Dispatch!InRound, Dispatch!Never
  <1>1. CASE Dispatch!Passes
    <2>1. s1' = s1 + 1 /\ UNCHANGED <<s2, s3, s8, s9>>
      BY <1>1 DEF Dispatch!Passes
    <2>2. Dispatch!DispatchTypes' /\ Dispatch!InTurn' /\ Dispatch!SentIsDecided'
      BY <1>0, <1>b, <2>1 DEF Dispatch!DispatchTypes, Dispatch!InTurn, Dispatch!SentIsDecided, Dispatch!Never
    <2>4. Dispatch!Steps(s2)' = Dispatch!Steps(s2)
      BY <2>1 DEF Dispatch!Steps
    <2>3. Dispatch!InRound'
      BY <1>0, <1>a, <1>b, <2>1, <2>4 DEF Dispatch!InRound
    <2> QED
      BY <2>1, <2>2, <2>3 DEF Dispatch!DispatchInvariant, Dispatch!StepsSpaced, Dispatch!RoundsKeepPace
  <1>2. ASSUME NEW c \in Configs, Dispatch!Configure(c)
        PROVE  Dispatch!DispatchInvariant' /\ Dispatch!StepsSpaced /\ Dispatch!RoundsKeepPace
    <2>1. /\ s2' = c /\ UNCHANGED <<s1, s3, s8>>
          /\ s9' = [count |-> s9.count, until |-> s9.until, origin |-> s3.started, rounds |-> 0]
      BY <1>0, <1>2 DEF Dispatch!Configure
    <2>2. c \in Dispatch!Config /\ c.cycle \in Nat
      BY DEF Dispatch!DispatchAssumption, Dispatch!Config
    <2>3. Len(Dispatch!Steps(c)) \in Nat \ {0}
      BY <2>2, StepsAreThere
    <2>4. Dispatch!DispatchTypes' /\ Dispatch!InTurn' /\ Dispatch!SentIsDecided'
      BY <1>0, <1>b, <2>1, <2>2 DEF Dispatch!DispatchTypes, Dispatch!InTurn, Dispatch!SentIsDecided, Dispatch!Never
    <2>5. Dispatch!Steps(s2)' = Dispatch!Steps(c)
      BY <2>1 DEF Dispatch!Steps
    <2>6. 0 * c.cycle = 0
      BY <2>2
    <2>7. Dispatch!InRound'
      BY <1>0, <1>b, <2>1, <2>2, <2>3, <2>5, <2>6 DEF Dispatch!InRound
    <2> QED
      BY <2>1, <2>4, <2>7 DEF Dispatch!DispatchInvariant, Dispatch!StepsSpaced, Dispatch!RoundsKeepPace
  <1>3. ASSUME NEW v \in Views, Dispatch!Tick(v)
        PROVE  Dispatch!DispatchInvariant' /\ Dispatch!StepsSpaced /\ Dispatch!RoundsKeepPace
    <2> DEFINE s == Dispatch!Current(s3)
               n == Len(Dispatch!Steps(s2))
               wait == Dispatch!Steps(s2)[s.index].wait
    <2>1. PICK readable \in BOOLEAN :
            LET backend == Dispatch!Backend(v, s, readable)
                shadow == Dispatch!Shadow(v, s, readable)
                aligned == Dispatch!Aligned(Dispatch!Decision(v, s, readable), backend)
                run == IF ~aligned THEN 0 ELSE IF s7 < MinStreak THEN s7 + 1 ELSE s7
                intent == IF Dispatch!TakenOver(backend, shadow, aligned, run) THEN shadow ELSE backend
                used == Dispatch!Advances(intent, s)
            IN /\ s3' = IF used THEN Dispatch!Advanced(s) ELSE s
               /\ s8' = [intent |-> intent, backend |-> backend]
               /\ s9' = IF ~used THEN [s9 EXCEPT !.origin = IF @ = Dispatch!Never THEN s.started ELSE @,
                                                 !.until = IF s3.index > Len(Dispatch!Steps(s2)) THEN 0 ELSE @]
                        ELSE [count |-> (s9.count + 1) % 2, until |-> s1 + wait,
                              origin |-> IF s9.origin = Dispatch!Never THEN s.started ELSE s9.origin,
                              rounds |-> IF s.index = n THEN s9.rounds + 1 ELSE s9.rounds]
      BY <1>3 DEF Dispatch!Tick
    <2>2. s1' = s1 /\ s2' = s2 /\ Dispatch!Steps(s2)' = Dispatch!Steps(s2)
      BY <1>3 DEF Dispatch!Tick, Dispatch!Steps
    <2> DEFINE backend == Dispatch!Backend(v, s, readable)
               shadow == Dispatch!Shadow(v, s, readable)
               aligned == Dispatch!Aligned(Dispatch!Decision(v, s, readable), backend)
               run == IF ~aligned THEN 0 ELSE IF s7 < MinStreak THEN s7 + 1 ELSE s7
               intent == IF Dispatch!TakenOver(backend, shadow, aligned, run) THEN shadow ELSE backend
               used == Dispatch!Advances(intent, s)
               origin == IF s9.origin = -1 THEN s.started ELSE s9.origin
    <2>3. intent = backend
      BY DEF Dispatch!TakenOver
    <2>4. s8' = [intent |-> intent, backend |-> backend]
      BY <2>1
    <2>5. Dispatch!SentIsDecided'
      BY <2>3, <2>4 DEF Dispatch!SentIsDecided
    <2>6. used => Dispatch!IsDue(s)
      BY DEF Dispatch!Advances
    <2>7. s3' = IF used THEN Dispatch!Advanced(s) ELSE s
      BY <2>1
    <2>8. s9' = IF ~used THEN [s9 EXCEPT !.origin = origin, !.until = IF s3.index > n THEN 0 ELSE @]
                ELSE [count |-> (s9.count + 1) % 2, until |-> s1 + wait, origin |-> origin,
                      rounds |-> IF s.index = n THEN s9.rounds + 1 ELSE s9.rounds]
      BY <1>0, <2>1
    <2> HIDE DEF intent, backend, shadow, aligned, run, used
    <2>9. /\ s \in [index : Nat \ {0}, started : Nat, ready : Nat \cup {-1}]
          /\ s.index \in 1 .. n
          /\ s3.index =< n => s.index = s3.index /\ s.ready = s3.ready
          /\ s3.started # -1 /\ s3.index =< n => s = s3
          /\ s9.origin # -1 => s.started >= s9.origin + s9.rounds * s2.cycle
          /\ s.index = 1 => s.ready >= s.started \/ s.started =< s1
          /\ s.index > 1 => s.started =< s1
      BY <1>0, CurrentTurn
    <2> HIDE DEF s, n
    <2>10. /\ origin \in Nat /\ s9.rounds \in Nat /\ s.started >= origin + s9.rounds * s2.cycle
      <3>1. CASE s9.origin = -1
        <4>1. s9.rounds = 0 /\ 0 * s2.cycle = 0
          BY <1>0, <1>b, <3>1
        <4> QED
          BY <2>9, <3>1, <4>1
      <3>2. CASE s9.origin # -1
        BY <1>0, <2>9, <3>2
      <3> QED
        BY <3>1, <3>2
    <2> HIDE DEF origin, wait
    <2>11. CASE ~used
      <3>1. /\ s3' = s
            /\ s9' = [s9 EXCEPT !.origin = origin, !.until = IF s3.index > n THEN 0 ELSE @]
        BY <2>7, <2>8, <2>11
      <3>2. s9' = [count |-> s9.count, until |-> IF s3.index > n THEN 0 ELSE s9.until, origin |-> origin,
                   rounds |-> s9.rounds]
        BY <1>0, <3>1
      <3>3. (IF s3.index > n THEN 0 ELSE s9.until) \in Nat /\ n \in Nat
        BY <1>0, <1>a DEF n
      <3>4. Dispatch!DispatchTypes'
        BY <1>0, <2>2, <2>9, <2>10, <3>1, <3>2, <3>3 DEF Dispatch!DispatchTypes, Dispatch!Never
      <3>5. Dispatch!InTurn'
        BY <1>0, <1>b, <2>9, <3>1, <3>2, <3>3 DEF Dispatch!InTurn
      <3>6. Dispatch!InRound'
        BY <1>0, <2>2, <2>9, <2>10, <3>1, <3>2, <3>3 DEF Dispatch!InRound, n
      <3> QED
        BY <2>5, <3>2, <3>4, <3>5, <3>6
        DEF Dispatch!DispatchInvariant, Dispatch!StepsSpaced, Dispatch!RoundsKeepPace
    <2>12. CASE used
      <3>1. s1 >= s.ready
        BY <2>6, <2>12 DEF Dispatch!IsDue
      <3>2. s.started =< s1
        BY <1>0, <2>9, <3>1
      <3> DEFINE next == Dispatch!Advanced(s)
                 rounds == IF s.index = n THEN s9.rounds + 1 ELSE s9.rounds
      <3>3. /\ wait \in Nat
            /\ next \in [index : Nat \ {0}, started : Nat, ready : Nat]
            /\ next.index =< n /\ next.ready >= s1 + wait
            /\ next.index = 1 => next.ready >= next.started
            /\ next.index > 1 => next.started =< s1
            /\ next.started >= origin + rounds * s2.cycle
        BY <1>0, <2>9, <2>10, <3>2, AdvancedTurn DEF n, wait
      <3>4. s3' = next /\ s9' = [count |-> (s9.count + 1) % 2, until |-> s1 + wait, origin |-> origin, rounds |-> rounds]
        BY <2>7, <2>8, <2>12
      <3>5. rounds \in Nat /\ n \in Nat /\ (s9.count + 1) % 2 \in Nat
        BY <1>0, <1>a DEF n
      <3> HIDE DEF next, rounds
      <3>6. Dispatch!DispatchTypes'
        BY <1>0, <2>2, <2>10, <3>3, <3>4, <3>5 DEF Dispatch!DispatchTypes, Dispatch!Never
      <3>7. Dispatch!InTurn'
        BY <3>3, <3>4 DEF Dispatch!InTurn
      <3>8. Dispatch!InRound'
        <4>1. /\ s3'.index = next.index /\ s3'.started = next.started /\ s3'.ready = next.ready
              /\ s9'.origin = origin /\ s9'.rounds = rounds /\ s1' = s1 /\ s2' = s2
          BY <2>2, <3>4
        <4>2. Len(Dispatch!Steps(s2))' = n
          BY <2>2 DEF n
        <4>3. s3'.started >= s9'.origin + s9'.rounds * s2'.cycle
          BY <3>3, <4>1
        <4>4. /\ s9'.origin \in Nat /\ s3'.started \in Nat /\ s3'.ready \in Nat /\ ~(s3'.index > n)
              /\ s3'.index = 1 => s3'.ready >= s3'.started
              /\ s3'.index > 1 => s3'.started =< s1'
          BY <2>10, <3>3, <3>5, <4>1
        <4> QED
          BY <4>2, <4>3, <4>4 DEF Dispatch!InRound, Dispatch!Never
      <3>9. Dispatch!StepsSpaced
        BY <1>0, <1>b, <2>9, <3>1 DEF Dispatch!StepsSpaced, n
      <3>10. Dispatch!RoundsKeepPace
        <4> SUFFICES ASSUME s3.index = 1, s9.origin # -1
                     PROVE  s1 >= s9.origin + s9.rounds * s2.cycle
          BY <1>0 DEF Dispatch!RoundsKeepPace
        <4>1. s9.rounds * s2.cycle \in Nat
          BY <1>0
        <4> QED
          BY <1>0, <2>9, <3>2, <4>1
      <3> QED
        BY <2>5, <3>6, <3>7, <3>8, <3>9, <3>10 DEF Dispatch!DispatchInvariant
    <2> QED
      BY <2>11, <2>12
  <1>4. CASE UNCHANGED Dispatch!vars
    <2>1. UNCHANGED <<s1, s2, s3, s8, s9>>
      BY <1>4 DEF Dispatch!vars
    <2> QED
      BY <2>1
      DEF Dispatch!DispatchInvariant, Dispatch!DispatchTypes, Dispatch!InTurn, Dispatch!InRound,
          Dispatch!SentIsDecided, Dispatch!StepsSpaced, Dispatch!RoundsKeepPace, Dispatch!Steps
  <1> QED
    BY <1>1, <1>2, <1>3, <1>4 DEF Dispatch!Next
=============================================================================
