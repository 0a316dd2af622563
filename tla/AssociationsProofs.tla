------------------------ MODULE AssociationsProofs ------------------------
(***************************************************************************)
(* What the associations do to the trains, for any trains, calendars and   *)
(* associations: no cut loses or repeats a day of a train, no id is handed *)
(* out twice, no schedule is coupled twice, and the trips a link joins run *)
(* together on the days the association couples them.                      *)
(*                                                                         *)
(* What a link promises is fixed when it is made, about two records that   *)
(* later associations may cut: it lasts because a record with an id is     *)
(* never another record (Apart, BelowNext), and because the coupled ones   *)
(* are out of the index until nothing is left to apply (LinksHold).        *)
(***************************************************************************)
EXTENDS Associations, SequenceTheorems, FiniteSetTheorems, WellFoundedInduction, TLAPS

-----------------------------------------------------------------------------
(***************************************************************************)
(* What the calendar operations do to the days a calendar runs, for every  *)
(* calendar.                                                               *)
(***************************************************************************)

(***************************************************************************)
(* RunDays is the set RunsOn describes, and isEmpty says that it is empty. *)
(***************************************************************************)
LEMMA RunDaysMembership ==
  ASSUME NEW c \in Calendar, NEW date
  PROVE  date \in RunDays(c) <=> date \in Int /\ RunsOn(c, date)
BY DEF RunDays, RunsOn, Calendar

LEMMA IsEmptyMeansNoDays ==
  ASSUME NEW c \in Calendar
  PROVE  IsEmpty(c) <=> RunDays(c) = {}
BY DEF IsEmpty, RunDays

(***************************************************************************)
(* sharedDays yields exactly the days both calendars run, so the overlap   *)
(* test, mask comparison included, asks whether there is such a day.       *)
(***************************************************************************)
THEOREM SharedDaysAreCommonDays ==
  ASSUME NEW c \in Calendar, NEW other \in Calendar
  PROVE  SharedDays(c, other) = RunDays(c) \cap RunDays(other)
BY DEF SharedDays, RunDays, RunsOn, Calendar, Later, Earlier

THEOREM OverlapsMeansCommonDay ==
  ASSUME NEW c \in Calendar, NEW other \in Calendar
  PROVE  Overlaps(c, other) <=> RunDays(c) \cap RunDays(other) # {}
<1>1. RunDays(c) \cap RunDays(other) # {} => c.days \cap other.days # {}
  BY DEF RunDays, RunsOn
<1> QED
  BY <1>1, SharedDaysAreCommonDays DEF Overlaps

(***************************************************************************)
(* Every operation makes a calendar of calendars.                          *)
(***************************************************************************)
LEMMA OperationsMakeCalendars ==
  ASSUME NEW c \in Calendar, NEW other \in Calendar
  PROVE  /\ Intersect(c, other) \in Calendar
         /\ WithoutDaysOf(c, other) \in Calendar
         /\ ShiftForward(c) \in Calendar
         /\ ShiftBackward(c) \in Calendar
<1>1. SharedDays(c, other) \subseteq Int
  BY DEF SharedDays
<1>2. Intersect(c, other) \in Calendar
  BY DEF Intersect, Clone, Calendar, Later, Earlier
<1>3. WithoutDaysOf(c, other) \in Calendar
  BY <1>1 DEF WithoutDaysOf, Clone, Calendar
<1>4. ShiftForward(c) \in Calendar /\ ShiftBackward(c) \in Calendar
  BY DEF ShiftForward, ShiftBackward, Shifted, Calendar, DaysOfWeek
<1> QED
  BY <1>2, <1>3, <1>4

(***************************************************************************)
(* intersect runs on the days both run, and addExcludeDays takes away the  *)
(* days of the overlay and nothing else: the exclusions clone forgets lie  *)
(* outside the range, where the calendar does not run.                     *)
(***************************************************************************)
THEOREM IntersectRunsCommonDays ==
  ASSUME NEW c \in Calendar, NEW other \in Calendar
  PROVE  RunDays(Intersect(c, other)) = RunDays(c) \cap RunDays(other)
BY DEF Intersect, Clone, RunDays, RunsOn, Calendar, Later, Earlier,
       DaysOfWeek, DayOfWeek

THEOREM WithoutDaysRunsTheRest ==
  ASSUME NEW c \in Calendar, NEW other \in Calendar
  PROVE  RunDays(WithoutDaysOf(c, other)) = RunDays(c) \ RunDays(other)
<1>1. ASSUME NEW date \in Int
      PROVE  RunsOn(WithoutDaysOf(c, other), date)
               <=> RunsOn(c, date) /\ date \notin SharedDays(c, other)
  BY DEF WithoutDaysOf, Clone, RunsOn, Calendar
<1> QED
  BY <1>1, SharedDaysAreCommonDays, RunDaysMembership, OperationsMakeCalendars

(***************************************************************************)
(* A shifted calendar runs the day after (before) every day the original   *)
(* runs: the mask and the exclusions turn with the range.                  *)
(***************************************************************************)
THEOREM ShiftForwardMovesDays ==
  ASSUME NEW c \in Calendar, NEW date \in Int
  PROVE  date \in RunDays(ShiftForward(c)) <=> date - 1 \in RunDays(c)
BY DEF ShiftForward, Shifted, RunDays, RunsOn, Calendar, DaysOfWeek, DayOfWeek

THEOREM ShiftBackwardMovesDays ==
  ASSUME NEW c \in Calendar, NEW date \in Int
  PROVE  date \in RunDays(ShiftBackward(c)) <=> date + 1 \in RunDays(c)
BY DEF ShiftBackward, Shifted, RunDays, RunsOn, Calendar, DaysOfWeek, DayOfWeek

THEOREM ShiftsAreInverse ==
  ASSUME NEW c \in Calendar
  PROVE  /\ ShiftBackward(ShiftForward(c)) = c
         /\ ShiftForward(ShiftBackward(c)) = c
<1>1. ASSUME NEW n \in {-1, 1}
      PROVE  Shifted(Shifted(c, n), -n) = c
  <2> DEFINE there == Shifted(c, n)
             back  == Shifted(there, -n)
  <2>1. back.from = c.from /\ back.to = c.to
    BY DEF Shifted, Calendar
  <2>2. back.days = c.days
    <3>1. \A day \in DaysOfWeek : (day + n) % 7 \in DaysOfWeek
      BY DEF DaysOfWeek
    <3>2. \A day \in DaysOfWeek : (((day + n) % 7) - n) % 7 = day
      BY DEF DaysOfWeek
    <3>3. back.days = {day \in DaysOfWeek : (day - (-n)) % 7 \in there.days}
      BY DEF Shifted
    <3>5. \A day \in DaysOfWeek : day - (-n) = day + n
      BY DEF DaysOfWeek
    <3>4. there.days = {day \in DaysOfWeek : (day - n) % 7 \in c.days}
      BY DEF Shifted
    <3>6. ASSUME NEW day \in DaysOfWeek
          PROVE  day \in back.days <=> day \in c.days
      <4>1. day \in back.days <=> (day + n) % 7 \in there.days
        BY <3>3, <3>5
      <4>2. (day + n) % 7 \in there.days <=> (((day + n) % 7) - n) % 7 \in c.days
        BY <3>1, <3>4
      <4> QED
        BY <4>1, <4>2, <3>2
    <3> QED
      BY <3>3, <3>6 DEF Calendar
  <2>3. back.exclude = c.exclude
    <3>1. back.exclude = {date + (-n) : date \in there.exclude}
      BY DEF Shifted
    <3>2. there.exclude = {date + n : date \in c.exclude}
      BY DEF Shifted
    <3>3. \A date \in c.exclude : (date + n) + (-n) = date
      BY DEF Calendar
    <3> HIDE DEF back, there
    <3> QED
      BY <3>1, <3>2, <3>3
  <2> QED
    BY <2>1, <2>2, <2>3 DEF Shifted, Calendar
<1> QED
  BY <1>1 DEF ShiftForward, ShiftBackward

-----------------------------------------------------------------------------

UnderTheirTuid ==
  \A tuid \in Tuids : \A i \in 1 .. Len(index[tuid]) : index[tuid][i].tuid = tuid

Apart ==
  /\ \A t, u \in Tuids : \A i \in 1 .. Len(index[t]), j \in 1 .. Len(index[u]) :
       index[t][i].id = index[u][j].id => t = u /\ i = j
  /\ \A i, j \in 1 .. Len(associated) :
       associated[i].id = associated[j].id => i = j
  /\ \A t \in Tuids : \A i \in 1 .. Len(index[t]), j \in 1 .. Len(associated) :
       index[t][i].id # associated[j].id

BelowNext == \A s \in Pieces : s.id < nextId

Applying == phase = "schedules" \/ (phase = "associations" /\ todo # {})

Over == phase \in {"associated", "resolved", "done"}

NothingCopied == Applying => \A s \in RecordsOf(index) : s.departs # "past24"

AllPushed == Over => associated = <<>>

InRecordDays(s) ==
  IF s.departs = "past24" THEN ShiftForward(s.calendar) ELSE s.calendar

(* What a link says of the record it couples ... *)
Couples(link, coupled, a) ==
  /\ coupled.id = AssocEnd(link)
  /\ Applying => coupled \in ToSet(associated)
  /\ a.assoc = coupled.tuid
  /\ a.location = link.location
  /\ a.type = link.type
  /\ RunDays(InBaseDays(a, InRecordDays(coupled))) # {}
  /\ RunDays(InBaseDays(a, InRecordDays(coupled))) \subseteq RunDays(a.calendar)

(* ... of the base, as long as it is there, ... *)
WithBase(link, coupled, a) ==
  \A base \in Pieces :
    base.id = BaseEnd(link) =>
      /\ a.base = base.tuid
      /\ RunDays(InBaseDays(a, InRecordDays(coupled))) \subseteq RunDays(base.calendar)
      /\ coupled.departs = "past24" => DayOffset(a) + DayShift(base) = 1

(* ... and of the record a copy was made of. *)
CopyOf(coupled) ==
  coupled.departs = "past24" =>
    \A s \in Pieces :
      s.id = coupled.id - 1 =>
        s.calendar = ShiftForward(coupled.calendar) /\ ~IsLateNight(s)

LinksHold ==
  \A link \in links :
    /\ BaseEnd(link) < nextId
    /\ \E coupled \in Pieces, a \in Associations :
         /\ Couples(link, coupled, a)
         /\ WithBase(link, coupled, a)
         /\ CopyOf(coupled)

EndsApart == \A link, other \in links : AssocEnd(other) = AssocEnd(link) => other = link

BasesStay ==
  phase = "resolved" =>
    /\ trips = RecordsOf(index)
    /\ \A link \in links : \E base \in trips : base.id = BaseEnd(link)

Inv ==
  /\ TypeOK
  /\ UnderTheirTuid
  /\ Apart
  /\ BelowNext
  /\ NothingCopied
  /\ AllPushed
  /\ LinksHold
  /\ EndsApart
  /\ BasesStay
-----------------------------------------------------------------------------
(***************************************************************************)
(* The days of a calendar as the base, or the associated train, dates them.*)
(***************************************************************************)
LEMMA DatesAreKnown ==
  ASSUME NEW a \in Association PROVE a.dates \in {"S", "N", "P"}
BY DEF Association

LEMMA TurnedCalendars ==
  ASSUME NEW a \in Association, NEW c \in Calendar
  PROVE  /\ InBaseDays(a, c) \in Calendar
         /\ InAssocDays(a, c) \in Calendar
         /\ InBaseDays(a, InAssocDays(a, c)) = c
<1>1. a.dates \in {"S", "N", "P"}
  BY DatesAreKnown
<1> QED
  BY <1>1, OperationsMakeCalendars, ShiftsAreInverse DEF InBaseDays, InAssocDays

LEMMA TurnedDays ==
  ASSUME NEW a \in Association, NEW c \in Calendar, NEW date \in Int
  PROVE  /\ DayOffset(a) \in {-1, 0, 1}
         /\ date \in RunDays(InBaseDays(a, c)) <=> date + DayOffset(a) \in RunDays(c)
         /\ date \in RunDays(InAssocDays(a, c)) <=> date - DayOffset(a) \in RunDays(c)
<1>1. CASE a.dates = "S"
  BY <1>1 DEF InBaseDays, InAssocDays, DayOffset
<1>2. CASE a.dates = "N"
  <2>1. DayOffset(a) = 1 /\ InBaseDays(a, c) = ShiftBackward(c)
                         /\ InAssocDays(a, c) = ShiftForward(c)
    BY <1>2 DEF InBaseDays, InAssocDays, DayOffset
  <2> QED BY <2>1, ShiftForwardMovesDays, ShiftBackwardMovesDays
<1>3. CASE a.dates = "P"
  <2>1. DayOffset(a) = -1 /\ InBaseDays(a, c) = ShiftForward(c)
                          /\ InAssocDays(a, c) = ShiftBackward(c)
    BY <1>3 DEF InBaseDays, InAssocDays, DayOffset
  <2>2. date + (-1) = date - 1 /\ date - (-1) = date + 1
    OBVIOUS
  <2> QED BY <2>1, <2>2, ShiftForwardMovesDays, ShiftBackwardMovesDays
<1> QED BY <1>1, <1>2, <1>3, DatesAreKnown

LEMMA RunDaysAreDates == ASSUME NEW c \in Calendar PROVE RunDays(c) \subseteq Int
  BY DEF RunDays, Calendar

(***************************************************************************)
(* The coupled days: those that all three run, and days of the record.     *)
(***************************************************************************)
LEMMA CoupledDays ==
  ASSUME NEW a \in Association, NEW base \in Schedule, NEW s \in Schedule
  PROVE  /\ Coupled(a, base, s) \in Calendar
         /\ RunDays(Coupled(a, base, s))
              = RunDays(base.calendar) \cap RunDays(InBaseDays(a, s.calendar))
                  \cap RunDays(a.calendar)
         /\ RunDays(InAssocDays(a, Coupled(a, base, s))) \subseteq RunDays(s.calendar)
<1>1. a.calendar \in Calendar /\ base.calendar \in Calendar /\ s.calendar \in Calendar
  BY DEF Association, Schedule
<1>2. InBaseDays(a, s.calendar) \in Calendar
  BY <1>1, TurnedCalendars
<1>3. Intersect(base.calendar, InBaseDays(a, s.calendar)) \in Calendar
  BY <1>1, <1>2, OperationsMakeCalendars
<1>4. Coupled(a, base, s) \in Calendar
  BY <1>1, <1>3, OperationsMakeCalendars DEF Coupled
<1>5. RunDays(Coupled(a, base, s))
        = RunDays(base.calendar) \cap RunDays(InBaseDays(a, s.calendar))
            \cap RunDays(a.calendar)
  BY <1>1, <1>2, <1>3, IntersectRunsCommonDays DEF Coupled
<1>6. ASSUME NEW date \in RunDays(InAssocDays(a, Coupled(a, base, s)))
      PROVE  date \in RunDays(s.calendar)
  <2>1. date \in Int
    BY <1>4, TurnedCalendars, RunDaysAreDates
  <2>2. /\ DayOffset(a) \in {-1, 0, 1}
        /\ date - DayOffset(a) \in RunDays(Coupled(a, base, s))
    BY <1>4, <2>1, TurnedDays
  <2>3. date - DayOffset(a) \in RunDays(InBaseDays(a, s.calendar))
    BY <1>5, <2>2
  <2>4. date - DayOffset(a) \in Int /\ (date - DayOffset(a)) + DayOffset(a) = date
    BY <2>1, <2>2
  <2> QED BY <1>1, <2>3, <2>4, TurnedDays
<1> QED BY <1>4, <1>5, <1>6

(***************************************************************************)
(* The three records a schedule is cut into: the coupled days, the copy of *)
(* them on the day before, and what is left.                               *)
(***************************************************************************)
Remainder(s, asDated, id) ==
  [s EXCEPT !.id = id, !.calendar = WithoutDaysOf(s.calendar, asDated.calendar)]

LEMMA AsDatedIsASchedule ==
  ASSUME TypeOK, NEW a \in Association, NEW base \in Schedule, NEW s \in Schedule,
         NEW d, d = AsDated(a, base, s)
  PROVE  /\ d \in Schedule
         /\ d.id = nextId /\ d.tuid = s.tuid /\ d.departs = s.departs
         /\ InBaseDays(a, d.calendar) = Coupled(a, base, s)
         /\ RunDays(d.calendar) \subseteq RunDays(s.calendar)
<1>1. d.calendar = InAssocDays(a, Coupled(a, base, s)) /\ d.calendar \in Calendar
  BY CoupledDays, TurnedCalendars DEF AsDated, Schedule
<1>2. d \in Schedule /\ d.id = nextId /\ d.tuid = s.tuid /\ d.departs = s.departs
  BY <1>1 DEF AsDated, Schedule, TypeOK
<1> QED BY <1>1, <1>2, CoupledDays, TurnedCalendars

LEMMA CopyIsASchedule ==
  ASSUME NEW s \in Schedule, NEW id \in Nat, NEW c, c = CopyToPreviousServiceDay(s, id)
  PROVE  /\ c \in Schedule
         /\ c.id = id /\ c.tuid = s.tuid /\ c.departs = "past24"
         /\ c.calendar = ShiftBackward(s.calendar)
         /\ ShiftForward(c.calendar) = s.calendar
<1>1. s.calendar \in Calendar /\ ShiftBackward(s.calendar) \in Calendar
  BY OperationsMakeCalendars DEF Schedule
<1>2. /\ c \in Schedule
      /\ c.id = id /\ c.tuid = s.tuid /\ c.departs = "past24"
      /\ c.calendar = ShiftBackward(s.calendar)
  BY <1>1 DEF CopyToPreviousServiceDay, Schedule, Departures
<1> QED BY <1>1, <1>2, ShiftsAreInverse
-----------------------------------------------------------------------------
(***************************************************************************)
(* The lists, by their elements.                                           *)
(***************************************************************************)
LEMMA ElementsOf ==
  ASSUME NEW S, NEW q \in Seq(S), NEW e
  PROVE  e \in ToSet(q) <=> \E i \in 1 .. Len(q) : q[i] = e
BY DEF ToSet

LEMMA RecordsAre ==
  ASSUME NEW e
  PROVE  e \in RecordsOf(index) <=> \E tuid \in Tuids : e \in ToSet(index[tuid])
BY DEF RecordsOf

LEMMA RecordsAreSchedules ==
  ASSUME TypeOK, NEW tuid \in Tuids
  PROVE  /\ index[tuid] \in Seq(Schedule)
         /\ \A i \in 1 .. Len(index[tuid]) :
              index[tuid][i] \in Schedule /\ index[tuid][i] \in RecordsOf(index)
<1>1. index[tuid] \in Seq(Schedule)
  BY DEF TypeOK
<1>2. \A i \in 1 .. Len(index[tuid]) : index[tuid][i] \in Schedule
  BY <1>1, ElementOfSeq
<1> QED BY <1>1, <1>2, ElementsOf, RecordsAre

LEMMA PiecesAreSchedules == ASSUME TypeOK PROVE Pieces \subseteq Schedule
<1>1. \A e \in RecordsOf(index) : e \in Schedule
  <2> TAKE e \in RecordsOf(index)
  <2>1. PICK tuid \in Tuids : e \in ToSet(index[tuid])
    BY RecordsAre
  <2>2. PICK i \in 1 .. Len(index[tuid]) : index[tuid][i] = e
    BY <2>1, RecordsAreSchedules, ElementsOf
  <2> QED BY <2>2, RecordsAreSchedules
<1>2. \A e \in ToSet(associated) : e \in Schedule
  BY ElementsOf, ElementOfSeq DEF TypeOK
<1> QED BY <1>1, <1>2 DEF Pieces

LEMMA SpliceProperties ==
  ASSUME NEW S, NEW q \in Seq(S), NEW p \in 1 .. Len(q), NEW repl \in Seq(S)
  PROVE  /\ Splice(q, p, repl) \in Seq(S)
         /\ Len(Splice(q, p, repl)) = Len(q) - 1 + Len(repl)
         /\ \A k \in 1 .. Len(q) - 1 + Len(repl) :
              Splice(q, p, repl)[k] =
                IF k < p THEN q[k]
                ELSE IF k < p + Len(repl) THEN repl[k - p + 1]
                ELSE q[k - Len(repl) + 1]
<1>0. PICK new : new = Splice(q, p, repl)
  OBVIOUS
<1> DEFINE front == SubSeq(q, 1, p - 1)
           back  == SubSeq(q, p + 1, Len(q))
<1>1. /\ front \in Seq(S)
      /\ Len(front) = p - 1
      /\ \A k \in 1 .. p - 1 : front[k] = q[k]
  BY SubSeqProperties
<1>2. /\ back \in Seq(S)
      /\ Len(back) = Len(q) - p
      /\ \A k \in 1 .. Len(q) - p : back[k] = q[p + k]
  BY SubSeqProperties
<1> HIDE DEF front, back
<1>3. PICK mid : mid = front \o repl
  OBVIOUS
<1>4. /\ mid \in Seq(S)
      /\ Len(mid) = p - 1 + Len(repl)
      /\ \A k \in 1 .. Len(mid) : mid[k] = IF k < p THEN q[k] ELSE repl[k - p + 1]
  <2>1. /\ mid \in Seq(S)
        /\ Len(mid) = Len(front) + Len(repl)
        /\ \A k \in 1 .. Len(front) + Len(repl) :
             mid[k] = IF k <= Len(front) THEN front[k] ELSE repl[k - Len(front)]
    BY <1>1, <1>3, ConcatProperties
  <2>2. \A k \in Int : k - (p - 1) = k - p + 1
    OBVIOUS
  <2> QED BY <1>1, <2>1, <2>2
<1>6. new = mid \o back
  BY <1>0, <1>3 DEF Splice, front, back
<1>5. /\ new \in Seq(S)
      /\ Len(new) = Len(mid) + Len(back)
      /\ \A k \in 1 .. Len(mid) + Len(back) :
           new[k] = IF k <= Len(mid) THEN mid[k] ELSE back[k - Len(mid)]
  <2>1. mid \in Seq(S) /\ back \in Seq(S)
    BY <1>2, <1>4
  <2> QED BY <1>6, <2>1, ConcatProperties
<1>7. Len(q) \in Nat /\ Len(repl) \in Nat
  OBVIOUS
<1>8. ASSUME NEW k \in 1 .. Len(new), k > Len(mid)
      PROVE  new[k] = q[k - Len(repl) + 1]
  <2>1. k - Len(mid) \in 1 .. Len(q) - p
    BY <1>2, <1>4, <1>5, <1>6, <1>7, <1>8, SMTT(20)
  <2>2. p + (k - Len(mid)) = k - Len(repl) + 1
    BY <1>4, <1>7, <2>1
  <2>3. new[k] = back[k - Len(mid)]
    BY <1>4, <1>5, <1>6, <1>7, <1>8
  <2> QED BY <1>2, <2>1, <2>2, <2>3
<1>9. ASSUME NEW k \in 1 .. Len(new), k <= Len(mid)
      PROVE  new[k] = IF k < p THEN q[k] ELSE repl[k - p + 1]
  BY <1>4, <1>5, <1>6, <1>7, <1>9
<1>10. \A k \in 1 .. Len(new) : k > Len(mid) <=> ~(k < p + Len(repl))
  BY <1>4, <1>5, <1>7
<1>11. Len(new) = Len(q) - 1 + Len(repl)
  BY <1>2, <1>4, <1>5, <1>7
<1>12. ASSUME NEW k \in 1 .. Len(new)
       PROVE  new[k] = IF k < p THEN q[k]
                       ELSE IF k < p + Len(repl) THEN repl[k - p + 1]
                       ELSE q[k - Len(repl) + 1]
  <2>1. CASE k < p
    <3>1. k <= Len(mid)
      BY <1>4, <1>7, <2>1
    <3> QED BY <1>9, <2>1, <3>1
  <2>2. CASE ~(k < p) /\ k < p + Len(repl)
    <3>1. k <= Len(mid)
      BY <1>4, <1>7, <2>2
    <3> QED BY <1>9, <2>2, <3>1
  <2>3. CASE ~(k < p) /\ ~(k < p + Len(repl))
    BY <1>8, <1>10, <2>3
  <2> QED BY <2>1, <2>2, <2>3
<1> QED BY <1>0, <1>5, <1>11, <1>12
-----------------------------------------------------------------------------
(***************************************************************************)
(* A coupling, said of the records it takes and makes: s is cut at the     *)
(* place p of its list into d and the rest, and d may have its copy.       *)
(***************************************************************************)
CutsInto(s, base, d, coupled, rest, p) ==
  /\ s.tuid = association.assoc
  /\ p \in 1 .. Len(index[s.tuid]) /\ index[s.tuid][p] = s
  /\ base \in RecordsOf(index) /\ base.tuid = association.base
  /\ association.type \in {"JJ", "VV"}
  /\ d.id = nextId /\ d.tuid = s.tuid /\ d.departs = s.departs
  /\ InBaseDays(association, d.calendar) = Coupled(association, base, s)
  /\ RunDays(Coupled(association, base, s)) # {}
  /\ RunDays(d.calendar) \subseteq RunDays(s.calendar)
  /\ \/ coupled = <<d>>
     \/ /\ coupled = <<d, coupled[2]>>
        /\ coupled[2].id = nextId + 1
        /\ coupled[2].tuid = s.tuid /\ coupled[2].departs = "past24"
        /\ ShiftForward(coupled[2].calendar) = d.calendar
        /\ ~IsLateNight(d)
        /\ DayOffset(association) + DayShift(base) = 1
  /\ \/ rest = <<>> /\ RunDays(d.calendar) = RunDays(s.calendar)
     \/ /\ rest = <<rest[1]>>
        /\ rest[1].id = nextId + Len(coupled)
        /\ rest[1].tuid = s.tuid /\ rest[1].departs = s.departs
        /\ RunDays(rest[1].calendar) = RunDays(s.calendar) \ RunDays(d.calendar)
  /\ phase = "schedules" /\ matching' = matching \ {s}
  /\ links' = links \cup {LinkOf(association, base, coupled[Len(coupled)])}
  /\ associated' = associated \o coupled
  /\ index' = [index EXCEPT ![s.tuid] = Splice(index[s.tuid], p, rest)]
  /\ nextId' = nextId + Len(coupled) + Len(rest)
  /\ UNCHANGED <<duplicateOvernight, todo, association, phase, trips>>

LEMMA CouplingsCut ==
  ASSUME Inv, Couple
  PROVE  \E s, base, d \in Schedule, coupled, rest \in Seq(Schedule), p \in Nat :
           CutsInto(s, base, d, coupled, rest, p)
<1>0. PICK s \in matching : \E base \in Bases(association, s) :
        /\ Applies(association, base, s)
        /\ matching' = matching \ {s}
        /\ \E asDated \in {AsDated(association, base, s)} :
           \E applied \in {Application(association, base, s, asDated)} :
             /\ links' = links \cup {applied.link}
             /\ associated' = associated \o applied.coupled
             /\ index' = [index EXCEPT ![s.tuid] =
                            Splice(index[s.tuid], Place(s), applied.unassociated)]
             /\ nextId' = nextId + Len(applied.coupled) + Len(applied.unassociated)
  BY DEF Couple
<1>1. PICK base \in Bases(association, s) :
        /\ Applies(association, base, s)
        /\ matching' = matching \ {s}
        /\ \E asDated \in {AsDated(association, base, s)} :
           \E applied \in {Application(association, base, s, asDated)} :
             /\ links' = links \cup {applied.link}
             /\ associated' = associated \o applied.coupled
             /\ index' = [index EXCEPT ![s.tuid] =
                            Splice(index[s.tuid], Place(s), applied.unassociated)]
             /\ nextId' = nextId + Len(applied.coupled) + Len(applied.unassociated)
  BY <1>0
<1>2. PICK d : d = AsDated(association, base, s)
  OBVIOUS
<1>3. PICK applied : applied = Application(association, base, s, d)
  OBVIOUS
<1>4. PICK p : p = Place(s)
  OBVIOUS
<1>5. /\ links' = links \cup {applied.link}
      /\ associated' = associated \o applied.coupled
      /\ index' = [index EXCEPT ![s.tuid] =
                     Splice(index[s.tuid], p, applied.unassociated)]
      /\ nextId' = nextId + Len(applied.coupled) + Len(applied.unassociated)
  BY <1>1, <1>2, <1>3, <1>4
<1>6. association \in Association /\ association.base \in Tuids
      /\ association.assoc \in Tuids
  BY AssociationsAssumption DEF Inv, TypeOK, Association
<1>7. /\ s \in Schedule /\ s.tuid = association.assoc
      /\ p \in 1 .. Len(index[s.tuid]) /\ index[s.tuid][p] = s
  <2>1. s \in ToSet(index[association.assoc])
    BY DEF Inv, TypeOK
  <2>2. PICK i \in 1 .. Len(index[association.assoc]) : index[association.assoc][i] = s
    BY <1>6, <2>1, RecordsAreSchedules, ElementsOf DEF Inv
  <2>3. s \in Schedule /\ s.tuid = association.assoc
    BY <1>6, <2>2, RecordsAreSchedules DEF Inv, UnderTheirTuid
  <2>4. p \in 1 .. Len(index[s.tuid]) /\ index[s.tuid][p] = s
    BY <1>4, <2>2, <2>3 DEF Place
  <2> QED BY <2>3, <2>4
<1>8. base \in Schedule /\ base \in RecordsOf(index) /\ base.tuid = association.base
  <2>1. base \in ToSet(index[association.base])
    BY DEF Bases
  <2>2. PICK i \in 1 .. Len(index[association.base]) : index[association.base][i] = base
    BY <1>6, <2>1, RecordsAreSchedules, ElementsOf DEF Inv
  <2> QED BY <1>6, <2>1, <2>2, RecordsAreSchedules, RecordsAre DEF Inv, UnderTheirTuid
<1>9. /\ d \in Schedule
      /\ d.id = nextId /\ d.tuid = s.tuid /\ d.departs = s.departs
      /\ InBaseDays(association, d.calendar) = Coupled(association, base, s)
      /\ RunDays(d.calendar) \subseteq RunDays(s.calendar)
  BY <1>2, <1>6, <1>7, <1>8, AsDatedIsASchedule DEF Inv
<1>10. /\ association.type \in {"JJ", "VV"}
       /\ RunDays(Coupled(association, base, s)) # {}
  BY <1>1, <1>6, <1>7, <1>8, CoupledDays, IsEmptyMeansNoDays DEF Applies
<1>11. nextId \in Nat
  BY DEF Inv, TypeOK
<1>12. PICK c : c = CopyToPreviousServiceDay(d, nextId + 1)
  OBVIOUS
<1>13. /\ c \in Schedule
       /\ c.id = nextId + 1 /\ c.tuid = s.tuid /\ c.departs = "past24"
       /\ ShiftForward(c.calendar) = d.calendar
  BY <1>9, <1>11, <1>12, CopyIsASchedule
<1>14. PICK coupled : coupled = applied.coupled
  OBVIOUS
<1>15. /\ coupled \in Seq(Schedule) /\ Len(coupled) \in {1, 2}
       /\ \/ coupled = <<d>>
          \/ /\ coupled = <<d, c>>
             /\ ~IsLateNight(d)
             /\ DayOffset(association) + DayShift(base) = 1
  <2>1. coupled = IF Duplicates(association, base, d) THEN <<d, c>> ELSE <<d>>
    BY <1>3, <1>12, <1>14 DEF Application
  <2>2. ASSUME Duplicates(association, base, d)
        PROVE  ~IsLateNight(d) /\ DayOffset(association) + DayShift(base) = 1
    <3>1. DayOffset(association) \in {-1, 0, 1} /\ DayShift(base) \in {0, 1}
      BY <1>6, TurnedDays, <1>9 DEF DayShift, Schedule
    <3>2. ~IsLateNight(d) /\ DayShift(d) = 0
      BY <2>2 DEF Duplicates, DayShift
    <3>3. DayOffset(association) - DayShift(d) + DayShift(base) = 1
      BY <2>2 DEF Duplicates, DayGap
    <3> QED BY <3>1, <3>2, <3>3
  <2> QED BY <1>9, <1>13, <2>1, <2>2
<1>16. PICK r, id : id = nextId + Len(coupled) /\ r = Remainder(s, d, id)
  OBVIOUS
<1>17. /\ r \in Schedule
       /\ r.id = nextId + Len(coupled) /\ r.tuid = s.tuid /\ r.departs = s.departs
       /\ RunDays(r.calendar) = RunDays(s.calendar) \ RunDays(d.calendar)
       /\ IsEmpty(r.calendar) <=> RunDays(r.calendar) = {}
  <2>1. id \in Nat
    BY <1>11, <1>15, <1>16
  <2>2. /\ r \in Schedule
        /\ r.id = id /\ r.tuid = s.tuid /\ r.departs = s.departs
        /\ r.calendar \in Calendar
        /\ RunDays(r.calendar) = RunDays(s.calendar) \ RunDays(d.calendar)
    <3>1. s.calendar \in Calendar /\ d.calendar \in Calendar
          /\ WithoutDaysOf(s.calendar, d.calendar) \in Calendar
      BY <1>7, <1>9, OperationsMakeCalendars DEF Schedule
    <3>2. /\ r \in Schedule
          /\ r.id = id /\ r.tuid = s.tuid /\ r.departs = s.departs
          /\ r.calendar = WithoutDaysOf(s.calendar, d.calendar)
      BY <1>7, <1>16, <2>1, <3>1 DEF Remainder, Schedule
    <3> QED BY <3>1, <3>2, WithoutDaysRunsTheRest
  <2> QED BY <1>16, <2>2, IsEmptyMeansNoDays
<1>18. PICK rest : rest = applied.unassociated
  OBVIOUS
<1>19. rest = IF IsEmpty(r.calendar) THEN <<>> ELSE <<r>>
  BY <1>3, <1>14, <1>16, <1>18 DEF Application, Remainder
<1>20. /\ rest \in Seq(Schedule)
       /\ \/ rest = <<>> /\ RunDays(d.calendar) = RunDays(s.calendar)
          \/ rest = <<r>>
  <2>1. CASE IsEmpty(r.calendar)
    <3>1. RunDays(d.calendar) = RunDays(s.calendar)
      BY <1>9, <1>17, <2>1
    <3> QED BY <1>19, <2>1, <3>1
  <2>2. CASE ~IsEmpty(r.calendar)
    BY <1>17, <1>19, <2>2
  <2> QED BY <2>1, <2>2
<1>21. applied.link = LinkOf(association, base, coupled[Len(coupled)])
  BY <1>3, <1>14 DEF Application, Last
<1>22. UNCHANGED <<duplicateOvernight, todo, association, phase, trips>>
       /\ phase = "schedules"
  BY DEF Couple
<1>23. CutsInto(s, base, d, coupled, rest, p)
  <2>1. \/ coupled = <<d>>
        \/ /\ coupled = <<d, coupled[2]>>
           /\ coupled[2].id = nextId + 1
           /\ coupled[2].tuid = s.tuid /\ coupled[2].departs = "past24"
           /\ ShiftForward(coupled[2].calendar) = d.calendar
           /\ ~IsLateNight(d)
           /\ DayOffset(association) + DayShift(base) = 1
    BY <1>13, <1>15
  <2>2. \/ rest = <<>> /\ RunDays(d.calendar) = RunDays(s.calendar)
        \/ /\ rest = <<rest[1]>>
           /\ rest[1].id = nextId + Len(coupled)
           /\ rest[1].tuid = s.tuid /\ rest[1].departs = s.departs
           /\ RunDays(rest[1].calendar) = RunDays(s.calendar) \ RunDays(d.calendar)
    BY <1>17, <1>20
  <2> QED
    BY <1>1, <1>5, <1>7, <1>8, <1>9, <1>10, <1>14, <1>18, <1>21, <1>22, <2>1, <2>2
    DEF CutsInto
<1>24. p \in Nat
  BY <1>7
<1> QED BY <1>7, <1>8, <1>9, <1>15, <1>20, <1>23, <1>24

(***************************************************************************)
(* The lists after it, place by place, and so as sets.                     *)
(***************************************************************************)
OldPlace(p, rest, k) == IF k < p THEN k ELSE k - Len(rest) + 1

Replaced(q, p, rest, new) ==
  /\ \A k \in 1 .. Len(new) :
       \/ rest # <<>> /\ k = p /\ new[k] = rest[1]
       \/ /\ OldPlace(p, rest, k) \in 1 .. Len(q) /\ OldPlace(p, rest, k) # p
          /\ new[k] = q[OldPlace(p, rest, k)]
  /\ \A m \in 1 .. Len(q) : m = p \/ \E k \in 1 .. Len(new) : new[k] = q[m]
  /\ rest # <<>> => p \in 1 .. Len(new) /\ new[p] = rest[1]

LEMMA SpliceReplaces ==
  ASSUME NEW q \in Seq(Schedule), NEW p \in 1 .. Len(q), NEW rest \in Seq(Schedule),
         Len(rest) \in {0, 1}
  PROVE  Splice(q, p, rest) \in Seq(Schedule) /\ Replaced(q, p, rest, Splice(q, p, rest))
<1>1. PICK new : new = Splice(q, p, rest)
  OBVIOUS
<1>2. /\ Splice(q, p, rest) \in Seq(Schedule)
      /\ Len(Splice(q, p, rest)) = Len(q) - 1 + Len(rest)
      /\ \A k \in 1 .. Len(q) - 1 + Len(rest) :
           Splice(q, p, rest)[k] =
             IF k < p THEN q[k]
             ELSE IF k < p + Len(rest) THEN rest[k - p + 1]
             ELSE q[k - Len(rest) + 1]
  BY SpliceProperties
<1>3. /\ new \in Seq(Schedule)
      /\ Len(new) = Len(q) - 1 + Len(rest)
      /\ \A k \in 1 .. Len(new) :
           new[k] = IF k < p THEN q[k]
                    ELSE IF k < p + Len(rest) THEN rest[k - p + 1]
                    ELSE q[k - Len(rest) + 1]
  BY <1>1, <1>2
<1>4. /\ Len(rest) \in {0, 1} /\ (rest # <<>> <=> Len(rest) = 1)
      /\ Len(q) \in Nat /\ p \in Nat
  <2>1. Len(rest) = 0 <=> rest = <<>>
    BY EmptySeq
  <2>2. Len(q) \in Nat
    OBVIOUS
  <2>3. p \in Nat
    BY <2>2
  <2>4. Len(rest) = 0 \/ Len(rest) = 1
    OBVIOUS
  <2>5. rest # <<>> <=> Len(rest) = 1
    <3>1. Len(rest) = 1 => Len(rest) # 0
      OBVIOUS
    <3> QED BY <2>1, <2>4, <3>1, Zenon
  <2> QED BY <2>2, <2>3, <2>4, <2>5, Zenon
<1>5. ASSUME NEW k \in 1 .. Len(new)
      PROVE  \/ rest # <<>> /\ k = p /\ new[k] = rest[1]
             \/ /\ OldPlace(p, rest, k) \in 1 .. Len(q) /\ OldPlace(p, rest, k) # p
                /\ new[k] = q[OldPlace(p, rest, k)]
  <2>1. CASE k < p
    <3>1. k \in 1 .. Len(q) /\ k # p /\ OldPlace(p, rest, k) = k
      BY <1>3, <1>4, <2>1 DEF OldPlace
    <3> QED BY <1>3, <2>1, <3>1
  <2>2. CASE ~(k < p) /\ k < p + Len(rest)
    <3>1. k \in Nat
      OBVIOUS
    <3>2. k = p /\ Len(rest) = 1 /\ k - p + 1 = 1
      <4>1. CASE Len(rest) = 0
        BY <1>4, <2>2, <3>1, <4>1
      <4>2. CASE Len(rest) = 1
        BY <1>4, <2>2, <3>1, <4>2
      <4> QED BY <1>4, <4>1, <4>2
    <3> QED BY <1>3, <1>4, <2>2, <3>2
  <2>3. CASE ~(k < p) /\ ~(k < p + Len(rest))
    <3>1. /\ OldPlace(p, rest, k) = k - Len(rest) + 1
          /\ k - Len(rest) + 1 \in 1 .. Len(q) /\ k - Len(rest) + 1 # p
      BY <1>3, <1>4, <2>3 DEF OldPlace
    <3> QED BY <1>3, <2>3, <3>1
  <2> QED BY <2>1, <2>2, <2>3
<1>6. ASSUME NEW m \in 1 .. Len(q), m # p
      PROVE  \E k \in 1 .. Len(new) : new[k] = q[m]
  <2>1. CASE m < p
    <3>1. m \in 1 .. Len(new)
      BY <1>3, <1>4, <2>1
    <3> QED BY <1>3, <2>1, <3>1
  <2>2. CASE m > p
    <3>1. PICK k \in Nat : k = m + Len(rest) - 1
      <4>1. m + Len(rest) - 1 \in Nat
        BY <1>4, <2>2
      <4> QED BY <4>1
    <3>2. /\ k \in 1 .. Len(new) /\ ~(k < p) /\ ~(k < p + Len(rest))
          /\ k - Len(rest) + 1 = m
      BY <1>3, <1>4, <2>2, <3>1
    <3> QED BY <1>3, <3>2
  <2> QED BY <1>6, <2>1, <2>2
<1>7. rest # <<>> => p \in 1 .. Len(new) /\ new[p] = rest[1]
  <2> SUFFICES ASSUME rest # <<>> PROVE p \in 1 .. Len(new) /\ new[p] = rest[1]
    OBVIOUS
  <2>1. p \in 1 .. Len(new) /\ ~(p < p) /\ p < p + Len(rest) /\ p - p + 1 = 1
    BY <1>3, <1>4
  <2> QED BY <1>3, <2>1
<1> QED BY <1>1, <1>3, <1>5, <1>6, <1>7 DEF Replaced

LEMMA SetOfRest ==
  ASSUME NEW rest \in Seq(Schedule), Len(rest) \in {0, 1}, NEW e
  PROVE  e \in ToSet(rest) <=> rest # <<>> /\ e = rest[1]
<1>1. e \in ToSet(rest) <=> \E i \in 1 .. Len(rest) : rest[i] = e
  BY ElementsOf
<1> QED BY <1>1

LEMMA SetOfReplaced ==
  ASSUME NEW q \in Seq(Schedule), NEW p \in 1 .. Len(q), NEW rest \in Seq(Schedule),
         Len(rest) \in {0, 1}, NEW new \in Seq(Schedule), Replaced(q, p, rest, new),
         \A m \in 1 .. Len(q) : q[m] = q[p] => m = p, NEW e
  PROVE  e \in ToSet(new) <=> (e \in ToSet(q) /\ e # q[p]) \/ e \in ToSet(rest)
<1>1. e \in ToSet(new) <=> \E k \in 1 .. Len(new) : new[k] = e
  BY ElementsOf
<1>2. e \in ToSet(q) <=> \E m \in 1 .. Len(q) : q[m] = e
  BY ElementsOf
<1>3. e \in ToSet(rest) <=> rest # <<>> /\ e = rest[1]
  BY SetOfRest
<1>4. ASSUME NEW k \in 1 .. Len(new), new[k] = e
      PROVE  (e \in ToSet(q) /\ e # q[p]) \/ e \in ToSet(rest)
  <2>1. CASE rest # <<>> /\ new[k] = rest[1]
    BY <1>3, <1>4, <2>1
  <2>2. CASE \E m \in 1 .. Len(q) : m # p /\ new[k] = q[m]
    BY <1>2, <1>4, <2>2
  <2> QED BY <2>1, <2>2 DEF Replaced
<1>5. ASSUME e \in ToSet(q), e # q[p] PROVE e \in ToSet(new)
  <2>1. PICK m \in 1 .. Len(q) : q[m] = e
    BY <1>2, <1>5
  <2>2. \E k \in 1 .. Len(new) : new[k] = q[m]
    BY <1>5, <2>1 DEF Replaced
  <2> QED BY <1>1, <2>1, <2>2
<1>6. ASSUME e \in ToSet(rest) PROVE e \in ToSet(new)
  BY <1>1, <1>3, <1>6 DEF Replaced
<1> QED BY <1>1, <1>4, <1>5, <1>6

LEMMA SetOfConcat ==
  ASSUME NEW a \in Seq(Schedule), NEW b \in Seq(Schedule), NEW e
  PROVE  e \in ToSet(a \o b) <=> e \in ToSet(a) \/ e \in ToSet(b)
<1>1. e \in ToSet(a) <=> \E i \in 1 .. Len(a) : a[i] = e
  BY ElementsOf
<1>2. e \in ToSet(b) <=> \E i \in 1 .. Len(b) : b[i] = e
  BY ElementsOf
<1>3. PICK both : both = a \o b
  OBVIOUS
<1>4. /\ both \in Seq(Schedule)
      /\ Len(both) = Len(a) + Len(b)
      /\ \A k \in 1 .. Len(a) + Len(b) :
           both[k] = IF k <= Len(a) THEN a[k] ELSE b[k - Len(a)]
  BY <1>3, ConcatProperties
<1>5. e \in ToSet(both) <=> \E i \in 1 .. Len(both) : both[i] = e
  BY <1>4, ElementsOf
<1>6. Len(a) \in Nat /\ Len(b) \in Nat
  OBVIOUS
<1>7. ASSUME NEW i \in 1 .. Len(both), both[i] = e
      PROVE  e \in ToSet(a) \/ e \in ToSet(b)
  <2>1. CASE i <= Len(a)
    <3>1. i \in 1 .. Len(a) /\ i \in 1 .. Len(a) + Len(b)
      BY <1>4, <1>6, <2>1
    <3>2. a[i] = e
      BY <1>4, <1>7, <2>1, <3>1
    <3> QED BY <1>1, <3>1, <3>2
  <2>2. CASE ~(i <= Len(a))
    <3>1. i - Len(a) \in 1 .. Len(b) /\ i \in 1 .. Len(a) + Len(b)
      BY <1>4, <1>6, <2>2
    <3>2. b[i - Len(a)] = e
      BY <1>4, <1>7, <2>2, <3>1
    <3> QED BY <1>2, <3>1, <3>2
  <2> QED BY <2>1, <2>2
<1>8. ASSUME NEW i \in 1 .. Len(a), a[i] = e PROVE e \in ToSet(both)
  <2>1. i \in 1 .. Len(both) /\ i \in 1 .. Len(a) + Len(b) /\ i <= Len(a)
    BY <1>4, <1>6
  <2>2. both[i] = e
    BY <1>4, <1>8, <2>1
  <2> QED BY <1>5, <2>1, <2>2
<1>9. ASSUME NEW i \in 1 .. Len(b), b[i] = e PROVE e \in ToSet(both)
  <2>1. PICK k \in Nat : k = Len(a) + i
    <3>1. Len(a) + i \in Nat
      BY <1>6
    <3> QED BY <3>1
  <2>2. /\ k \in 1 .. Len(both) /\ k \in 1 .. Len(a) + Len(b)
        /\ ~(k <= Len(a)) /\ k - Len(a) = i
    BY <1>4, <1>6, <2>1
  <2>3. both[k] = e
    BY <1>4, <1>9, <2>2
  <2> QED BY <1>5, <2>2, <2>3
<1> QED BY <1>1, <1>2, <1>3, <1>5, <1>7, <1>8, <1>9

LEMMA CutLists ==
  ASSUME Inv, NEW s \in Schedule, NEW base \in Schedule, NEW d \in Schedule,
         NEW coupled \in Seq(Schedule), NEW rest \in Seq(Schedule), NEW p \in Nat,
         CutsInto(s, base, d, coupled, rest, p)
  PROVE  /\ s.tuid \in Tuids /\ p \in 1 .. Len(index[s.tuid]) /\ index[s.tuid][p] = s
         /\ Len(rest) \in {0, 1}
         /\ \A t \in Tuids : t # s.tuid => index'[t] = index[t]
         /\ index'[s.tuid] \in Seq(Schedule)
         /\ Replaced(index[s.tuid], p, rest, index'[s.tuid])
<1>1. PICK q, new : q = index[s.tuid] /\ new = Splice(q, p, rest)
  OBVIOUS
<1>2. s.tuid \in Tuids /\ q \in Seq(Schedule) /\ p \in 1 .. Len(q) /\ q[p] = s
  BY <1>1, RecordsAreSchedules DEF Schedule, Inv, CutsInto
<1>3. Len(rest) \in {0, 1}
  BY DEF CutsInto
<1>4. new \in Seq(Schedule) /\ Replaced(q, p, rest, new)
  BY <1>1, <1>2, <1>3, SpliceReplaces
<1>5. index' = [index EXCEPT ![s.tuid] = new] /\ index \in [Tuids -> Seq(Schedule)]
  BY <1>1 DEF CutsInto, Inv, TypeOK
<1>6. new = index'[s.tuid] /\ \A t \in Tuids : t # s.tuid => index'[t] = index[t]
  BY <1>2, <1>5
<1> QED BY <1>1, <1>2, <1>3, <1>4, <1>6

LEMMA CutSets ==
  ASSUME Inv, NEW s \in Schedule, NEW base \in Schedule, NEW d \in Schedule,
         NEW coupled \in Seq(Schedule), NEW rest \in Seq(Schedule), NEW p \in Nat,
         CutsInto(s, base, d, coupled, rest, p), NEW e
  PROVE  /\ e \in ToSet(index'[s.tuid])
              <=> (e \in ToSet(index[s.tuid]) /\ e # s) \/ e \in ToSet(rest)
         /\ e \in RecordsOf(index)'
              <=> (e \in RecordsOf(index) /\ e # s) \/ e \in ToSet(rest)
         /\ e \in ToSet(associated)' <=> e \in ToSet(associated) \/ e \in ToSet(coupled)
         /\ e \in Pieces'
              <=> (e \in Pieces /\ e # s) \/ e \in ToSet(rest) \/ e \in ToSet(coupled)
         /\ s \in RecordsOf(index)
<1>1. PICK q, new : q = index[s.tuid] /\ new = index'[s.tuid]
  OBVIOUS
<1>2. /\ s.tuid \in Tuids /\ p \in 1 .. Len(q) /\ q[p] = s /\ Len(rest) \in {0, 1}
      /\ \A t \in Tuids : t # s.tuid => index'[t] = index[t]
      /\ q \in Seq(Schedule) /\ new \in Seq(Schedule) /\ Replaced(q, p, rest, new)
  <2>1. s.tuid \in Tuids
    BY DEF Schedule
  <2>2. q \in Seq(Schedule)
    BY <1>1, <2>1, RecordsAreSchedules DEF Inv
  <2>3. /\ s.tuid \in Tuids /\ p \in 1 .. Len(index[s.tuid]) /\ index[s.tuid][p] = s
        /\ Len(rest) \in {0, 1}
        /\ \A t \in Tuids : t # s.tuid => index'[t] = index[t]
        /\ index'[s.tuid] \in Seq(Schedule)
        /\ Replaced(index[s.tuid], p, rest, index'[s.tuid])
    BY CutLists
  <2> QED BY <1>1, <2>2, <2>3
<1>3. \A t \in Tuids : \A i \in 1 .. Len(index[t]) :
        index[t][i].id = index[s.tuid][p].id => t = s.tuid /\ i = p
  BY <1>1, <1>2 DEF Inv, Apart
<1>4. \A m \in 1 .. Len(q) : q[m] = q[p] => m = p
  BY <1>1, <1>2, <1>3
<1>5. \A x : x \in ToSet(new) <=> (x \in ToSet(q) /\ x # s) \/ x \in ToSet(rest)
  <2> TAKE x
  <2>1. x \in ToSet(new) <=> (x \in ToSet(q) /\ x # q[p]) \/ x \in ToSet(rest)
    BY <1>2, <1>4, SetOfReplaced
  <2> QED BY <1>2, <2>1
<1>6. \A t \in Tuids : t # s.tuid => s \notin ToSet(index[t])
  <2> SUFFICES ASSUME NEW t \in Tuids, t # s.tuid, s \in ToSet(index[t]) PROVE FALSE
    OBVIOUS
  <2>1. PICK i \in 1 .. Len(index[t]) : index[t][i] = s
    BY RecordsAreSchedules, ElementsOf DEF Inv
  <2> QED BY <1>1, <1>2, <1>3, <2>1
<1>7. \A x : x \in RecordsOf(index)' <=> \E t \in Tuids : x \in ToSet(index'[t])
  BY DEF RecordsOf
<1>8. s \in RecordsOf(index)
  BY <1>1, <1>2, RecordsAreSchedules DEF Inv
<1>9. ASSUME e \in RecordsOf(index)'
      PROVE  (e \in RecordsOf(index) /\ e # s) \/ e \in ToSet(rest)
  <2>1. PICK t \in Tuids : e \in ToSet(index'[t])
    BY <1>7, <1>9
  <2>2. CASE t = s.tuid
    BY <1>1, <1>2, <1>5, <2>1, <2>2, RecordsAre
  <2>3. CASE t # s.tuid
    BY <1>2, <1>6, <2>1, <2>3, RecordsAre
  <2> QED BY <2>2, <2>3
<1>10. ASSUME e \in RecordsOf(index), e # s PROVE e \in RecordsOf(index)'
  <2>1. PICK t \in Tuids : e \in ToSet(index[t])
    BY <1>10, RecordsAre
  <2>2. CASE t = s.tuid
    BY <1>1, <1>2, <1>5, <1>7, <1>10, <2>1, <2>2
  <2>3. CASE t # s.tuid
    BY <1>2, <1>7, <2>1, <2>3
  <2> QED BY <2>2, <2>3
<1>11. ASSUME e \in ToSet(rest) PROVE e \in RecordsOf(index)'
  BY <1>1, <1>2, <1>5, <1>7, <1>11
<1>12. e \in ToSet(associated)' <=> e \in ToSet(associated) \/ e \in ToSet(coupled)
  <2>1. associated \in Seq(Schedule) /\ associated' = associated \o coupled
    BY DEF Inv, TypeOK, CutsInto
  <2>2. e \in ToSet(associated \o coupled)
          <=> e \in ToSet(associated) \/ e \in ToSet(coupled)
    BY <2>1, SetOfConcat
  <2>3. ToSet(associated)' = ToSet(associated \o coupled)
    BY <2>1 DEF ToSet
  <2> QED BY <2>2, <2>3
<1>13. s \notin ToSet(associated)
  <2>1. \A i \in 1 .. Len(associated) : index[s.tuid][p].id # associated[i].id
    BY <1>1, <1>2 DEF Inv, Apart
  <2>2. \A i \in 1 .. Len(associated) : associated[i] # s
    BY <1>1, <1>2, <2>1
  <2> QED BY <2>2, ElementsOf DEF Inv, TypeOK
<1>14. e \in Pieces' <=> e \in RecordsOf(index)' \/ e \in ToSet(associated)'
  BY DEF Pieces
<1>15. e \in Pieces <=> e \in RecordsOf(index) \/ e \in ToSet(associated)
  BY DEF Pieces
<1>16. e \in ToSet(index'[s.tuid])
         <=> (e \in ToSet(index[s.tuid]) /\ e # s) \/ e \in ToSet(rest)
  BY <1>1, <1>5
<1> QED BY <1>8, <1>9, <1>10, <1>11, <1>12, <1>13, <1>14, <1>15, <1>16
-----------------------------------------------------------------------------
(***************************************************************************)
(* The ids handed out: one after another, past every id there is.          *)
(***************************************************************************)
LEMMA CutIds ==
  ASSUME Inv, NEW s \in Schedule, NEW base \in Schedule, NEW d \in Schedule,
         NEW coupled \in Seq(Schedule), NEW rest \in Seq(Schedule), NEW p \in Nat,
         CutsInto(s, base, d, coupled, rest, p)
  PROVE  /\ nextId \in Nat /\ nextId' \in Nat /\ nextId < nextId'
         /\ Len(coupled) \in {1, 2} /\ Len(rest) \in {0, 1}
         /\ Len(coupled) \in Nat /\ Len(coupled) >= 1 /\ d.id = nextId
         /\ \A j \in 1 .. Len(coupled) :
              /\ coupled[j].id = nextId + j - 1 /\ coupled[j].id < nextId'
              /\ coupled[j].tuid = s.tuid
         /\ rest # <<>> => /\ rest[1].id = nextId + Len(coupled) /\ rest[1].id < nextId'
                           /\ rest[1].tuid = s.tuid
<1>1. nextId \in Nat
  BY DEF Inv, TypeOK
<1>2. nextId' = nextId + Len(coupled) + Len(rest)
  BY DEF CutsInto
<1>3. Len(coupled) \in {1, 2} /\ d.id = nextId /\ d.tuid = s.tuid
  BY DEF CutsInto
<1>4. Len(rest) \in {0, 1}
  BY DEF CutsInto
<1>5. nextId' \in Nat /\ nextId + Len(coupled) <= nextId'
  BY <1>1, <1>2, <1>3, <1>4
<1>6. ASSUME NEW j \in 1 .. Len(coupled)
      PROVE  coupled[j].id = nextId + j - 1 /\ coupled[j].tuid = s.tuid
  <2>1. CASE coupled = <<d>>
    <3>1. j = 1 /\ coupled[1] = d
      BY <2>1
    <3> QED BY <1>1, <1>3, <3>1
  <2>2. CASE /\ coupled = <<d, coupled[2]>>
             /\ coupled[2].id = nextId + 1
             /\ coupled[2].tuid = s.tuid
    <3>1. j \in {1, 2} /\ coupled[1] = d
      <4>1. PICK c : c = coupled[2]
        OBVIOUS
      <4>2. coupled = <<d, c>>
        BY <2>2, <4>1
      <4>3. coupled[1] = d
        BY <4>2
      <4>4. j = 1 \/ j = 2
        <5>1. j \in Int /\ 1 <= j /\ j <= Len(coupled)
          OBVIOUS
        <5>2. Len(coupled) = 1 \/ Len(coupled) = 2
          BY <1>3
        <5>3. CASE Len(coupled) = 1
          BY <5>1, <5>3
        <5>4. CASE Len(coupled) = 2
          BY <5>1, <5>4
        <5> QED BY <5>2, <5>3, <5>4
      <4> QED BY <4>3, <4>4
    <3> QED BY <1>1, <1>3, <2>2, <3>1, SMTT(20)
  <2> QED BY <2>1, <2>2 DEF CutsInto
<1>7. \A j \in 1 .. Len(coupled) : coupled[j].id < nextId'
  BY <1>1, <1>3, <1>5, <1>6
<1>8. rest # <<>> => /\ rest[1].id = nextId + Len(coupled) /\ rest[1].tuid = s.tuid
                     /\ Len(rest) = 1
  BY DEF CutsInto
<1>9. rest # <<>> => rest[1].id < nextId'
  BY <1>1, <1>2, <1>3, <1>8
<1>10. Len(coupled) \in Nat /\ Len(coupled) >= 1
  <2>1. Len(coupled) = 1 \/ Len(coupled) = 2
    BY <1>3
  <2>2. CASE Len(coupled) = 1
    BY <2>2
  <2>3. CASE Len(coupled) = 2
    BY <2>3
  <2> QED BY <2>1, <2>2, <2>3
<1> QED BY <1>1, <1>3, <1>4, <1>5, <1>6, <1>7, <1>8, <1>9, <1>10

LEMMA CutRecord ==
  ASSUME Inv, NEW s \in Schedule, NEW base \in Schedule, NEW d \in Schedule,
         NEW coupled \in Seq(Schedule), NEW rest \in Seq(Schedule), NEW p \in Nat,
         CutsInto(s, base, d, coupled, rest, p),
         NEW t \in Tuids, NEW k \in 1 .. Len(index'[t])
  PROVE  \/ t = s.tuid /\ k = p /\ rest # <<>> /\ index'[t][k] = rest[1]
         \/ /\ t = s.tuid /\ OldPlace(p, rest, k) \in 1 .. Len(index[t])
            /\ OldPlace(p, rest, k) # p
            /\ index'[t][k] = index[t][OldPlace(p, rest, k)]
         \/ t # s.tuid /\ k \in 1 .. Len(index[t]) /\ index'[t][k] = index[t][k]
<1>1. /\ \A u \in Tuids : u # s.tuid => index'[u] = index[u]
      /\ Replaced(index[s.tuid], p, rest, index'[s.tuid])
  BY CutLists
<1>2. CASE t # s.tuid
  BY <1>1, <1>2
<1>3. CASE t = s.tuid
  BY <1>1, <1>3 DEF Replaced
<1> QED BY <1>2, <1>3

LEMMA CutAssociated ==
  ASSUME Inv, NEW s \in Schedule, NEW base \in Schedule, NEW d \in Schedule,
         NEW coupled \in Seq(Schedule), NEW rest \in Seq(Schedule), NEW p \in Nat,
         CutsInto(s, base, d, coupled, rest, p)
  PROVE  /\ associated' \in Seq(Schedule)
         /\ Len(associated') = Len(associated) + Len(coupled)
         /\ \A k \in 1 .. Len(associated') :
              \/ k \in 1 .. Len(associated) /\ associated'[k] = associated[k]
              \/ /\ ~(k <= Len(associated)) /\ k - Len(associated) \in 1 .. Len(coupled)
                 /\ associated'[k] = coupled[k - Len(associated)]
<1>1. associated \in Seq(Schedule) /\ associated' = associated \o coupled
  BY DEF Inv, TypeOK, CutsInto
<1>2. PICK both : both = associated \o coupled
  OBVIOUS
<1>3. /\ both \in Seq(Schedule)
      /\ Len(both) = Len(associated) + Len(coupled)
      /\ \A k \in 1 .. Len(associated) + Len(coupled) :
           both[k] = IF k <= Len(associated) THEN associated[k]
                     ELSE coupled[k - Len(associated)]
  BY <1>1, <1>2, ConcatProperties
<1>4. Len(associated) \in Nat /\ Len(coupled) \in Nat
  BY <1>1
<1>5. ASSUME NEW k \in 1 .. Len(both)
      PROVE  \/ k \in 1 .. Len(associated) /\ both[k] = associated[k]
             \/ /\ ~(k <= Len(associated)) /\ k - Len(associated) \in 1 .. Len(coupled)
                /\ both[k] = coupled[k - Len(associated)]
  <2>1. k \in 1 .. Len(associated) + Len(coupled)
    BY <1>3
  <2>2. CASE k <= Len(associated)
    <3>1. k \in 1 .. Len(associated)
      BY <1>4, <2>1, <2>2
    <3> QED BY <1>3, <2>1, <2>2, <3>1
  <2>3. CASE ~(k <= Len(associated))
    <3>1. k - Len(associated) \in 1 .. Len(coupled)
      BY <1>4, <2>1, <2>3
    <3> QED BY <1>3, <2>1, <2>3, <3>1
  <2> QED BY <2>2, <2>3
<1>6. both = associated'
  BY <1>1, <1>2
<1> QED BY <1>3, <1>5, <1>6

LEMMA OldIds ==
  ASSUME Inv
  PROVE  /\ \A t \in Tuids : \A i \in 1 .. Len(index[t]) :
              index[t][i].id \in Nat /\ index[t][i].id < nextId
         /\ \A j \in 1 .. Len(associated) :
              associated[j].id \in Nat /\ associated[j].id < nextId
<1>1. \A e \in Pieces : e.id \in Nat /\ e.id < nextId
  BY PiecesAreSchedules DEF Inv, BelowNext, Schedule
<1>2. \A t \in Tuids : \A i \in 1 .. Len(index[t]) : index[t][i] \in Pieces
  BY RecordsAreSchedules DEF Inv, Pieces
<1>3. \A j \in 1 .. Len(associated) : associated[j] \in Pieces
  BY ElementsOf DEF Inv, TypeOK, Pieces
<1> QED BY <1>1, <1>2, <1>3

LEMMA CutApart ==
  ASSUME Inv, NEW s \in Schedule, NEW base \in Schedule, NEW d \in Schedule,
         NEW coupled \in Seq(Schedule), NEW rest \in Seq(Schedule), NEW p \in Nat,
         CutsInto(s, base, d, coupled, rest, p)
  PROVE  Apart'
<1>1. /\ nextId \in Nat /\ Len(coupled) \in {1, 2} /\ Len(rest) \in {0, 1}
      /\ \A j \in 1 .. Len(coupled) : coupled[j].id = nextId + j - 1
      /\ rest # <<>> => rest[1].id = nextId + Len(coupled)
  BY CutIds
<1>2. ASSUME NEW t \in Tuids, NEW u \in Tuids,
             NEW i \in 1 .. Len(index'[t]), NEW j \in 1 .. Len(index'[u]),
             index'[t][i].id = index'[u][j].id
      PROVE  t = u /\ i = j
  <2>1. \/ t = s.tuid /\ i = p /\ rest # <<>> /\ index'[t][i] = rest[1]
        \/ /\ t = s.tuid /\ OldPlace(p, rest, i) \in 1 .. Len(index[t])
           /\ index'[t][i] = index[t][OldPlace(p, rest, i)]
           /\ OldPlace(p, rest, i) # p
        \/ t # s.tuid /\ i \in 1 .. Len(index[t]) /\ index'[t][i] = index[t][i]
    BY CutRecord, SMTT(30)
  <2>2. \/ u = s.tuid /\ j = p /\ rest # <<>> /\ index'[u][j] = rest[1]
        \/ /\ u = s.tuid /\ OldPlace(p, rest, j) \in 1 .. Len(index[u])
           /\ index'[u][j] = index[u][OldPlace(p, rest, j)]
           /\ OldPlace(p, rest, j) # p
        \/ u # s.tuid /\ j \in 1 .. Len(index[u]) /\ index'[u][j] = index[u][j]
    BY CutRecord, SMTT(30)
  <2>3. PICK m, n : /\ m = IF t = s.tuid THEN OldPlace(p, rest, i) ELSE i
                    /\ n = IF u = s.tuid THEN OldPlace(p, rest, j) ELSE j
    OBVIOUS
  <2>4. \/ t = s.tuid /\ i = p /\ index'[t][i].id = nextId + Len(coupled)
        \/ m \in 1 .. Len(index[t]) /\ index'[t][i] = index[t][m] /\ (t = s.tuid => m # p)
    BY <1>1, <2>1, <2>3
  <2>5. \/ u = s.tuid /\ j = p /\ index'[u][j].id = nextId + Len(coupled)
        \/ n \in 1 .. Len(index[u]) /\ index'[u][j] = index[u][n] /\ (u = s.tuid => n # p)
    BY <1>1, <2>2, <2>3
  <2>6. \A v \in Tuids : \A x \in 1 .. Len(index[v]) :
          index[v][x].id \in Nat /\ index[v][x].id # nextId + Len(coupled)
    BY <1>1, OldIds
  <2>7. CASE /\ m \in 1 .. Len(index[t]) /\ index'[t][i] = index[t][m]
             /\ t = s.tuid => m # p
             /\ n \in 1 .. Len(index[u]) /\ index'[u][j] = index[u][n]
             /\ u = s.tuid => n # p
    <3>1. t = u /\ m = n
      BY <1>2, <2>7 DEF Inv, Apart
    <3>2. i \in Nat /\ j \in Nat
      OBVIOUS
    <3>3. CASE t = s.tuid
      <4>1. OldPlace(p, rest, i) = OldPlace(p, rest, j) /\ OldPlace(p, rest, i) # p
        BY <2>3, <2>7, <3>1, <3>3
      <4>2. i = j
        BY <1>1, <3>2, <4>1 DEF OldPlace
      <4> QED BY <3>1, <4>2
    <3> QED BY <2>3, <3>1, <3>3
  <2> QED BY <1>2, <2>4, <2>5, <2>6, <2>7
<1>3. \A k \in 1 .. Len(associated') :
        \/ k \in 1 .. Len(associated) /\ associated'[k] = associated[k]
        \/ /\ k - Len(associated) \in 1 .. Len(coupled)
           /\ associated'[k].id = nextId + (k - Len(associated)) - 1
  <2>1. /\ Len(associated') = Len(associated) + Len(coupled)
        /\ \A k \in 1 .. Len(associated') :
             \/ k \in 1 .. Len(associated) /\ associated'[k] = associated[k]
             \/ /\ ~(k <= Len(associated)) /\ k - Len(associated) \in 1 .. Len(coupled)
                /\ associated'[k] = coupled[k - Len(associated)]
    BY CutAssociated
  <2> QED BY <1>1, <2>1
<1>4. /\ Len(associated) \in Nat
      /\ \A x \in 1 .. Len(associated) : associated[x].id \in Nat /\ associated[x].id < nextId
  BY OldIds DEF Inv, TypeOK
<1>5. ASSUME NEW i \in 1 .. Len(associated'), NEW j \in 1 .. Len(associated'),
             associated'[i].id = associated'[j].id
      PROVE  i = j
  <2>1. i \in Int /\ j \in Int
    OBVIOUS
  <2>2. CASE i \in 1 .. Len(associated) /\ j \in 1 .. Len(associated)
    <3>1. associated'[i] = associated[i] /\ associated'[j] = associated[j]
      BY <1>1, <1>3, <1>4, <2>2
    <3> QED BY <1>5, <2>2, <3>1 DEF Inv, Apart
  <2>3. CASE i \notin 1 .. Len(associated)
    <3>1. /\ i - Len(associated) \in 1 .. Len(coupled)
          /\ associated'[i].id = nextId + (i - Len(associated)) - 1
      BY <1>3, <2>3
    <3>2. associated'[i].id >= nextId
      BY <1>1, <1>4, <2>1, <3>1
    <3>3. ~(j \in 1 .. Len(associated) /\ associated'[j] = associated[j])
      <4> SUFFICES ASSUME j \in 1 .. Len(associated), associated'[j] = associated[j]
                   PROVE  FALSE
        OBVIOUS
      <4>1. associated[j].id \in Nat /\ associated[j].id < nextId
        BY <1>4
      <4>2. associated[j].id >= nextId
        BY <1>5, <3>2
      <4> QED BY <1>1, <4>1, <4>2
    <3>4. associated'[j].id = nextId + (j - Len(associated)) - 1
      BY <1>3, <3>3
    <3>5. nextId + (i - Len(associated)) - 1 = nextId + (j - Len(associated)) - 1
      BY <1>5, <3>1, <3>4
    <3> QED BY <1>1, <1>4, <2>1, <3>5
  <2>4. CASE j \notin 1 .. Len(associated)
    <3>1. /\ j - Len(associated) \in 1 .. Len(coupled)
          /\ associated'[j].id = nextId + (j - Len(associated)) - 1
      BY <1>3, <2>4
    <3>2. associated'[j].id >= nextId
      BY <1>1, <1>4, <2>1, <3>1
    <3>3. ~(i \in 1 .. Len(associated) /\ associated'[i] = associated[i])
      <4> SUFFICES ASSUME i \in 1 .. Len(associated), associated'[i] = associated[i]
                   PROVE  FALSE
        OBVIOUS
      <4>1. associated[i].id \in Nat /\ associated[i].id < nextId
        BY <1>4
      <4>2. associated[i].id >= nextId
        BY <1>5, <3>2
      <4> QED BY <1>1, <4>1, <4>2
    <3>4. associated'[i].id = nextId + (i - Len(associated)) - 1
      BY <1>3, <3>3
    <3>5. nextId + (i - Len(associated)) - 1 = nextId + (j - Len(associated)) - 1
      BY <1>5, <3>1, <3>4
    <3> QED BY <1>1, <1>4, <2>1, <3>5
  <2> QED BY <2>2, <2>3, <2>4
<1>6. ASSUME NEW t \in Tuids, NEW i \in 1 .. Len(index'[t]),
             NEW j \in 1 .. Len(associated')
      PROVE  index'[t][i].id # associated'[j].id
  <2>1. \/ index'[t][i].id = nextId + Len(coupled)
        \/ \E m \in 1 .. Len(index[t]) : index'[t][i] = index[t][m]
    <3>1. \/ t = s.tuid /\ i = p /\ rest # <<>> /\ index'[t][i] = rest[1]
          \/ /\ t = s.tuid /\ OldPlace(p, rest, i) \in 1 .. Len(index[t])
             /\ index'[t][i] = index[t][OldPlace(p, rest, i)]
             /\ OldPlace(p, rest, i) # p
          \/ t # s.tuid /\ i \in 1 .. Len(index[t]) /\ index'[t][i] = index[t][i]
      BY CutRecord, SMTT(30)
    <3> QED BY <1>1, <3>1
  <2>2. \/ j \in 1 .. Len(associated) /\ associated'[j] = associated[j]
        \/ associated'[j].id >= nextId /\ associated'[j].id < nextId + Len(coupled)
    <3>1. \/ j \in 1 .. Len(associated) /\ associated'[j] = associated[j]
          \/ /\ j - Len(associated) \in 1 .. Len(coupled)
             /\ associated'[j].id = nextId + (j - Len(associated)) - 1
      BY <1>3
    <3>2. PICK k : k = j - Len(associated)
      OBVIOUS
    <3>3. CASE k \in 1 .. Len(coupled) /\ associated'[j].id = nextId + k - 1
      <4>1. nextId \in Nat /\ Len(coupled) \in Nat
        BY <1>1
      <4> QED BY <3>3, <4>1
    <3> QED BY <3>1, <3>2, <3>3
  <2>3. \A m \in 1 .. Len(index[t]) :
          index[t][m].id \in Nat /\ index[t][m].id < nextId
    BY OldIds
  <2>6. CASE index'[t][i].id = nextId + Len(coupled)
    BY <1>1, <1>4, <2>2, <2>6
  <2>7. CASE \E m \in 1 .. Len(index[t]) : index'[t][i] = index[t][m]
    <3>1. PICK m \in 1 .. Len(index[t]) : index'[t][i] = index[t][m]
      BY <2>7
    <3>2. CASE j \in 1 .. Len(associated) /\ associated'[j] = associated[j]
      BY <3>1, <3>2 DEF Inv, Apart
    <3>3. CASE associated'[j].id >= nextId
      BY <1>1, <2>3, <3>1, <3>3, SMTT(20)
    <3> QED BY <2>2, <3>2, <3>3
  <2> QED BY <2>1, <2>6, <2>7
<1> QED BY <1>2, <1>5, <1>6 DEF Apart

LEMMA PiecesApart ==
  ASSUME Inv, NEW one \in Pieces, NEW other \in Pieces, one.id = other.id
  PROVE  one = other
<1>1. ASSUME NEW e \in Pieces
      PROVE  \/ \E t \in Tuids : \E i \in 1 .. Len(index[t]) : e = index[t][i]
             \/ \E j \in 1 .. Len(associated) : e = associated[j]
  <2>1. CASE e \in RecordsOf(index)
    <3>1. PICK t \in Tuids : e \in ToSet(index[t])
      BY <2>1, RecordsAre
    <3>2. PICK i \in 1 .. Len(index[t]) : index[t][i] = e
      BY <3>1, RecordsAreSchedules, ElementsOf DEF Inv
    <3> QED BY <3>2
  <2>2. CASE e \in ToSet(associated)
    BY <2>2, ElementsOf DEF Inv, TypeOK
  <2> QED BY <2>1, <2>2 DEF Pieces
<1>2. CASE \E t \in Tuids : \E i \in 1 .. Len(index[t]) : one = index[t][i]
  <2>1. PICK t \in Tuids, i \in Int : i \in 1 .. Len(index[t]) /\ one = index[t][i]
    BY <1>2
  <2>2. CASE \E u \in Tuids : \E j \in 1 .. Len(index[u]) : other = index[u][j]
    BY <2>1, <2>2 DEF Inv, Apart
  <2>3. CASE \E j \in 1 .. Len(associated) : other = associated[j]
    BY <2>1, <2>3 DEF Inv, Apart
  <2> QED BY <1>1, <2>2, <2>3
<1>3. CASE \E i \in 1 .. Len(associated) : one = associated[i]
  <2>1. PICK i \in 1 .. Len(associated) : one = associated[i]
    BY <1>3
  <2>2. CASE \E u \in Tuids : \E j \in 1 .. Len(index[u]) : other = index[u][j]
    BY <2>1, <2>2 DEF Inv, Apart
  <2>3. CASE \E j \in 1 .. Len(associated) : other = associated[j]
    BY <2>1, <2>3 DEF Inv, Apart
  <2> QED BY <1>1, <2>2, <2>3
<1> QED BY <1>1, <1>2, <1>3

LEMMA CutPieces ==
  ASSUME Inv, NEW s \in Schedule, NEW base \in Schedule, NEW d \in Schedule,
         NEW coupled \in Seq(Schedule), NEW rest \in Seq(Schedule), NEW p \in Nat,
         CutsInto(s, base, d, coupled, rest, p), NEW e
  PROVE  /\ coupled[1] = d /\ s \in Pieces
         /\ e \in Pieces' <=> \/ e \in Pieces /\ e # s
                              \/ e = d
                              \/ Len(coupled) = 2 /\ e = coupled[2]
                              \/ rest # <<>> /\ e = rest[1]
         /\ e \in Pieces /\ e # s => e.id \in Nat /\ e.id < nextId
         /\ e \in Pieces' => e.id < nextId'
<1>1. e \in ToSet(rest) <=> rest # <<>> /\ e = rest[1]
  <2>1. Len(rest) \in {0, 1}
    BY CutIds
  <2> QED BY <2>1, SetOfRest
<1>2. coupled[1] = d
  <2>1. CASE coupled = <<d>>
    BY <2>1
  <2>2. CASE coupled = <<d, coupled[2]>>
    <3>1. PICK c : c = coupled[2]
      OBVIOUS
    <3>2. coupled = <<d, c>>
      BY <2>2, <3>1
    <3> QED BY <3>2
  <2> QED BY <2>1, <2>2 DEF CutsInto
<1>3. e \in ToSet(coupled) <=> e = d \/ (Len(coupled) = 2 /\ e = coupled[2])
  <2>1. e \in ToSet(coupled) <=> \E j \in 1 .. Len(coupled) : coupled[j] = e
    BY ElementsOf
  <2>2. Len(coupled) = 1 \/ Len(coupled) = 2
    BY CutIds
  <2>3. CASE Len(coupled) = 1
    BY <1>2, <2>1, <2>3
  <2>4. CASE Len(coupled) = 2
    <3>1. \A j : j \in 1 .. Len(coupled) <=> j = 1 \/ j = 2
      BY <2>4
    <3> QED BY <1>2, <2>1, <2>4, <3>1
  <2> QED BY <2>2, <2>3, <2>4
<1>4. /\ e \in Pieces'
           <=> (e \in Pieces /\ e # s) \/ e \in ToSet(rest) \/ e \in ToSet(coupled)
      /\ s \in RecordsOf(index)
  BY CutSets
<1>5. ASSUME e \in Pieces PROVE e.id \in Nat /\ e.id < nextId
  BY <1>5, PiecesAreSchedules DEF Inv, BelowNext, Schedule
<1>6. /\ nextId \in Nat /\ nextId' \in Nat /\ nextId < nextId'
      /\ Len(coupled) \in {1, 2}
      /\ \A j \in 1 .. Len(coupled) : coupled[j].id < nextId'
      /\ rest # <<>> => rest[1].id < nextId'
  BY CutIds
<1>7. ASSUME e \in Pieces' PROVE e.id < nextId'
  <2>1. CASE e \in Pieces
    BY <1>5, <1>6, <2>1
  <2>2. CASE e \in ToSet(rest)
    BY <1>1, <1>6, <2>2
  <2>3. CASE e \in ToSet(coupled)
    <3>1. PICK j \in 1 .. Len(coupled) : coupled[j] = e
      BY <2>3, ElementsOf
    <3> QED BY <1>6, <3>1
  <2> QED BY <1>4, <1>7, <2>1, <2>2, <2>3
<1>8. s \in Pieces
  BY <1>4 DEF Pieces
<1> QED BY <1>1, <1>2, <1>3, <1>4, <1>5, <1>7, <1>8

LEMMA CutTypes ==
  ASSUME Inv, NEW s \in Schedule, NEW base \in Schedule, NEW d \in Schedule,
         NEW coupled \in Seq(Schedule), NEW rest \in Seq(Schedule), NEW p \in Nat,
         CutsInto(s, base, d, coupled, rest, p)
  PROVE  TypeOK'
<1>1. index' \in [Tuids -> Seq(Schedule)]
  <2>1. /\ s.tuid \in Tuids
        /\ \A t \in Tuids : t # s.tuid => index'[t] = index[t]
        /\ index'[s.tuid] \in Seq(Schedule)
    BY CutLists
  <2>2. index \in [Tuids -> Seq(Schedule)]
        /\ index' = [index EXCEPT ![s.tuid] = Splice(index[s.tuid], p, rest)]
    BY DEF Inv, TypeOK, CutsInto
  <2> QED BY <2>1, <2>2
<1>2. matching' \subseteq ToSet(index'[association'.assoc])
  <2>1. matching' = matching \ {s} /\ association' = association
        /\ s.tuid = association.assoc
    BY DEF CutsInto
  <2>2. \A e : e \in ToSet(index'[s.tuid])
                 <=> (e \in ToSet(index[s.tuid]) /\ e # s) \/ e \in ToSet(rest)
    BY CutSets
  <2> QED BY <2>1, <2>2 DEF Inv, TypeOK
<1>3. links' \subseteq Link
  <2>1. PICK e : e = coupled[Len(coupled)]
    OBVIOUS
  <2>2. e \in Schedule
    <3>1. Len(coupled) \in Nat /\ Len(coupled) >= 1
      BY CutIds
    <3>2. Len(coupled) \in 1 .. Len(coupled)
      BY <3>1
    <3> QED BY <2>1, <3>2, ElementOfSeq
  <2>3. association.type \in {"JJ", "VV"} /\ association.location \in Locations
    BY AssociationsAssumption DEF Inv, TypeOK, CutsInto, Association
  <2>4. LinkOf(association, base, e) \in Link
    BY <2>2, <2>3 DEF LinkOf, Link, Schedule
  <2>5. links' = links \cup {LinkOf(association, base, e)}
    BY <2>1 DEF CutsInto
  <2> QED BY <2>4, <2>5 DEF Inv, TypeOK
<1>4. associated' \in Seq(Schedule)
  BY CutAssociated
<1>5. nextId' \in Nat
  BY CutIds
<1>6. UNCHANGED <<duplicateOvernight, todo, association, phase, trips>>
  BY DEF CutsInto
<1> QED BY <1>1, <1>2, <1>3, <1>4, <1>5, <1>6 DEF Inv, TypeOK

LEMMA CutOthers ==
  ASSUME Inv, NEW s \in Schedule, NEW base \in Schedule, NEW d \in Schedule,
         NEW coupled \in Seq(Schedule), NEW rest \in Seq(Schedule), NEW p \in Nat,
         CutsInto(s, base, d, coupled, rest, p)
  PROVE  UnderTheirTuid' /\ BelowNext' /\ NothingCopied' /\ AllPushed' /\ BasesStay'
<1>1. phase = "schedules" /\ phase' = "schedules" /\ Applying
  BY DEF CutsInto, Applying
<1>2. ASSUME NEW t \in Tuids, NEW k \in 1 .. Len(index'[t])
      PROVE  index'[t][k].tuid = t
  <2>1. rest # <<>> => rest[1].tuid = s.tuid
    BY CutIds
  <2>2. \/ t = s.tuid /\ k = p /\ rest # <<>> /\ index'[t][k] = rest[1]
        \/ /\ t = s.tuid /\ OldPlace(p, rest, k) \in 1 .. Len(index[t])
           /\ OldPlace(p, rest, k) # p
           /\ index'[t][k] = index[t][OldPlace(p, rest, k)]
        \/ t # s.tuid /\ k \in 1 .. Len(index[t]) /\ index'[t][k] = index[t][k]
    BY CutRecord, SMTT(30)
  <2> QED BY <2>1, <2>2 DEF Inv, UnderTheirTuid
<1>3. UnderTheirTuid'
  BY <1>2 DEF UnderTheirTuid
<1>4. BelowNext'
  BY CutPieces DEF BelowNext
<1>5. ASSUME NEW e \in RecordsOf(index)' PROVE e.departs # "past24"
  <2>1. /\ (e \in RecordsOf(index) /\ e # s) \/ e \in ToSet(rest)
        /\ s \in RecordsOf(index)
    BY CutSets
  <2>2. \A x \in RecordsOf(index) : x.departs # "past24"
    BY <1>1 DEF Inv, NothingCopied
  <2>3. CASE e \in ToSet(rest)
    <3>1. Len(rest) \in {0, 1}
      BY CutIds
    <3>2. rest # <<>> /\ e = rest[1]
      BY <2>3, <3>1, SetOfRest
    <3>3. rest[1].departs = s.departs
      BY <3>2 DEF CutsInto
    <3> QED BY <2>1, <2>2, <3>2, <3>3
  <2> QED BY <2>1, <2>2, <2>3
<1>6. NothingCopied'
  BY <1>5 DEF NothingCopied
<1>7. AllPushed' /\ BasesStay'
  BY <1>1 DEF AllPushed, Over, BasesStay
<1> QED BY <1>3, <1>4, <1>6, <1>7

(***************************************************************************)
(* What is made: the link's record is the one the link says it is.  It is  *)
(* the coupled one, or its copy, and the days it is coupled are dated as d *)
(* dates them.                                                             *)
(***************************************************************************)
LEMMA NewLink ==
  ASSUME Inv, NEW s \in Schedule, NEW base \in Schedule, NEW d \in Schedule,
         NEW coupled \in Seq(Schedule), NEW rest \in Seq(Schedule), NEW p \in Nat,
         CutsInto(s, base, d, coupled, rest, p),
         NEW link, link = LinkOf(association, base, coupled[Len(coupled)])
  PROVE  /\ AssocEnd(link) >= nextId /\ BaseEnd(link) < nextId
         /\ \E e \in Pieces' : /\ Couples(link, e, association)'
                               /\ WithBase(link, e, association)'
                               /\ CopyOf(e)'
<1>1. PICK e : e = coupled[Len(coupled)]
  OBVIOUS
<1>2. /\ nextId \in Nat /\ nextId < nextId' /\ Len(coupled) \in {1, 2}
      /\ Len(coupled) \in Nat /\ Len(coupled) >= 1 /\ d.id = nextId
      /\ \A j \in 1 .. Len(coupled) :
           coupled[j].id = nextId + j - 1 /\ coupled[j].tuid = s.tuid
      /\ rest # <<>> => rest[1].id = nextId + Len(coupled)
  BY CutIds
<1>3. /\ coupled[1] = d /\ s \in Pieces
      /\ \A x : x \in Pieces' <=> \/ x \in Pieces /\ x # s
                                  \/ x = d
                                  \/ Len(coupled) = 2 /\ x = coupled[2]
                                  \/ rest # <<>> /\ x = rest[1]
      /\ \A x : x \in Pieces /\ x # s => x.id \in Nat /\ x.id < nextId
  BY CutPieces
<1>4. Len(coupled) \in 1 .. Len(coupled) /\ e.id = nextId + Len(coupled) - 1
      /\ e.tuid = s.tuid /\ d.id = nextId
  BY <1>1, <1>2, <1>3
<1>5. /\ s.tuid = association.assoc /\ base.tuid = association.base
      /\ base \in RecordsOf(index) /\ association.type \in {"JJ", "VV"}
      /\ InBaseDays(association, d.calendar) = Coupled(association, base, s)
      /\ RunDays(Coupled(association, base, s)) # {}
      /\ d.departs = s.departs /\ phase = "schedules"
      /\ association' = association
  BY DEF CutsInto
<1>6. base \in Pieces /\ base.id \in Nat /\ base.id < nextId
  BY <1>5, PiecesAreSchedules DEF Pieces, Inv, BelowNext, Schedule
<1>7. /\ AssocEnd(link) = e.id /\ BaseEnd(link) = base.id
      /\ link.location = association.location /\ link.type = association.type
  BY <1>1, <1>5 DEF LinkOf, AssocEnd, BaseEnd
<1>8. association \in Associations /\ association \in Association
  BY AssociationsAssumption DEF Inv, TypeOK
<1>9. /\ e \in Pieces' /\ e \in ToSet(associated)'
      /\ InRecordDays(e) = d.calendar
      /\ e.departs = "past24" =>
           /\ e.id = nextId + 1 /\ d.calendar = ShiftForward(e.calendar)
           /\ ~IsLateNight(d) /\ DayOffset(association) + DayShift(base) = 1
  <2>1. e \in ToSet(coupled)
    BY <1>1, <1>4, ElementsOf
  <2>2. e \in ToSet(associated)' /\ e \in Pieces'
    BY <2>1, CutSets
  <2>3. CASE Len(coupled) = 1
    <3>1. e = d
      BY <1>1, <1>3, <2>3
    <3>2. s.departs # "past24"
      BY <1>5, CutSets DEF Inv, NothingCopied, Applying
    <3> QED BY <1>5, <2>2, <3>1, <3>2 DEF InRecordDays
  <2>4. CASE Len(coupled) = 2
    <3>1. e = coupled[2] /\ coupled # <<d>>
      BY <1>1, <2>4
    <3>2. /\ e.departs = "past24" /\ ShiftForward(e.calendar) = d.calendar
          /\ ~IsLateNight(d) /\ DayOffset(association) + DayShift(base) = 1
      BY <3>1 DEF CutsInto
    <3> QED BY <1>2, <1>4, <2>2, <2>4, <3>2 DEF InRecordDays
  <2> QED BY <1>2, <2>3, <2>4
<1>10. /\ RunDays(InBaseDays(association, InRecordDays(e))) # {}
       /\ RunDays(InBaseDays(association, InRecordDays(e)))
            \subseteq RunDays(association.calendar) \cap RunDays(base.calendar)
  <2>1. RunDays(Coupled(association, base, s))
          = RunDays(base.calendar) \cap RunDays(InBaseDays(association, s.calendar))
              \cap RunDays(association.calendar)
    BY <1>8, CoupledDays
  <2> QED BY <1>5, <1>9, <2>1
<1>11. Couples(link, e, association)'
  BY <1>4, <1>5, <1>7, <1>9, <1>10 DEF Couples
<1>12. WithBase(link, e, association)'
  <2>1. ASSUME NEW b \in Pieces', b.id = base.id PROVE b = base
    <3>1. b \in Pieces
      <4>1. b # d
        BY <1>4, <1>6, <2>1
      <4>2. ~(Len(coupled) = 2 /\ b = coupled[2])
        BY <1>2, <1>6, <2>1, SMTT(20)
      <4>3. ~(rest # <<>> /\ b = rest[1])
        BY <1>2, <1>6, <2>1
      <4> QED BY <1>3, <2>1, <4>1, <4>2, <4>3
    <3> QED BY <1>6, <2>1, <3>1, PiecesApart
  <2> QED BY <1>5, <1>7, <1>9, <1>10, <2>1 DEF WithBase
<1>13. CopyOf(e)'
  <2> SUFFICES ASSUME e.departs = "past24", NEW x \in Pieces', x.id = e.id - 1
               PROVE  x.calendar = ShiftForward(e.calendar) /\ ~IsLateNight(x)
    BY DEF CopyOf
  <2>1. x.id = nextId
    BY <1>2, <1>9
  <2>2. x = d
    <3>1. ~(x \in Pieces /\ x # s)
      BY <1>2, <1>3, <2>1
    <3>2. ~(Len(coupled) = 2 /\ x = coupled[2])
      BY <1>2, <2>1
    <3>3. ~(rest # <<>> /\ x = rest[1])
      BY <1>2, <2>1
    <3> QED BY <1>3, <3>1, <3>2, <3>3
  <2> QED BY <1>9, <2>2
<1> QED BY <1>2, <1>4, <1>6, <1>7, <1>9, <1>11, <1>12, <1>13

(***************************************************************************)
(* What was there: a link made before stays as it was, since a record with *)
(* an id below nextId is an old one, and coupled ones are never cut.       *)
(***************************************************************************)
LEMMA OldLink ==
  ASSUME Inv, NEW s \in Schedule, NEW base \in Schedule, NEW d \in Schedule,
         NEW coupled \in Seq(Schedule), NEW rest \in Seq(Schedule), NEW p \in Nat,
         CutsInto(s, base, d, coupled, rest, p), NEW link \in links
  PROVE  /\ AssocEnd(link) < nextId /\ BaseEnd(link) < nextId
         /\ \E e \in Pieces', a \in Associations : /\ Couples(link, e, a)'
                                                   /\ WithBase(link, e, a)'
                                                   /\ CopyOf(e)'
<1>1. PICK e \in Pieces, a \in Associations :
        Couples(link, e, a) /\ WithBase(link, e, a) /\ CopyOf(e)
  BY DEF Inv, LinksHold
<1>2. BaseEnd(link) < nextId /\ BaseEnd(link) \in Int
  BY DEF Inv, LinksHold, TypeOK, Link, BaseEnd
<1>3. Applying /\ nextId \in Nat
  BY DEF CutsInto, Applying, Inv, TypeOK
<1>4. e.id = AssocEnd(link) /\ e.id \in Nat /\ e.id < nextId
  BY <1>1, PiecesAreSchedules DEF Couples, Inv, BelowNext, Schedule
<1>5. e \in ToSet(associated)' /\ e \in Pieces'
  <2>1. e \in ToSet(associated)
    BY <1>1, <1>3 DEF Couples
  <2>2. e \in ToSet(associated)'
    BY <2>1, CutSets
  <2> QED BY <2>2 DEF Pieces
<1>6. ASSUME NEW x \in Pieces', x.id < nextId PROVE x \in Pieces
  <2>1. /\ nextId \in Nat /\ Len(coupled) \in Nat /\ d.id = nextId
        /\ \A j \in 1 .. Len(coupled) : coupled[j].id = nextId + j - 1
        /\ rest # <<>> => rest[1].id = nextId + Len(coupled)
    BY CutIds
  <2>2. /\ coupled[1] = d
        /\ \/ x \in Pieces /\ x # s
           \/ x = d
           \/ Len(coupled) = 2 /\ x = coupled[2]
           \/ rest # <<>> /\ x = rest[1]
    BY CutPieces
  <2>3. x # d
    BY <1>6, <2>1, <2>2
  <2>4. ~(Len(coupled) = 2 /\ x = coupled[2])
    BY <1>6, <2>1
  <2>5. ~(rest # <<>> /\ x = rest[1])
    BY <1>6, <2>1
  <2> QED BY <2>2, <2>3, <2>4, <2>5
<1>7. Couples(link, e, a)'
  BY <1>1, <1>5 DEF Couples
<1>8. WithBase(link, e, a)'
  BY <1>1, <1>2, <1>6 DEF WithBase
<1>9. CopyOf(e)'
  <2> SUFFICES ASSUME e.departs = "past24", NEW x \in Pieces', x.id = e.id - 1
               PROVE  x.calendar = ShiftForward(e.calendar) /\ ~IsLateNight(x)
    BY DEF CopyOf
  <2>1. x.id < nextId
    BY <1>3, <1>4
  <2> QED BY <1>1, <1>6, <2>1 DEF CopyOf
<1> QED BY <1>2, <1>4, <1>5, <1>7, <1>8, <1>9

LEMMA CutLinks ==
  ASSUME Inv, NEW s \in Schedule, NEW base \in Schedule, NEW d \in Schedule,
         NEW coupled \in Seq(Schedule), NEW rest \in Seq(Schedule), NEW p \in Nat,
         CutsInto(s, base, d, coupled, rest, p)
  PROVE  LinksHold' /\ EndsApart'
<1>1. PICK new : new = LinkOf(association, base, coupled[Len(coupled)])
  OBVIOUS
<1>2. links' = links \cup {new} /\ association \in Associations
  BY <1>1 DEF CutsInto, Inv, TypeOK
<1>3. nextId \in Nat /\ nextId' \in Nat /\ nextId < nextId'
  BY CutIds
<1>4. /\ AssocEnd(new) >= nextId /\ BaseEnd(new) < nextId
      /\ \E e \in Pieces' : /\ Couples(new, e, association)'
                            /\ WithBase(new, e, association)'
                            /\ CopyOf(e)'
  BY <1>1, NewLink
<1>5. \A link \in links :
        /\ AssocEnd(link) < nextId /\ BaseEnd(link) < nextId
        /\ \E e \in Pieces', a \in Associations : /\ Couples(link, e, a)'
                                                  /\ WithBase(link, e, a)'
                                                  /\ CopyOf(e)'
  BY OldLink
<1>6. ASSUME NEW link \in links'
      PROVE  /\ BaseEnd(link) < nextId'
             /\ \E e \in Pieces', a \in Associations : /\ Couples(link, e, a)'
                                                       /\ WithBase(link, e, a)'
                                                       /\ CopyOf(e)'
  <2>1. BaseEnd(link) < nextId /\ BaseEnd(link) \in Nat
    <3>1. links' \subseteq Link
      BY CutTypes DEF TypeOK
    <3> QED BY <1>2, <1>4, <1>5, <3>1 DEF Link, BaseEnd
  <2>2. BaseEnd(link) < nextId'
    BY <1>3, <2>1
  <2>3. CASE link \in links
    BY <1>5, <2>2, <2>3
  <2>4. CASE link = new
    <3>1. \E e \in Pieces' : /\ Couples(link, e, association)'
                              /\ WithBase(link, e, association)'
                              /\ CopyOf(e)'
      BY <1>4, <2>4
    <3>2. association' = association
      BY DEF CutsInto
    <3>3. PICK a \in Associations : a = association
      BY <1>2
    <3>4. \E e \in Pieces' : /\ Couples(link, e, a)'
                              /\ WithBase(link, e, a)'
                              /\ CopyOf(e)'
      BY <3>1, <3>2, <3>3
    <3> QED BY <2>2, <3>4
  <2> QED BY <1>2, <2>3, <2>4
<1>7. LinksHold'
  BY <1>6 DEF LinksHold
<1>8. EndsApart'
  <2> SUFFICES ASSUME NEW link \in links', NEW other \in links',
                      AssocEnd(other) = AssocEnd(link)
               PROVE  other = link
    BY DEF EndsApart
  <2>1. AssocEnd(link) \in Nat /\ AssocEnd(other) \in Nat
    BY CutTypes DEF TypeOK, Link, AssocEnd
  <2>2. (link \in links /\ other \in links) \/ (link = new /\ other = new)
    BY <1>2, <1>3, <1>4, <1>5, <2>1
  <2> QED BY <2>2 DEF Inv, EndsApart
<1> QED BY <1>7, <1>8
-----------------------------------------------------------------------------
(***************************************************************************)
(* Where no record is made or lost, what is said of the records stays.     *)
(***************************************************************************)
LEMMA SameRecords ==
  ASSUME Inv, Pieces' = Pieces, nextId' = nextId, links' \subseteq links,
         Applying' => Applying /\ associated' = associated
  PROVE  BelowNext' /\ LinksHold' /\ EndsApart'
<1>1. BelowNext'
  BY DEF Inv, BelowNext
<1>2. EndsApart'
  BY DEF Inv, EndsApart
<1>3. ASSUME NEW link \in links'
      PROVE  /\ BaseEnd(link) < nextId'
             /\ \E e \in Pieces', a \in Associations : /\ Couples(link, e, a)'
                                                       /\ WithBase(link, e, a)'
                                                       /\ CopyOf(e)'
  <2>1. PICK e \in Pieces, a \in Associations :
          Couples(link, e, a) /\ WithBase(link, e, a) /\ CopyOf(e)
    BY DEF Inv, LinksHold
  <2>2. Couples(link, e, a)'
    <3>1. Applying' => e \in ToSet(associated)'
      BY <2>1 DEF Couples, ToSet
    <3> QED BY <2>1, <3>1 DEF Couples
  <2>3. WithBase(link, e, a)' /\ CopyOf(e)'
    BY <2>1 DEF WithBase, CopyOf
  <2> QED BY <2>1, <2>2, <2>3 DEF Inv, LinksHold
<1> QED BY <1>1, <1>2, <1>3 DEF LinksHold

LEMMA PushedLists ==
  ASSUME Inv, PushAssociated
  PROVE  /\ associated' \in Seq(Schedule) /\ Len(associated) \in Nat \ {0}
         /\ Len(associated') = Len(associated) - 1
         /\ \A j \in 1 .. Len(associated') :
              j + 1 \in 1 .. Len(associated) /\ associated'[j] = associated[j + 1]
         /\ associated[1] \in Schedule /\ associated[1].tuid \in Tuids
         /\ index' \in [Tuids -> Seq(Schedule)]
         /\ \A t \in Tuids :
              /\ \A i \in 1 .. Len(index'[t]) :
                   \/ i \in 1 .. Len(index[t]) /\ index'[t][i] = index[t][i]
                   \/ /\ t = associated[1].tuid /\ i = Len(index[t]) + 1
                      /\ index'[t][i] = associated[1]
              /\ \A i \in 1 .. Len(index[t]) :
                   i \in 1 .. Len(index'[t]) /\ index'[t][i] = index[t][i]
         /\ \E i \in 1 .. Len(index'[associated[1].tuid]) :
              index'[associated[1].tuid][i] = associated[1]
<1>1. /\ associated \in Seq(Schedule) /\ associated # <<>>
      /\ associated' = Tail(associated)
      /\ index \in [Tuids -> Seq(Schedule)]
      /\ index' = [index EXCEPT ![Head(associated).tuid] = Append(@, Head(associated))]
  BY DEF Inv, TypeOK, PushAssociated
<1>2. /\ Head(associated) \in Schedule
      /\ Tail(associated) \in Seq(Schedule)
      /\ Len(Tail(associated)) = Len(associated) - 1
      /\ \A j \in 1 .. Len(Tail(associated)) : Tail(associated)[j] = associated[j + 1]
  BY <1>1, HeadTailProperties
<1>3. Len(associated) \in Nat \ {0}
  BY <1>1, EmptySeq
<1>4. PICK h : h = associated[1]
  OBVIOUS
<1>5. Head(associated) = h /\ h \in Schedule
  BY <1>1, <1>2, <1>4
<1>6. h.tuid \in Tuids
  BY <1>5 DEF Schedule
<1>7. PICK q : q = index[h.tuid]
  OBVIOUS
<1>8. q \in Seq(Schedule)
  BY <1>1, <1>6, <1>7
<1>9. PICK new : new = Append(q, h)
  OBVIOUS
<1>10. /\ new \in Seq(Schedule) /\ Len(new) = Len(q) + 1 /\ Len(q) \in Nat
       /\ \A i \in 1 .. Len(q) : new[i] = q[i]
       /\ new[Len(q) + 1] = h
  BY <1>5, <1>8, <1>9, AppendProperties
<1>11. /\ index' \in [Tuids -> Seq(Schedule)]
       /\ index'[h.tuid] = new
       /\ \A t \in Tuids : t # h.tuid => index'[t] = index[t]
  BY <1>1, <1>5, <1>6, <1>7, <1>9, <1>10
<1>12. ASSUME NEW t \in Tuids
       PROVE  /\ \A i \in 1 .. Len(index'[t]) :
                   \/ i \in 1 .. Len(index[t]) /\ index'[t][i] = index[t][i]
                   \/ /\ t = h.tuid /\ i = Len(index[t]) + 1
                      /\ index'[t][i] = h
              /\ \A i \in 1 .. Len(index[t]) :
                   i \in 1 .. Len(index'[t]) /\ index'[t][i] = index[t][i]
  <2>1. CASE t # h.tuid
    BY <1>11, <2>1
  <2>2. CASE t = h.tuid
    <3>1. \A i \in 1 .. Len(new) : i \in 1 .. Len(q) \/ i = Len(q) + 1
      BY <1>10
    <3>2. \A i \in 1 .. Len(q) : i \in 1 .. Len(new)
      BY <1>10
    <3> QED BY <1>7, <1>10, <1>11, <2>2, <3>1, <3>2
  <2> QED BY <2>1, <2>2
<1>13. \E i \in 1 .. Len(index'[h.tuid]) : index'[h.tuid][i] = h
  <2>1. Len(q) + 1 \in 1 .. Len(new)
    BY <1>10
  <2> QED BY <1>10, <1>11, <2>1
<1>14. \A j \in 1 .. Len(associated') :
         j + 1 \in 1 .. Len(associated) /\ associated'[j] = associated[j + 1]
  <2>1. \A j \in 1 .. Len(associated) - 1 : j + 1 \in 1 .. Len(associated)
    BY <1>3
  <2> QED BY <1>1, <1>2, <2>1
<1>15. associated' \in Seq(Schedule) /\ Len(associated') = Len(associated) - 1
  BY <1>1, <1>2
<1> QED BY <1>3, <1>4, <1>5, <1>6, <1>11, <1>12, <1>13, <1>14, <1>15, ZenonT(20)

LEMMA PushedPieces == ASSUME Inv, PushAssociated PROVE Pieces' = Pieces
<1>1. \A e : e \in Pieces <=> \/ \E t \in Tuids : \E i \in 1 .. Len(index[t]) : index[t][i] = e
                              \/ \E j \in 1 .. Len(associated) : associated[j] = e
  <2>1. \A t \in Tuids : \A e :
          e \in ToSet(index[t]) <=> \E i \in 1 .. Len(index[t]) : index[t][i] = e
    BY RecordsAreSchedules, ElementsOf DEF Inv
  <2>2. \A e : e \in ToSet(associated) <=> \E j \in 1 .. Len(associated) : associated[j] = e
    BY ElementsOf DEF Inv, TypeOK
  <2> QED BY <2>1, <2>2, RecordsAre, ZenonT(20) DEF Pieces
<1>2. /\ associated' \in Seq(Schedule) /\ index' \in [Tuids -> Seq(Schedule)]
      /\ Len(associated) \in Nat \ {0} /\ Len(associated') = Len(associated) - 1
      /\ associated[1].tuid \in Tuids
  BY PushedLists
<1>3. \A e : e \in Pieces' <=> \/ \E t \in Tuids : \E i \in 1 .. Len(index'[t]) : index'[t][i] = e
                               \/ \E j \in 1 .. Len(associated') : associated'[j] = e
  <2>1. \A t \in Tuids : \A e :
          e \in ToSet(index'[t]) <=> \E i \in 1 .. Len(index'[t]) : index'[t][i] = e
    BY <1>2, ElementsOf
  <2>2. \A e : e \in ToSet(associated)' <=> \E j \in 1 .. Len(associated') : associated'[j] = e
    BY <1>2, ElementsOf DEF ToSet
  <2>3. \A e : e \in RecordsOf(index)' <=> \E t \in Tuids : e \in ToSet(index'[t])
    BY DEF RecordsOf
  <2> QED BY <2>1, <2>2, <2>3, ZenonT(20) DEF Pieces
<1>4. ASSUME NEW t \in Tuids, NEW i \in 1 .. Len(index'[t])
      PROVE  index'[t][i] \in Pieces
  <2>1. \/ i \in 1 .. Len(index[t]) /\ index'[t][i] = index[t][i]
        \/ index'[t][i] = associated[1]
    BY PushedLists
  <2>2. 1 \in 1 .. Len(associated)
    BY <1>2
  <2> QED BY <1>1, <2>1, <2>2
<1>5. ASSUME NEW j \in 1 .. Len(associated') PROVE associated'[j] \in Pieces
  BY <1>1, PushedLists
<1>6. ASSUME NEW t \in Tuids, NEW i \in 1 .. Len(index[t])
      PROVE  index[t][i] \in Pieces'
  <2>1. i \in 1 .. Len(index'[t]) /\ index'[t][i] = index[t][i]
    BY PushedLists
  <2> QED BY <1>3, <2>1
<1>7. ASSUME NEW j \in 1 .. Len(associated) PROVE associated[j] \in Pieces'
  <2>1. CASE j = 1
    <3>1. \E i \in 1 .. Len(index'[associated[1].tuid]) :
            index'[associated[1].tuid][i] = associated[1]
      BY PushedLists
    <3> QED BY <1>2, <1>3, <2>1, <3>1
  <2>2. CASE j # 1
    <3>1. PICK k \in Nat : k = j - 1
      <4>1. j - 1 \in Nat
        BY <1>2
      <4> QED BY <4>1
    <3>2. k \in 1 .. Len(associated') /\ k + 1 = j
      BY <1>2, <2>2, <3>1
    <3>3. associated'[k] = associated[j]
      BY <3>2, PushedLists
    <3> QED BY <1>3, <3>2, <3>3
  <2> QED BY <2>1, <2>2
<1>8. ASSUME NEW e \in Pieces' PROVE e \in Pieces
  BY <1>3, <1>4, <1>5
<1>9. ASSUME NEW e \in Pieces PROVE e \in Pieces'
  BY <1>1, <1>6, <1>7
<1> QED BY <1>8, <1>9

LEMMA PushedApart == ASSUME Inv, PushAssociated PROVE Apart'
<1>1. \A t \in Tuids : \A i \in 1 .. Len(index'[t]) :
        \/ i \in 1 .. Len(index[t]) /\ index'[t][i] = index[t][i]
        \/ /\ t = associated[1].tuid /\ i = Len(index[t]) + 1
           /\ index'[t][i] = associated[1]
  BY PushedLists
<1>2. \A j \in 1 .. Len(associated') :
        j + 1 \in 1 .. Len(associated) /\ associated'[j] = associated[j + 1]
  BY PushedLists
<1>3. 1 \in 1 .. Len(associated)
  <2>1. Len(associated) \in Nat \ {0}
    BY PushedLists
  <2> QED BY <2>1
<1>4. ASSUME NEW t \in Tuids, NEW u \in Tuids,
             NEW i \in 1 .. Len(index'[t]), NEW j \in 1 .. Len(index'[u]),
             index'[t][i].id = index'[u][j].id
      PROVE  t = u /\ i = j
  <2>1. CASE /\ i \in 1 .. Len(index[t]) /\ index'[t][i] = index[t][i]
             /\ j \in 1 .. Len(index[u]) /\ index'[u][j] = index[u][j]
    <3>1. index[t][i].id = index[u][j].id
      BY <1>4, <2>1
    <3> QED BY <2>1, <3>1 DEF Inv, Apart
  <2>2. CASE /\ i \in 1 .. Len(index[t]) /\ index'[t][i] = index[t][i]
             /\ index'[u][j] = associated[1]
    BY <1>3, <1>4, <2>2 DEF Inv, Apart
  <2>3. CASE /\ j \in 1 .. Len(index[u]) /\ index'[u][j] = index[u][j]
             /\ index'[t][i] = associated[1]
    BY <1>3, <1>4, <2>3 DEF Inv, Apart
  <2> QED BY <1>1, <2>1, <2>2, <2>3
<1>5. ASSUME NEW i \in 1 .. Len(associated'), NEW j \in 1 .. Len(associated'),
             associated'[i].id = associated'[j].id
      PROVE  i = j
  <2>1. i + 1 = j + 1
    BY <1>2, <1>5 DEF Inv, Apart
  <2> QED BY <2>1
<1>6. ASSUME NEW t \in Tuids, NEW i \in 1 .. Len(index'[t]),
             NEW j \in 1 .. Len(associated')
      PROVE  index'[t][i].id # associated'[j].id
  <2>1. j + 1 \in 1 .. Len(associated) /\ j + 1 # 1 /\ associated'[j] = associated[j + 1]
    BY <1>2
  <2>2. CASE i \in 1 .. Len(index[t]) /\ index'[t][i] = index[t][i]
    BY <2>1, <2>2 DEF Inv, Apart
  <2>3. CASE index'[t][i] = associated[1]
    BY <1>3, <2>1, <2>3 DEF Inv, Apart
  <2> QED BY <1>1, <2>2, <2>3
<1> QED BY <1>4, <1>5, <1>6 DEF Apart

LEMMA PushedKeeps == ASSUME Inv, PushAssociated PROVE Inv'
<1>1. /\ phase = "associations" /\ todo = {}
      /\ UNCHANGED <<duplicateOvernight, todo, association, matching, links, nextId,
                     phase, trips>>
  BY DEF PushAssociated
<1>2. /\ associated' \in Seq(Schedule) /\ index' \in [Tuids -> Seq(Schedule)]
  BY PushedLists
<1>3. matching' \subseteq ToSet(index'[association'.assoc])
  <2>1. association.assoc \in Tuids
    BY AssociationsAssumption DEF Inv, TypeOK, Association
  <2>2. ASSUME NEW e \in ToSet(index[association.assoc])
        PROVE  e \in ToSet(index'[association.assoc])
    <3>1. PICK i \in 1 .. Len(index[association.assoc]) : index[association.assoc][i] = e
      BY <2>1, <2>2, RecordsAreSchedules, ElementsOf DEF Inv
    <3>2. i \in 1 .. Len(index'[association.assoc])
          /\ index'[association.assoc][i] = index[association.assoc][i]
      BY <2>1, PushedLists
    <3> QED BY <1>2, <2>1, <3>1, <3>2, ElementsOf
  <2> QED BY <1>1, <2>2 DEF Inv, TypeOK
<1>4. TypeOK'
  BY <1>1, <1>2, <1>3 DEF Inv, TypeOK
<1>5. UnderTheirTuid'
  <2>1. \A t \in Tuids : \A i \in 1 .. Len(index'[t]) :
          \/ i \in 1 .. Len(index[t]) /\ index'[t][i] = index[t][i]
          \/ t = associated[1].tuid /\ index'[t][i] = associated[1]
    BY PushedLists
  <2> QED BY <2>1 DEF Inv, UnderTheirTuid
<1>6. ~Applying' /\ ~Over'
  BY <1>1 DEF Applying, Over
<1>7. BelowNext' /\ LinksHold' /\ EndsApart'
  BY <1>1, <1>6, PushedPieces, SameRecords
<1>8. NothingCopied' /\ AllPushed' /\ BasesStay'
  BY <1>1, <1>6 DEF NothingCopied, AllPushed, BasesStay
<1> QED BY <1>4, <1>5, <1>7, <1>8, PushedApart DEF Inv

(***************************************************************************)
(* The invariant.                                                          *)
(***************************************************************************)
LEMMA NoSchedules == <<>> \in Seq(Schedule) /\ Len(<<>>) = 0 /\ ToSet(<<>>) = {}
<1>1. <<>> \in Seq(Schedule) /\ Len(<<>>) = 0
  BY EmptySeq
<1> QED BY <1>1 DEF ToSet

LEMMA InvAtFirst == Init => Inv
<1> SUFFICES ASSUME Init PROVE Inv
  OBVIOUS
<1>1. /\ index \in [Tuids -> Seq(Schedule)]
      /\ \A tuid \in Tuids : \A i \in 1 .. Len(index[tuid]) :
           /\ index[tuid][i].tuid = tuid
           /\ index[tuid][i].id < FirstId
           /\ index[tuid][i].departs # "past24"
           /\ \A other \in Tuids : \A j \in 1 .. Len(index[other]) :
                index[other][j].id = index[tuid][i].id => other = tuid /\ j = i
  BY IndexesAssumption DEF Init
<1>2. TypeOK
  BY <1>1, NoSchedules, FirstIdAssumption DEF Init, TypeOK
<1>3. \A j : j \notin 1 .. Len(associated)
  BY NoSchedules DEF Init
<1>4. UnderTheirTuid /\ Apart
  BY <1>1, <1>3 DEF UnderTheirTuid, Apart
<1>5. ASSUME NEW e \in Pieces
      PROVE  e.id < FirstId /\ e.departs # "past24"
  <2>1. e \in RecordsOf(index)
    BY NoSchedules DEF Pieces, Init
  <2>2. PICK t \in Tuids : e \in ToSet(index[t])
    BY <2>1, RecordsAre
  <2>3. PICK i \in 1 .. Len(index[t]) : index[t][i] = e
    BY <1>1, <2>2, ElementsOf
  <2> QED BY <1>1, <2>3
<1>6. BelowNext /\ NothingCopied
  BY <1>5 DEF Init, BelowNext, NothingCopied, Pieces
<1>7. AllPushed /\ LinksHold /\ EndsApart /\ BasesStay
  BY DEF Init, AllPushed, Over, LinksHold, EndsApart, BasesStay
<1> QED BY <1>2, <1>4, <1>6, <1>7 DEF Inv

LEMMA CouplingsKeep == ASSUME Inv, Couple PROVE Inv'
<1>1. PICK s, base, d \in Schedule, coupled, rest \in Seq(Schedule), p \in Nat :
        CutsInto(s, base, d, coupled, rest, p)
  BY CouplingsCut
<1>2. TypeOK'
  BY <1>1, CutTypes
<1>3. Apart'
  BY <1>1, CutApart
<1>4. UnderTheirTuid' /\ BelowNext' /\ NothingCopied' /\ AllPushed' /\ BasesStay'
  BY <1>1, CutOthers
<1>5. LinksHold' /\ EndsApart'
  BY <1>1, CutLinks
<1> QED BY <1>2, <1>3, <1>4, <1>5 DEF Inv

LEMMA ServiceDaysAreSchedules ==
  ASSUME NEW s \in Schedule PROVE OnServiceDay(s) \in Schedule
<1>1. s.id \in Nat
  BY DEF Schedule
<1>2. CopyToPreviousServiceDay(s, s.id) \in Schedule
  BY <1>1, CopyIsASchedule
<1> QED BY <1>2 DEF OnServiceDay

LEMMA ResolvedKeeps == ASSUME Inv, ResolveLinks PROVE Inv'
<1>1. /\ phase = "associated" /\ phase' = "resolved" /\ trips' = RecordsOf(index)
      /\ links' \subseteq links
      /\ \A link \in links' : Cardinality(Handed(BaseEnd(link))) = 1
      /\ UNCHANGED <<duplicateOvernight, index, todo, association, matching,
                     associated, nextId>>
  BY DEF ResolveLinks, BaseEnd
<1>2. trips' \subseteq Schedule
  BY <1>1, PiecesAreSchedules DEF Inv, Pieces
<1>3. TypeOK'
  BY <1>1, <1>2 DEF Inv, TypeOK
<1>4. ~Applying' /\ ~Applying /\ Pieces' = Pieces /\ RecordsOf(index)' = RecordsOf(index)
  BY <1>1 DEF Applying, Pieces, RecordsOf
<1>5. BelowNext' /\ LinksHold' /\ EndsApart'
  BY <1>1, <1>4, SameRecords
<1>6. UnderTheirTuid' /\ Apart' /\ NothingCopied' /\ AllPushed'
  BY <1>1, <1>4 DEF Inv, UnderTheirTuid, Apart, NothingCopied, AllPushed, Over
<1>7. ASSUME NEW link \in links' PROVE \E base \in trips' : base.id = BaseEnd(link)
  <2>1. PICK id : id = BaseEnd(link)
    OBVIOUS
  <2>2. Handed(id) # {}
    <3>1. Cardinality(Handed(id)) = 1
      BY <1>1, <2>1
    <3> QED BY <3>1, FS_EmptySet
  <2>3. PICK at \in Tuids \X (1 .. nextId) :
          at[2] <= Len(index[at[1]]) /\ index[at[1]][at[2]].id = id
    BY <2>2 DEF Handed
  <2>4. at[1] \in Tuids /\ at[2] \in 1 .. Len(index[at[1]])
    <3>1. at[1] \in Tuids /\ at[2] \in 1 .. nextId
      BY <2>3
    <3>2. Len(index[at[1]]) \in Nat /\ nextId \in Nat
      BY <3>1 DEF Inv, TypeOK
    <3> QED BY <2>3, <3>1, <3>2
  <2>5. index[at[1]][at[2]] \in RecordsOf(index)
    BY <2>4, RecordsAreSchedules DEF Inv
  <2> QED BY <1>1, <2>1, <2>3, <2>5
<1>8. BasesStay'
  BY <1>1, <1>4, <1>7 DEF BasesStay
<1> QED BY <1>3, <1>5, <1>6, <1>8 DEF Inv

LEMMA InvKept == Inv /\ [Next]_vars => Inv'
<1> SUFFICES ASSUME Inv, [Next]_vars PROVE Inv'
  OBVIOUS
<1>1. CASE TakeAssociation
  <2>1. /\ phase = "associations" /\ phase' = "schedules" /\ todo # {}
        /\ association' \in Associations /\ todo' \subseteq todo
        /\ matching' \subseteq ToSet(index[association'.assoc])
        /\ UNCHANGED <<duplicateOvernight, index, associated, links, nextId, trips>>
    BY <1>1 DEF TakeAssociation, Inv, TypeOK
  <2>2. TypeOK'
    BY <2>1 DEF Inv, TypeOK
  <2>3. Applying /\ ~Over' /\ Pieces' = Pieces /\ RecordsOf(index)' = RecordsOf(index)
    BY <2>1 DEF Applying, Over, Pieces, RecordsOf
  <2>4. BelowNext' /\ LinksHold' /\ EndsApart'
    BY <2>1, <2>3, SameRecords
  <2>5. UnderTheirTuid' /\ Apart' /\ NothingCopied' /\ AllPushed' /\ BasesStay'
    BY <2>1, <2>3
    DEF Inv, UnderTheirTuid, Apart, NothingCopied, AllPushed, BasesStay
  <2> QED BY <2>2, <2>4, <2>5 DEF Inv
<1>2. CASE PassBy
  <2>1. /\ phase = "schedules" /\ matching' \subseteq matching
        /\ UNCHANGED <<duplicateOvernight, index, todo, association, associated,
                       links, nextId, phase, trips>>
    BY <1>2 DEF PassBy
  <2>2. TypeOK'
    BY <2>1 DEF Inv, TypeOK
  <2>3. Applying /\ ~Over' /\ Pieces' = Pieces /\ RecordsOf(index)' = RecordsOf(index)
    BY <2>1 DEF Applying, Over, Pieces, RecordsOf
  <2>4. BelowNext' /\ LinksHold' /\ EndsApart'
    BY <2>1, <2>3, SameRecords
  <2>5. UnderTheirTuid' /\ Apart' /\ NothingCopied' /\ AllPushed' /\ BasesStay'
    BY <2>1, <2>3
    DEF Inv, UnderTheirTuid, Apart, NothingCopied, AllPushed, BasesStay
  <2> QED BY <2>2, <2>4, <2>5 DEF Inv
<1>3. CASE Couple
  BY <1>3, CouplingsKeep
<1>4. CASE AssociationApplied
  <2>1. /\ phase = "schedules" /\ phase' = "associations"
        /\ UNCHANGED <<duplicateOvernight, index, todo, association, matching,
                       associated, links, nextId, trips>>
    BY <1>4 DEF AssociationApplied
  <2>2. TypeOK'
    BY <2>1 DEF Inv, TypeOK
  <2>3. Applying /\ ~Over' /\ Pieces' = Pieces /\ RecordsOf(index)' = RecordsOf(index)
    BY <2>1 DEF Applying, Over, Pieces, RecordsOf
  <2>4. BelowNext' /\ LinksHold' /\ EndsApart'
    BY <2>1, <2>3, SameRecords
  <2>5. UnderTheirTuid' /\ Apart' /\ NothingCopied' /\ AllPushed' /\ BasesStay'
    BY <2>1, <2>3
    DEF Inv, UnderTheirTuid, Apart, NothingCopied, AllPushed, BasesStay
  <2> QED BY <2>2, <2>4, <2>5 DEF Inv
<1>5. CASE PushAssociated
  BY <1>5, PushedKeeps
<1>6. CASE AssociationsApplied
  <2>1. /\ phase = "associations" /\ phase' = "associated" /\ associated = <<>>
        /\ UNCHANGED <<duplicateOvernight, index, todo, association, matching,
                       associated, links, nextId, trips>>
    BY <1>6 DEF AssociationsApplied
  <2>2. TypeOK'
    BY <2>1 DEF Inv, TypeOK
  <2>3. ~Applying' /\ Pieces' = Pieces
    BY <2>1 DEF Applying, Pieces, RecordsOf
  <2>4. BelowNext' /\ LinksHold' /\ EndsApart'
    BY <2>1, <2>3, SameRecords
  <2>5. UnderTheirTuid' /\ Apart' /\ NothingCopied' /\ AllPushed' /\ BasesStay'
    BY <2>1, <2>3
    DEF Inv, UnderTheirTuid, Apart, NothingCopied, AllPushed, BasesStay
  <2> QED BY <2>2, <2>4, <2>5 DEF Inv
<1>7. CASE ResolveLinks
  BY <1>7, ResolvedKeeps
<1>8. CASE ShiftLateNightServices
  <2>1. /\ phase = "resolved" /\ phase' = "done"
        /\ \A s \in trips' : \E trip \in trips : s = OnServiceDay(trip)
        /\ UNCHANGED <<duplicateOvernight, index, todo, association, matching,
                       associated, links, nextId>>
    BY <1>8 DEF ShiftLateNightServices
  <2>2. TypeOK'
    BY <2>1, ServiceDaysAreSchedules DEF Inv, TypeOK
  <2>3. ~Applying' /\ Over /\ Pieces' = Pieces
    BY <2>1 DEF Applying, Over, Pieces, RecordsOf
  <2>4. BelowNext' /\ LinksHold' /\ EndsApart'
    BY <2>1, <2>3, SameRecords
  <2>5. UnderTheirTuid' /\ Apart' /\ NothingCopied' /\ AllPushed' /\ BasesStay'
    BY <2>1, <2>3
    DEF Inv, UnderTheirTuid, Apart, NothingCopied, AllPushed, BasesStay
  <2> QED BY <2>2, <2>4, <2>5 DEF Inv
<1>9. CASE Returned \/ UNCHANGED vars
  <2>1. UNCHANGED vars
    BY <1>9 DEF Returned
  <2>2. Pieces' = Pieces /\ (Applying' <=> Applying) /\ (Over' <=> Over)
        /\ RecordsOf(index)' = RecordsOf(index)
    BY <2>1 DEF vars, Pieces, RecordsOf, Applying, Over
  <2>3. BelowNext' /\ LinksHold' /\ EndsApart'
    BY <2>1, <2>2, SameRecords DEF vars
  <2>4. TypeOK'
    BY <2>1 DEF Inv, TypeOK, vars
  <2>5. UnderTheirTuid' /\ Apart' /\ NothingCopied' /\ AllPushed' /\ BasesStay'
    BY <2>1, <2>2
    DEF Inv, vars, UnderTheirTuid, Apart, NothingCopied, AllPushed, BasesStay
  <2> QED BY <2>3, <2>4, <2>5 DEF Inv
<1> QED BY <1>1, <1>2, <1>3, <1>4, <1>5, <1>6, <1>7, <1>8, <1>9 DEF Next

LEMMA InvHolds == Spec => []Inv
BY InvAtFirst, InvKept, PTL DEF Spec

(* Every variable keeps its type.                                          *)
THEOREM TypeCorrectness == Spec => []TypeOK
<1>1. Inv => TypeOK
  BY DEF Inv
<1> QED BY <1>1, InvHolds, PTL
-----------------------------------------------------------------------------
(***************************************************************************)
(* No id is handed out twice: among the records in the index and those     *)
(* kept aside (ApplyAssociations.ts), one id names one record, and the     *)
(* generator is past it.                                                   *)
(***************************************************************************)
THEOREM NoIdTwice == Spec => []IdsAreUnique
<1>1. Inv => IdsAreUnique
  BY PiecesApart DEF Inv, BelowNext, IdsAreUnique
<1> QED BY <1>1, InvHolds, PTL

(***************************************************************************)
(* The record a link names as its associated train stays, and no second    *)
(* link names it (resolveLinks, LinkedTrips.ts).                           *)
(***************************************************************************)
THEOREM NoneCoupledTwice == Spec => []CoupledOnce
<1>1. Inv => CoupledOnce
  BY DEF Inv, LinksHold, Couples, EndsApart, CoupledOnce
<1> QED BY <1>1, InvHolds, PTL

(* What the links are resolved against is everything there is.             *)
LEMMA TripsAreThePieces ==
  ASSUME Inv, phase = "resolved" PROVE Pieces = trips
<1>1. associated = <<>> /\ trips = RecordsOf(index)
  BY DEF Inv, AllPushed, Over, BasesStay
<1> QED BY <1>1, NoSchedules DEF Pieces

(***************************************************************************)
(* On each day the associated trip of a published link runs, its base runs *)
(* and an association between them is in force (resolveLinks,              *)
(* LinkedTrips.ts).                                                        *)
(***************************************************************************)
THEOREM LinkedTripsRunTogether == Spec => []CoupledDaysAreShared
<1>1. ASSUME Inv, phase = "resolved", NEW link \in links
      PROVE  \E base, coupled \in trips :
               /\ base.id = BaseEnd(link)
               /\ coupled.id = AssocEnd(link)
               /\ \E a \in Associations :
                    /\ JoinsTrains(a, link, base, coupled)
                    /\ RunDays(InBaseDays(a, InRecordDays(coupled))) # {}
                    /\ RunDays(InBaseDays(a, InRecordDays(coupled)))
                         \subseteq RunDays(base.calendar) \cap RunDays(a.calendar)
  <2>1. PICK e \in trips, a \in Associations : Couples(link, e, a) /\ WithBase(link, e, a)
    BY <1>1, TripsAreThePieces DEF Inv, LinksHold
  <2>2. PICK base \in trips : base.id = BaseEnd(link)
    BY <1>1 DEF Inv, BasesStay
  <2>3. /\ a.base = base.tuid
        /\ RunDays(InBaseDays(a, InRecordDays(e))) \subseteq RunDays(base.calendar)
    BY <1>1, <2>1, <2>2, TripsAreThePieces DEF WithBase
  <2>4. JoinsTrains(a, link, base, e)
    BY <2>1, <2>3 DEF Couples, JoinsTrains
  <2> QED BY <2>1, <2>2, <2>3, <2>4 DEF Couples
<1>2. Inv => CoupledDaysAreShared
  BY <1>1 DEF CoupledDaysAreShared, InRecordDays
<1> QED BY <1>2, InvHolds, PTL
-----------------------------------------------------------------------------
(***************************************************************************)
(* A calendar that runs at all does not run on the same days a day later.  *)
(***************************************************************************)
LEMMA ShiftingMovesSomeDay ==
  ASSUME NEW c \in Calendar, RunDays(c) # {}
  PROVE  RunDays(ShiftForward(c)) # RunDays(c)
<1> DEFINE Offsets == {n \in Nat : c.from + n \in RunDays(c)}
<1>1. c.from \in Int /\ \A date \in RunDays(c) : date \in Int /\ c.from <= date
  BY DEF Calendar, RunDays
<1>2. Offsets \subseteq Nat /\ Offsets # {}
  <2>1. PICK date : date \in RunDays(c)
    OBVIOUS
  <2>2. date - c.from \in Nat /\ c.from + (date - c.from) = date
    BY <1>1, <2>1
  <2> QED BY <2>1, <2>2
<1>3. PICK least \in Offsets : \A n \in Offsets : ~(n < least)
  <2>1. PICK m \in Offsets : \A n \in Offsets : ~(<<n, m>> \in OpToRel(<, Nat))
    BY <1>2, NatLessThanWellFounded, WFMin
  <2> QED BY <1>2, <2>1 DEF OpToRel
<1>4. PICK date \in Int : date = c.from + least /\ date \in RunDays(c)
  BY <1>1, <1>2
<1>5. SUFFICES ASSUME RunDays(ShiftForward(c)) = RunDays(c) PROVE FALSE
  OBVIOUS
<1>6. date - 1 \in RunDays(c)
  BY <1>4, <1>5, ShiftForwardMovesDays
<1>7. PICK n \in Nat : n = least - 1 /\ c.from + n = date - 1
  BY <1>1, <1>2, <1>4, <1>6
<1>8. n \in Offsets /\ n < least
  BY <1>2, <1>6, <1>7
<1> QED BY <1>3, <1>8

(***************************************************************************)
(* A copy closes the gap between the service days, and is not the train it *)
(* copies (createAssociatedSchedules, model/Association.ts).               *)
(***************************************************************************)
THEOREM CopiesRunWithTheirBase == Spec => []CopiesCloseTheGap
<1>1. ASSUME Inv, phase = "resolved", NEW link \in links,
             NEW base \in trips, NEW coupled \in trips,
             base.id = BaseEnd(link), coupled.id = AssocEnd(link),
             coupled.departs = "past24"
      PROVE  /\ \E a \in Associations :
                  /\ JoinsTrains(a, link, base, coupled)
                  /\ RunDays(coupled.calendar) \subseteq CoupledServiceDays(a, base)
             /\ \A s \in trips :
                  s.tuid = coupled.tuid /\ s.id = coupled.id - 1
                    => RunDays(OnServiceDay(s).calendar) # RunDays(coupled.calendar)
  <2>1. Pieces = trips /\ trips \subseteq Schedule
    BY <1>1, TripsAreThePieces DEF Inv, TypeOK
  <2>2. PICK e \in trips, a \in Associations :
          Couples(link, e, a) /\ WithBase(link, e, a) /\ CopyOf(e)
    BY <1>1, <2>1 DEF Inv, LinksHold
  <2>3. e = coupled
    BY <1>1, <2>1, <2>2, PiecesApart DEF Couples
  <2>4. coupled.calendar \in Calendar /\ a \in Association /\ coupled \in Schedule
        /\ base \in Schedule
    BY <2>1, AssociationsAssumption DEF Schedule
  <2>5. PICK record : record = ShiftForward(coupled.calendar)
    OBVIOUS
  <2>6. record \in Calendar /\ InRecordDays(coupled) = record
    BY <1>1, <2>4, <2>5, OperationsMakeCalendars DEF InRecordDays
  <2>7. /\ a.base = base.tuid
        /\ RunDays(InBaseDays(a, record))
             \subseteq RunDays(base.calendar) \cap RunDays(a.calendar)
        /\ RunDays(InBaseDays(a, record)) # {}
        /\ DayOffset(a) + DayShift(base) = 1
    BY <1>1, <2>1, <2>2, <2>3, <2>6 DEF Couples, WithBase
  <2>8. JoinsTrains(a, link, base, coupled)
    BY <2>2, <2>3, <2>7 DEF Couples, JoinsTrains
  <2>9. DayOffset(a) \in {-1, 0, 1} /\ DayShift(base) \in {0, 1}
    BY <2>4, <2>6, TurnedDays DEF DayShift
  <2>10. ASSUME NEW x \in RunDays(coupled.calendar)
         PROVE  x \in CoupledServiceDays(a, base)
    <3>1. x \in Int
      BY <2>4, RunDaysAreDates
    <3>2. PICK date \in Int : date = x + DayShift(base)
      BY <2>9, <3>1
    <3>3. date + DayOffset(a) = x + 1 /\ (x + 1) - 1 = x /\ date - DayShift(base) = x
      BY <2>7, <2>9, <3>1, <3>2
    <3>4. x + 1 \in Int /\ x + 1 \in RunDays(record)
      BY <2>4, <2>5, <3>1, <3>3, ShiftForwardMovesDays
    <3>5. date \in RunDays(InBaseDays(a, record))
      BY <2>4, <2>6, <3>2, <3>3, <3>4, TurnedDays
    <3> QED BY <2>7, <3>3, <3>5 DEF CoupledServiceDays
  <2>11. RunDays(coupled.calendar) # {}
    <3>1. PICK date : date \in RunDays(InBaseDays(a, record))
      BY <2>7
    <3>2. date \in Int
      BY <2>4, <2>6, <3>1, TurnedCalendars, RunDaysAreDates
    <3>3. date + DayOffset(a) \in Int /\ date + DayOffset(a) \in RunDays(record)
      BY <2>4, <2>6, <2>9, <3>1, <3>2, TurnedDays
    <3> QED BY <2>4, <2>5, <3>3, ShiftForwardMovesDays
  <2>12. ASSUME NEW s \in trips, s.id = coupled.id - 1
         PROVE  RunDays(OnServiceDay(s).calendar) # RunDays(coupled.calendar)
    <3>1. s.calendar = ShiftForward(coupled.calendar) /\ ~IsLateNight(s)
      BY <1>1, <2>1, <2>2, <2>3, <2>12 DEF CopyOf
    <3>2. OnServiceDay(s) = s
      BY <3>1 DEF OnServiceDay
    <3> QED BY <2>4, <2>11, <3>1, <3>2, ShiftingMovesSomeDay
  <2> QED BY <2>8, <2>10, <2>12
<1>2. Inv => CopiesCloseTheGap
  BY <1>1 DEF CopiesCloseTheGap
<1> QED BY <1>2, InvHolds, PTL
-----------------------------------------------------------------------------
(* The days a train runs, and runs twice, record by record.                *)
LEMMA DaysMean ==
  ASSUME NEW t
  PROVE  /\ \A day : day \in DaysRun(t) <=> \E x \in Own(t) : day \in RunDays(x.calendar)
         /\ \A day : day \in DaysRunTwice(t) <=>
              \E x, y \in Own(t) : /\ x # y
                                   /\ day \in RunDays(x.calendar)
                                   /\ day \in RunDays(y.calendar)
<1>1. \A day : day \in DaysRun(t) <=> \E x \in Own(t) : day \in RunDays(x.calendar)
  BY DEF DaysRun, Days
<1>2. \A day : day \in DaysRunTwice(t) <=>
         \E x \in Own(t) : day \in RunDays(x.calendar) /\ day \in Days(Own(t) \ {x})
  BY DEF DaysRunTwice
<1>3. \A x, day : day \in Days(Own(t) \ {x})
                    <=> \E y \in Own(t) : y # x /\ day \in RunDays(y.calendar)
  BY DEF Days
<1> QED BY <1>1, <1>2, <1>3

LEMMA DaysMeanNext ==
  ASSUME NEW t
  PROVE  /\ \A day : day \in DaysRun(t)' <=> \E x \in Own(t)' : day \in RunDays(x.calendar)
         /\ \A day : day \in DaysRunTwice(t)' <=>
              \E x, y \in Own(t)' : /\ x # y
                                    /\ day \in RunDays(x.calendar)
                                    /\ day \in RunDays(y.calendar)
<1>1. \A day : day \in DaysRun(t)' <=> \E x \in Own(t)' : day \in RunDays(x.calendar)
  BY DEF DaysRun, Days
<1>2. \A day : day \in DaysRunTwice(t)' <=>
         \E x \in Own(t)' : day \in RunDays(x.calendar) /\ day \in Days(Own(t) \ {x})'
  BY DEF DaysRunTwice
<1>3. \A x, day : day \in Days(Own(t) \ {x})'
                    <=> \E y \in Own(t)' : y # x /\ day \in RunDays(y.calendar)
  BY DEF Days
<1> QED BY <1>1, <1>2, <1>3

(* The train that is cut has d and the rest in the place of s.             *)
LEMMA CutOwn ==
  ASSUME Inv, NEW s \in Schedule, NEW base \in Schedule, NEW d \in Schedule,
         NEW coupled \in Seq(Schedule), NEW rest \in Seq(Schedule), NEW p \in Nat,
         CutsInto(s, base, d, coupled, rest, p), NEW t \in Tuids, NEW e
  PROVE  /\ s \in Own(s.tuid) /\ d \notin Own(t)
         /\ rest # <<>> => rest[1] \notin Own(t) /\ rest[1] # d
         /\ e \in Own(t)' <=> \/ e \in Own(t) /\ e # s
                              \/ t = s.tuid /\ e = d
                              \/ t = s.tuid /\ rest # <<>> /\ e = rest[1]
<1>1. /\ nextId \in Nat /\ Len(coupled) \in Nat /\ Len(coupled) >= 1 /\ d.id = nextId
      /\ \A j \in 1 .. Len(coupled) :
           coupled[j].id = nextId + j - 1
      /\ rest # <<>> => rest[1].id = nextId + Len(coupled) /\ rest[1].tuid = s.tuid
  <2>1. /\ nextId \in Nat /\ Len(coupled) \in Nat /\ Len(coupled) >= 1 /\ d.id = nextId
        /\ \A j \in 1 .. Len(coupled) : coupled[j].id = nextId + j - 1
    BY CutIds
  <2>2. rest # <<>> => rest[1].id = nextId + Len(coupled) /\ rest[1].tuid = s.tuid
    BY CutIds
  <2> QED BY <2>1, <2>2
<1>2. /\ coupled[1] = d /\ s \in Pieces
      /\ e \in Pieces' <=> \/ e \in Pieces /\ e # s
                           \/ e = d
                           \/ Len(coupled) = 2 /\ e = coupled[2]
                           \/ rest # <<>> /\ e = rest[1]
  BY CutPieces
<1>3. s.departs # "past24" /\ d.departs = s.departs /\ d.tuid = s.tuid
  <2>1. Applying /\ d.departs = s.departs /\ d.tuid = s.tuid
    BY DEF CutsInto, Applying
  <2>2. s \in RecordsOf(index)
    BY CutSets
  <2> QED BY <2>1, <2>2 DEF Inv, NothingCopied
<1>4. rest # <<>> => rest[1].departs = s.departs
  BY DEF CutsInto
<1>5. Len(coupled) = 2 => coupled[2].departs = "past24"
  <2>1. coupled = <<d>> => Len(coupled) = 1
    OBVIOUS
  <2>2. coupled = <<d>> \/ coupled[2].departs = "past24"
    BY DEF CutsInto
  <2> QED BY <2>1, <2>2
<1>6. \A x \in Pieces : x.id \in Nat /\ x.id < nextId
  BY PiecesAreSchedules DEF Inv, BelowNext, Schedule
<1>7. d \notin Pieces /\ (rest # <<>> => rest[1] \notin Pieces /\ rest[1] # d)
  BY <1>1, <1>6
<1> QED BY <1>1, <1>2, <1>3, <1>4, <1>5, <1>7 DEF Own

LEMMA CutDays ==
  ASSUME Inv, NEW s \in Schedule, NEW base \in Schedule, NEW d \in Schedule,
         NEW coupled \in Seq(Schedule), NEW rest \in Seq(Schedule), NEW p \in Nat,
         CutsInto(s, base, d, coupled, rest, p), NEW t \in Tuids
  PROVE  DaysRun(t)' = DaysRun(t) /\ DaysRunTwice(t)' = DaysRunTwice(t)
<1>1. /\ s \in Own(s.tuid) /\ d \notin Own(t)
      /\ rest # <<>> => rest[1] \notin Own(t) /\ rest[1] # d
      /\ \A e : e \in Own(t)' <=> \/ e \in Own(t) /\ e # s
                                  \/ t = s.tuid /\ e = d
                                  \/ t = s.tuid /\ rest # <<>> /\ e = rest[1]
  BY CutOwn
<1>2. /\ RunDays(d.calendar) \subseteq RunDays(s.calendar)
      /\ \/ rest = <<>> /\ RunDays(d.calendar) = RunDays(s.calendar)
         \/ /\ rest # <<>>
            /\ RunDays(rest[1].calendar) = RunDays(s.calendar) \ RunDays(d.calendar)
  BY DEF CutsInto
<1>3. \A day : day \in RunDays(s.calendar)
                 <=> \/ day \in RunDays(d.calendar)
                     \/ rest # <<>> /\ day \in RunDays(rest[1].calendar)
  BY <1>2
<1>4. \A day : ~(/\ day \in RunDays(d.calendar)
                 /\ rest # <<>> /\ day \in RunDays(rest[1].calendar))
  BY <1>2
<1>5. CASE t # s.tuid
  <2>1. s \notin Own(t)
    BY <1>5 DEF Own
  <2>2. \A e : e \in Own(t)' <=> e \in Own(t)
    BY <1>1, <1>5, <2>1
  <2>3. \A day : day \in DaysRun(t)' <=> day \in DaysRun(t)
    BY <2>2, DaysMean, DaysMeanNext
  <2>4. \A day : day \in DaysRunTwice(t)' <=> day \in DaysRunTwice(t)
    BY <2>2, DaysMean, DaysMeanNext
  <2> QED BY <2>3, <2>4
<1>6. CASE t = s.tuid
  <2>1. \A e : e \in Own(t)' <=> \/ e \in Own(t) /\ e # s
                                 \/ e = d
                                 \/ rest # <<>> /\ e = rest[1]
    BY <1>1, <1>6
  <2>2. s \in Own(t)
    BY <1>1, <1>6
  <2>3. ASSUME NEW day PROVE day \in DaysRun(t)' <=> day \in DaysRun(t)
    <3>1. ASSUME NEW x \in Own(t), day \in RunDays(x.calendar)
          PROVE  \E y \in Own(t)' : day \in RunDays(y.calendar)
      BY <1>3, <2>1, <3>1
    <3>2. ASSUME NEW x \in Own(t)', day \in RunDays(x.calendar)
          PROVE  \E y \in Own(t) : day \in RunDays(y.calendar)
      BY <1>3, <2>1, <2>2, <3>2
    <3> QED BY <3>1, <3>2, DaysMean, DaysMeanNext
  <2>4. ASSUME NEW day PROVE day \in DaysRunTwice(t)' <=> day \in DaysRunTwice(t)
    <3>1. ASSUME NEW x \in Own(t), NEW y \in Own(t), x # y,
                 day \in RunDays(x.calendar), day \in RunDays(y.calendar)
          PROVE  \E v, w \in Own(t)' : /\ v # w
                                       /\ day \in RunDays(v.calendar)
                                       /\ day \in RunDays(w.calendar)
      <4>1. CASE x # s /\ y # s
        BY <2>1, <3>1, <4>1
      <4>2. ASSUME NEW z \in Own(t), z # s, day \in RunDays(z.calendar),
                   day \in RunDays(s.calendar)
            PROVE  \E v, w \in Own(t)' : /\ v # w
                                         /\ day \in RunDays(v.calendar)
                                         /\ day \in RunDays(w.calendar)
        <5>1. z \in Own(t)' /\ z # d /\ (rest # <<>> => z # rest[1])
          BY <1>1, <2>1, <4>2
        <5>2. CASE day \in RunDays(d.calendar)
          BY <2>1, <4>2, <5>1, <5>2
        <5>3. CASE rest # <<>> /\ day \in RunDays(rest[1].calendar)
          BY <2>1, <4>2, <5>1, <5>3
        <5> QED BY <1>3, <4>2, <5>2, <5>3
      <4> QED BY <3>1, <4>1, <4>2
    <3>2. ASSUME NEW x \in Own(t)', NEW y \in Own(t)', x # y,
                 day \in RunDays(x.calendar), day \in RunDays(y.calendar)
          PROVE  \E v, w \in Own(t) : /\ v # w
                                      /\ day \in RunDays(v.calendar)
                                      /\ day \in RunDays(w.calendar)
      <4>1. ASSUME NEW z \in Own(t)'
            PROVE  (z \in Own(t) /\ z # s) \/ z = d \/ (rest # <<>> /\ z = rest[1])
        BY <2>1
      <4>2. CASE x \in Own(t) /\ x # s /\ y \in Own(t) /\ y # s
        BY <3>2, <4>2
      <4>3. CASE x \in Own(t) /\ x # s /\ ~(y \in Own(t) /\ y # s)
        <5>1. day \in RunDays(s.calendar)
          BY <1>3, <3>2, <4>1, <4>3
        <5> QED BY <2>2, <3>2, <4>3, <5>1
      <4>4. CASE y \in Own(t) /\ y # s /\ ~(x \in Own(t) /\ x # s)
        <5>1. day \in RunDays(s.calendar)
          BY <1>3, <3>2, <4>1, <4>4
        <5> QED BY <2>2, <3>2, <4>4, <5>1
      <4>5. CASE ~(x \in Own(t) /\ x # s) /\ ~(y \in Own(t) /\ y # s)
        BY <1>4, <3>2, <4>1, <4>5
      <4> QED BY <4>2, <4>3, <4>4, <4>5
    <3> QED BY <3>1, <3>2, DaysMean, DaysMeanNext
  <2> QED BY <2>3, <2>4
<1> QED BY <1>5, <1>6

LEMMA SameDays ==
  ASSUME NEW t, Pieces' = Pieces
  PROVE  DaysRun(t)' = DaysRun(t) /\ DaysRunTwice(t)' = DaysRunTwice(t)
<1>1. \A e : e \in Own(t)' <=> e \in Own(t)
  BY DEF Own
<1>2. \A day : day \in DaysRun(t)' <=> day \in DaysRun(t)
  BY <1>1, DaysMean, DaysMeanNext
<1>3. \A day : day \in DaysRunTwice(t)' <=> day \in DaysRunTwice(t)
  BY <1>1, DaysMean, DaysMeanNext
<1> QED BY <1>2, <1>3

(***************************************************************************)
(* A cut keeps the days a train runs and the days it runs twice, whatever  *)
(* the association (Association.ts: the coupled days, their copy and the   *)
(* rest).                                                                  *)
(***************************************************************************)
THEOREM TheTimetableIsKept == Spec => CutsKeepTheTimetable
<1>1. ASSUME Inv, [Next]_vars, NEW t \in Tuids
      PROVE  DaysRun(t)' = DaysRun(t) /\ DaysRunTwice(t)' = DaysRunTwice(t)
  <2>1. CASE Couple
    <3>1. PICK s, base, d \in Schedule, coupled, rest \in Seq(Schedule), p \in Nat :
            CutsInto(s, base, d, coupled, rest, p)
      BY <1>1, <2>1, CouplingsCut
    <3> QED BY <1>1, <3>1, CutDays
  <2>2. CASE PushAssociated
    BY <1>1, <2>2, PushedPieces, SameDays
  <2>3. CASE \/ TakeAssociation \/ PassBy \/ AssociationApplied \/ AssociationsApplied
             \/ ResolveLinks \/ ShiftLateNightServices \/ Returned \/ UNCHANGED vars
    <3>1. UNCHANGED <<index, associated>>
      BY <2>3 DEF TakeAssociation, PassBy, AssociationApplied, AssociationsApplied,
                  ResolveLinks, ShiftLateNightServices, Returned, vars
    <3>2. Pieces' = Pieces
      BY <3>1 DEF Pieces, RecordsOf
    <3> QED BY <3>2, SameDays
  <2> QED BY <1>1, <2>1, <2>2, <2>3 DEF Next
<1>2. Inv /\ [Next]_vars =>
        [\A tuid \in Tuids : /\ DaysRun(tuid)' = DaysRun(tuid)
                             /\ DaysRunTwice(tuid)' = DaysRunTwice(tuid)]_vars
  BY <1>1
<1> QED BY <1>2, InvHolds, PTL DEF Spec, CutsKeepTheTimetable
===========================================================================
