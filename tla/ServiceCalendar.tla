------------------------- MODULE ServiceCalendar -------------------------
(***************************************************************************)
(* The calendar algebra of libs/gtfs/src/model/ScheduleCalendar.ts: the    *)
(* days a timetable record runs, and the four operations the transforms    *)
(* cut calendars with.                                                     *)
(*                                                                         *)
(* A date is a day number, counted so that day 0 is a Sunday: the code     *)
(* numbers the days of the week from Sunday, and only a date's order, its  *)
(* successor and its day of the week matter to any of these operations.    *)
(* A calendar is the range it was published for, the days of the week it   *)
(* runs in that range, and the single dates taken out of it.               *)
(***************************************************************************)
EXTENDS Integers

DaysOfWeek == 0 .. 6

DayOfWeek(date) == date % 7

Calendar ==
  [from : Int, to : Int, days : SUBSET DaysOfWeek, exclude : SUBSET Int]

Earlier(a, b) == IF a <= b THEN a ELSE b

Later(a, b) == IF a >= b THEN a ELSE b

(***************************************************************************)
(* The dates on which c runs.  The code never builds this set, but isEmpty *)
(* and sharedDays walk a range of dates asking for membership of it.       *)
(***************************************************************************)
RunsOn(c, date) ==
  /\ c.from <= date
  /\ date <= c.to
  /\ DayOfWeek(date) \in c.days
  /\ date \notin c.exclude

RunDays(c) == {date \in c.from .. c.to : RunsOn(c, date)}

IsEmpty(c) == \A date \in c.from .. c.to : ~RunsOn(c, date)

(***************************************************************************)
(* clone takes the days of the week to REMOVE, and keeps only those of the *)
(* excluded dates it is given that fall inside the new range.              *)
(***************************************************************************)
Clone(c, start, end, removeDays, excludeDays) ==
  [from    |-> start,
   to      |-> end,
   days    |-> c.days \ removeDays,
   exclude |-> {date \in excludeDays : start <= date /\ date <= end}]

(* A slip the runs must notice: the overlay's own days of the week forgotten. *)
SharedDaysAnyDayOfTheOther(c, other) ==
  {date \in Later(c.from, other.from) .. Earlier(c.to, other.to) :
     /\ DayOfWeek(date) \in c.days
     /\ date \notin c.exclude
     /\ date \notin other.exclude}

SharedDays(c, other) ==
  {date \in Later(c.from, other.from) .. Earlier(c.to, other.to) :
     /\ DayOfWeek(date) \in c.days \cap other.days
     /\ date \notin c.exclude
     /\ date \notin other.exclude}

(***************************************************************************)
(* getOverlap: the masks are compared first, then the first shared day     *)
(* settles it.                                                             *)
(***************************************************************************)
Overlaps(c, other) ==
  /\ c.days \cap other.days # {}
  /\ SharedDays(c, other) # {}

Intersect(c, other) ==
  Clone(c,
        Later(c.from, other.from),
        Earlier(c.to, other.to),
        DaysOfWeek \ other.days,
        c.exclude \cup other.exclude)

(***************************************************************************)
(* addExcludeDays returns null where nothing is left: callers ask          *)
(* IsEmpty(WithoutDaysOf(c, other)) and drop the record.                   *)
(***************************************************************************)
WithoutDaysOf(c, other) ==
  Clone(c, c.from, c.to, {}, c.exclude \cup SharedDays(c, other))

Shifted(c, n) ==
  [from    |-> c.from + n,
   to      |-> c.to + n,
   days    |-> {day \in DaysOfWeek : (day - n) % 7 \in c.days},
   exclude |-> {date + n : date \in c.exclude}]

ShiftForward(c) == Shifted(c, 1)

ShiftBackward(c) == Shifted(c, -1)
==========================================================================
