------------------------- MODULE MergedServices -------------------------
(***************************************************************************)
(* The calendars of a merge (apps/gtfsmerge/src/gtfs): what FeedIndex      *)
(* keeps of them, the calendar that CalendarFactory makes for a service    *)
(* of which there are only dates, and whether a service runs at all        *)
(* (CalendarMerger).                                                       *)
(*                                                                         *)
(* A date is a number, from 1, and its day of the week the remainder by    *)
(* DaysInAWeek, which is 7 for the code.  A service is its id, a calendar  *)
(* or NoCalendar, and a set of exceptions to it, at most one for a date.   *)
(***************************************************************************)
EXTENDS Naturals, FiniteSets, FiniteSetsExt

CONSTANTS
  DaysInAWeek,    \* 7; fewer, for the same questions over fewer dates
  NoCalendar,     \* a service with no row in calendar.txt
  FilterBefore    \* --no-date-filter is 0: nothing before it is kept

ASSUME WeekAssumption == DaysInAWeek \in Nat \ {0} /\ FilterBefore \in Nat

GetDayOfWeek(date) == date % DaysInAWeek

Days == 0 .. DaysInAWeek - 1

Added(dates) == {d.date : d \in {x \in dates : x.type = "added"}}

Removed(dates) == {d.date : d \in {x \in dates : x.type = "removed"}}

(* The days that a calendar and its exceptions say, to whoever reads them. *)
DaysOf(calendar, dates) ==
  ({date \in calendar.start .. calendar.end :
      GetDayOfWeek(date) \in calendar.days} \ Removed(dates)) \cup Added(dates)

DaysOfService(s) ==
  IF s.calendar = NoCalendar THEN Added(s.dates)
                             ELSE DaysOf(s.calendar, s.dates)
-----------------------------------------------------------------------------
(***************************************************************************)
(* FeedIndex: a calendar that has finished or names no day is not kept,    *)
(* nor is an exception before the filter's date.                           *)
(***************************************************************************)
KeepsCalendar(calendar) ==
  /\ calendar # NoCalendar
  /\ calendar.end >= FilterBefore
  /\ calendar.days # {}

KeptDates(dates) == {d \in dates : d.date >= FilterBefore}
-----------------------------------------------------------------------------
(***************************************************************************)
(* CalendarFactory.create: from the first date to the last, the calendar   *)
(* has the days of the week that run more often than not, and the dates    *)
(* that disagree with it are its exceptions.                               *)
(***************************************************************************)
NeverRuns == [calendar |-> [days |-> {}, start |-> 0, end |-> 0], dates |-> {}]

(* A slip the runs must notice: the exceptions of one kind only. *)
CreateWithoutRemovals(dates) ==
  LET runs == Added(dates)
      range == Min(runs) .. Max(runs)
      On(day) == {d \in range \cap runs : GetDayOfWeek(d) = day}
      Off(day) == {d \in range \ runs : GetDayOfWeek(d) = day}
      days == {day \in Days : Cardinality(On(day)) > Cardinality(Off(day))}
  IN  IF runs = {} THEN NeverRuns
      ELSE [calendar |-> [days |-> days, start |-> Min(runs), end |-> Max(runs)],
            dates |-> {[date |-> d, type |-> "added"] :
                         d \in UNION {On(day) : day \in Days \ days}}]

Create(dates) ==
  LET runs == Added(dates)
      range == Min(runs) .. Max(runs)
      On(day) == {d \in range \cap runs : GetDayOfWeek(d) = day}
      Off(day) == {d \in range \ runs : GetDayOfWeek(d) = day}
      days == {day \in Days : Cardinality(On(day)) > Cardinality(Off(day))}
  IN  IF runs = {} THEN NeverRuns
      ELSE [calendar |-> [days |-> days, start |-> Min(runs), end |-> Max(runs)],
            dates |->
              {[date |-> d, type |-> "removed"] :
                 d \in UNION {Off(day) : day \in days}} \cup
              {[date |-> d, type |-> "added"] :
                 d \in UNION {On(day) : day \in Days \ days}}]
-----------------------------------------------------------------------------
(***************************************************************************)
(* CalendarMerger: a kept calendar is written with the exceptions kept of  *)
(* it, and a service left with exceptions alone has a calendar made for    *)
(* them.  One that runs on no day is neither written nor mapped, the       *)
(* calendar made for what a written one left being of that kind too.       *)
(***************************************************************************)
Written(s) ==
  LET dates == KeptDates(s.dates)
  IN  IF KeepsCalendar(s.calendar)
      THEN [calendar |-> s.calendar, dates |-> dates]
      ELSE Create(dates)

RunsAtAll(written) ==
  \/ Added(written.dates) # {}
  \/ \E date \in written.calendar.start .. written.calendar.end :
       /\ GetDayOfWeek(date) \in written.calendar.days
       /\ date \notin Removed(written.dates)
=============================================================================
