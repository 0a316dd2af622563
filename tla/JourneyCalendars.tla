------------------------ MODULE JourneyCalendars ------------------------
(***************************************************************************)
(* The calendar of a TransXChange journey (apps/transxchange2gtfs):        *)
(* TransXChangeJourneyStream.getCalendar, and what CalendarStream and      *)
(* CalendarDatesStream write of it.                                        *)
(*                                                                         *)
(* A date is a number and its day of the week the remainder by             *)
(* DaysInAWeek.  The lists of excluded and included dates are sets: their  *)
(* order only makes two calendars of what could be one.                    *)
(***************************************************************************)
EXTENDS Integers, Sequences

CONSTANTS
  DaysInAWeek,       \* 7
  LongBreak,         \* 92: a break as long as this is ignored
  FarFuture,         \* the first date of 2037
  BankHolidays       \* the dates of each holiday

ASSUME JourneyCalendarAssumption ==
  /\ DaysInAWeek \in Nat \ {0}
  /\ LongBreak \in Nat /\ FarFuture \in Nat
  /\ \A h \in DOMAIN BankHolidays : BankHolidays[h] \subseteq Int

RegularDays(profile, dates) == {d \in dates : d % DaysInAWeek \in profile.days}

(***************************************************************************)
(* One break: what begins no later than the calendar moves its start, what *)
(* ends no earlier moves its end, and what is inside is excluded.          *)
(***************************************************************************)
WithoutBreak(profile, calendar, break) ==
  IF break.start <= calendar.start
  THEN [calendar EXCEPT !.start = break.end + 1]
  ELSE IF break.end >= calendar.end \/ break.end >= FarFuture
  THEN [calendar EXCEPT !.end = break.start - 1]
  ELSE IF break.end - break.start < LongBreak
  THEN [calendar EXCEPT !.excludes =
          @ \cup RegularDays(profile, break.start .. break.end)]
  ELSE calendar

HolidayDates(holidays, calendar) ==
  (UNION {BankHolidays[h] : h \in holidays}) \cap (calendar.start .. calendar.end)

(* The calendar of the period, break after break. *)
AfterBreaks(profile, period) ==
  LET after[i \in 0 .. Len(profile.breaks)] ==
        IF i = 0
        THEN [days |-> profile.days, start |-> period.start, end |-> period.end,
              excludes |-> {}, includes |-> {}]
        ELSE WithoutBreak(profile, after[i - 1], profile.breaks[i])
  IN  after[Len(profile.breaks)]

(* A slip the runs must notice: the holidays off are not excluded. *)
CalendarWithoutHolidaysOff(profile, period) ==
  LET calendar == AfterBreaks(profile, period)
  IN  [calendar EXCEPT !.includes = HolidayDates(profile.holidaysOn, calendar)]

GetCalendar(profile, period) ==
  LET calendar == AfterBreaks(profile, period)
  IN  [calendar EXCEPT
         !.excludes = @ \cup HolidayDates(profile.holidaysOff, calendar),
         !.includes = HolidayDates(profile.holidaysOn, calendar)]

(* calendar_dates.txt has one row for a date, and the removals come first. *)
DateRows(calendar) ==
  [removed |-> calendar.excludes,
   added |-> calendar.includes \ calendar.excludes]

(* The days on which the rows say the service runs. *)
DaysRun(row, dates) ==
  (RegularDays(row, row.start .. row.end) \ dates.removed) \cup dates.added
-----------------------------------------------------------------------------
(***************************************************************************)
(* The days a profile asks for, when its breaks are short, apart and       *)
(* within the period: inside it, on the regular days that are in no break  *)
(* and no holiday off, and on the holidays on that are in neither.         *)
(***************************************************************************)
Breaks(profile) ==
  UNION {profile.breaks[i].start .. profile.breaks[i].end :
           i \in DOMAIN profile.breaks}

IsPlain(profile, period) ==
  \A i \in DOMAIN profile.breaks :
    LET break == profile.breaks[i]
    IN  /\ period.start <= break.start /\ break.start <= break.end
        /\ break.end <= period.end /\ break.end < FarFuture
        /\ break.end - break.start < LongBreak
        /\ \A j \in 1 .. i - 1 : \/ profile.breaks[j].end < break.start
                                 \/ break.end < profile.breaks[j].start

RunsAsAsked(profile, period, days) ==
  LET dates == period.start .. period.end
      regular == RegularDays(profile, dates)
      off == UNION {BankHolidays[h] : h \in profile.holidaysOff}
      on == (UNION {BankHolidays[h] : h \in profile.holidaysOn}) \cap dates
  IN  /\ days \subseteq regular \cup on
      /\ days \cap off = {}
      /\ days \cap regular \cap Breaks(profile) = {}
      /\ ((regular \cup on) \ Breaks(profile)) \ off \subseteq days
=============================================================================
