---------------------------- MODULE CallTimes ----------------------------
(***************************************************************************)
(* The calls ScheduleBuilder (libs/gtfs/src/build/ScheduleBuilder.ts)      *)
(* makes of the locations of one train, and the times they are published   *)
(* at.  A time counts the half-minutes since midnight, the unit of the     *)
(* working timetable; NoTime is a null column.                             *)
(*                                                                         *)
(* A location is what the query gives of a stop time: where it is, its     *)
(* working and public times, the pass time that says the train runs        *)
(* through, and whether passengers board or alight there as scheduled.     *)
(***************************************************************************)
EXTENDS Integers, SequencesExt

NoTime == -1

Hour == 120

Day == 24 * Hour

OneOf(time, otherwise) == IF time # NoTime THEN time ELSE otherwise

Between(one, other) == Max({one, other}) - Min({one, other})

Clamp(time, least, most) == Min({most, Max({least, time})})

Passing(location) == location.pass # NoTime

(* The hour a train that publishes no time at its origin is taken to leave. *)
UnknownHour == 4

OriginHour(location) ==
  LET time == OneOf(location.publicArr, location.publicDep) IN
  IF time = NoTime THEN UnknownHour ELSE time \div Hour

(* A slip the runs must notice: a train in its origin's hour is rolled over. *)
RolledOverInTheHour(time, originHour) ==
  IF time # NoTime /\ originHour >= 4 /\ originHour >= time \div Hour
  THEN time + Day
  ELSE time

(***************************************************************************)
(* formatTime: a time of an hour before the origin's is past midnight, if  *)
(* the train left after four.                                              *)
(***************************************************************************)
RolledOver(time, originHour) ==
  IF time # NoTime /\ originHour >= 4 /\ originHour > time \div Hour
  THEN time + Day
  ELSE time

(* The two times a call is told by: those it passes, publishes or works at. *)
TimesOf(location) ==
  IF Passing(location)
  THEN <<location.pass, location.pass>>
  ELSE IF location.publicArr # NoTime \/ location.publicDep # NoTime
  THEN <<location.publicArr, location.publicDep>>
  ELSE <<location.arr, location.dep>>

HasTime(location) == \E time \in ToSet(TimesOf(location)) : time # NoTime

(***************************************************************************)
(* createClock: a call on both clocks.  One published at one end only is   *)
(* set off from its working times by what that end is nearer to.           *)
(***************************************************************************)
ClockOf(location, originHour, arrival, departure) ==
  LET at(time) == RolledOver(time, originHour)
      workingArr == OneOf(at(OneOf(location.arr, location.dep)), arrival)
      workingDep == OneOf(at(OneOf(location.dep, location.arr)), departure)
      published == IF location.publicArr # NoTime THEN arrival ELSE departure
      offset == IF Between(published, workingArr) <= Between(published, workingDep)
                THEN published - workingArr
                ELSE published - workingDep
      atBothEnds == (location.publicArr = NoTime) <=> (location.publicDep = NoTime)
  IN
    IF Passing(location)
    THEN [workingArr |-> arrival, workingDep |-> arrival,
          publicArr |-> arrival, publicDep |-> arrival]
    ELSE [workingArr |-> workingArr,
          workingDep |-> workingDep,
          publicArr  |-> IF atBothEnds THEN arrival ELSE workingArr + offset,
          publicDep  |-> IF atBothEnds THEN departure ELSE workingDep + offset]

(* createStop, and createClock with it. *)
StopAt(location, originHour) ==
  LET times     == TimesOf(location)
      arrival   == RolledOver(OneOf(times[1], times[2]), originHour)
      departure == RolledOver(OneOf(times[2], times[1]), originHour)
  IN [crs       |-> location.crs,
      arrival   |-> arrival,
      departure |-> departure,
      passing   |-> Passing(location),
      boards    |-> location.boards,
      clock     |-> ClockOf(location, originHour, arrival, departure)]

(* A slip the runs must notice: the last timing point of a station wins. *)
LastOneTakesThePlace(stop, before) == TRUE

(* Of two timing points of a station, the one that boards or alights stays. *)
TakesThePlaceOf(stop, before) ==
  stop.boards \/ (before.passing /\ ~stop.passing)

(***************************************************************************)
(* addStop.  The last stop's station and whether it is passed, which the   *)
(* cursor keeps, are those of the last stop here.                          *)
(***************************************************************************)
WithStop(stops, stop) ==
  IF stops = <<>> \/ Last(stops).crs # stop.crs
  THEN Append(stops, stop)
  ELSE IF TakesThePlaceOf(stop, Last(stops))
  THEN Append(Front(stops), stop)
  ELSE stops
-----------------------------------------------------------------------------
(***************************************************************************)
(* onPublicClock.  A pass is placed among the calls around it, and held to *)
(* the passes before it: the running clamp of the code is the furthest of  *)
(* the places so far, held between the two calls.                          *)
(***************************************************************************)
PlacedBefore(stops, i, to) ==
  LET latest == stops[to].arrival
      offset == Min({stops[to].clock.publicArr, latest}) - stops[to].clock.workingArr
  IN Min({latest} \cup {stops[j].clock.workingArr + offset : j \in i .. to - 1})

PlacedAfter(stops, i, from) ==
  LET earliest == stops[from].departure
      offset   == Max({stops[from].clock.publicDep, earliest}) - stops[from].clock.workingDep
  IN Max({earliest} \cup {stops[j].clock.workingDep + offset : j \in from + 1 .. i})

(* A slip the runs must notice: a pass not held to the one before it. *)
PlacedAlone(stops, i, from, to) ==
  LET start  == stops[from].clock.publicDep
      end    == stops[to].clock.publicArr
      length == stops[to].clock.workingArr - stops[from].clock.workingDep
      worked == stops[i].clock.workingArr - stops[from].clock.workingDep
  IN IF length > 0
     THEN start + (2 * worked * (end - start) + length) \div (2 * length)
     ELSE start

(* Rounded to the half-minute, a half upwards. *)
PlacedBetween(stops, i, from, to) ==
  LET earliest == stops[from].departure
      latest   == Max({earliest, stops[to].arrival})
      start    == Clamp(stops[from].clock.publicDep, earliest, latest)
      end      == Clamp(stops[to].clock.publicArr, start, latest)
      length   == stops[to].clock.workingArr - stops[from].clock.workingDep
      worked(j) ==
        Clamp(stops[j].clock.workingArr - stops[from].clock.workingDep, 0, length)
      placed(j) ==
        IF length > 0
        THEN start + (2 * worked(j) * (end - start) + length) \div (2 * length)
        ELSE start
  IN Clamp(Max({placed(j) : j \in from + 1 .. i}), start, end)

Calls(stops) == {i \in 1 .. Len(stops) : ~stops[i].passing}

PassTime(stops, i) ==
  LET behind == {c \in Calls(stops) : c < i}
      ahead  == {c \in Calls(stops) : c > i}
  IN IF behind = {} THEN PlacedBefore(stops, i, Min(ahead))
     ELSE IF ahead = {} THEN PlacedAfter(stops, i, Max(behind))
     ELSE PlacedBetween(stops, i, Max(behind), Min(ahead))

OnPublicClock(stops) ==
  IF Calls(stops) = {}
  THEN stops
  ELSE [i \in 1 .. Len(stops) |->
          IF stops[i].passing
          THEN [stops[i] EXCEPT !.arrival = PassTime(stops, i),
                                !.departure = PassTime(stops, i)]
          ELSE stops[i]]
==========================================================================
