-------------------------- MODULE ScheduleBuilder --------------------------
(***************************************************************************)
(* getSchedules of apps/dtd2mysql/src/source/MySqlTimetableSource.ts and   *)
(* the ScheduleBuilder its two queries stream into: passenger schedules    *)
(* and z-trains, row by row and in any turns.  Each stream has a cursor of *)
(* its own; the schedules they make go to one list.                        *)
(*                                                                         *)
(* A table holds its records, each with its locations: the statement joins *)
(* them.  Records outside the window are not among them.                   *)
(***************************************************************************)
EXTENDS CallTimes, FiniteSets

CONSTANTS
  Timetables,     \* what the two tables may hold
  Codes,          \* the codes of locations
  Placeholders,   \* codes of stations that are not places (exclude)
  NoStation       \* the code of a location that is not a station

Streams == {"schedule", "z_schedule"}

Time == Nat \cup {NoTime}

(* No activity of a location that is passed is one of boarding: see createStop. *)
Location ==
  {location \in [crs : Codes, pass : Time, arr : Time, dep : Time,
                 publicArr : Time, publicDep : Time, boards : BOOLEAN] :
     Passing(location) => ~location.boards}

VARIABLES
  tables,               \* stream -> the records its table holds
  removePassingPoints,  \* a flag of the build
  rows,                 \* stream -> the rows its query has yet to send
  cursors,              \* stream -> its cursor
  built,                \* the builder's schedules
  outcome               \* stream -> whether its promise has settled

builderVars == <<tables, removePassingPoints, rows, cursors, built, outcome>>

Identity(record) ==
  [id |-> record.id, tuid |-> record.tuid, stp |-> record.stp, calendar |-> record.calendar]

(***************************************************************************)
(* LEFT JOIN: a record without locations is a row of nulls, and one whose  *)
(* locations are all somewhere else is no row at all.  The locations of a  *)
(* z-train are stations already.                                           *)
(***************************************************************************)
RowsOf(record) ==
  IF record.locations = <<>>
  THEN {[record |-> Identity(record), stop |-> 0, location |-> <<>>]}
  ELSE {[record |-> Identity(record), stop |-> i, location |-> <<record.locations[i]>>] :
          i \in {j \in DOMAIN record.locations : record.locations[j].crs # NoStation}}

LastSchedule == Max({record.id : record \in tables["schedule"]})

(* The ids of z-trains come after those of every schedule. *)
ZTrain(record) == [record EXCEPT !.id = @ + LastSchedule]

(* JOIN: a z-train without calls is no row. *)
RecordsOf(stream) ==
  IF stream = "schedule"
  THEN tables["schedule"]
  ELSE {ZTrain(record) : record \in {r \in tables["z_schedule"] : r.locations # <<>>}}

(* Rows go in the order of this column, descending. *)
Descending == [P |-> 1, O |-> 2, N |-> 3, C |-> 4]

(* A slip the runs must notice: ORDER BY id, stop_id alone. *)
GoesBeforeById(one, other) ==
  \/ one.record.id < other.record.id
  \/ one.record.id = other.record.id /\ one.stop < other.stop

(***************************************************************************)
(* ORDER BY stp_indicator DESC, id, stop_id.  Z-trains go by stop_id       *)
(* alone, which is the same: they are all permanent, and their stops were  *)
(* written record by record.                                               *)
(***************************************************************************)
GoesBefore(one, other) ==
  LET rank(row) == Descending[row.record.stp] IN
  \/ rank(one) < rank(other)
  \/ rank(one) = rank(other) /\ one.record.id < other.record.id
  \/ one.record.id = other.record.id /\ one.stop < other.stop

(* Each row goes where as many go before it as before the place. *)
Ordered(result) ==
  [i \in 1 .. Cardinality(result) |->
     CHOOSE row \in result :
       Cardinality({before \in result : GoesBefore(before, row)}) = i - 1]

RowsOfQuery(stream) == Ordered(UNION {RowsOf(record) : record \in RecordsOf(stream)})

NewCursor == [record |-> <<>>, stops |-> <<>>, path |-> <<>>, originHour |-> UnknownHour]

(* createSchedule, of a builder that removes passing points or does not. *)
BuiltFrom(record, cursor, removes) ==
  [id       |-> record.id,
   tuid     |-> record.tuid,
   stp      |-> record.stp,
   calendar |-> record.calendar,
   stops    |-> IF removes THEN cursor.stops ELSE OnPublicClock(cursor.stops),
   path     |-> cursor.path]

(* No schedule of a cursor that no row has come to. *)
Flush(cursor, removes) ==
  [i \in DOMAIN cursor.record |-> BuiltFrom(cursor.record[i], cursor, removes)]

Starts(cursor, row) == \A i \in DOMAIN cursor.record : cursor.record[i].id # row.record.id

Begun(cursor, row) ==
  IF Starts(cursor, row)
  THEN [NewCursor EXCEPT !.originHour =
          IF row.location = <<>> THEN UnknownHour ELSE OriginHour(row.location[1])]
  ELSE cursor

(* Whether the row is on the train's path. *)
Called(row) ==
  row.record.stp # "C" /\ row.location # <<>> /\ row.location[1].crs \notin Placeholders

BecomesAStop(row, removes) == Called(row) /\ (Passing(row.location[1]) => ~removes)

WithPath(path, crs) ==
  IF path # <<>> /\ Last(path) = crs THEN path ELSE Append(path, crs)

(* The cursor after processRow, unless the row is one it throws at. *)
Processed(cursor, row, removes) ==
  LET begun == Begun(cursor, row) IN
  [begun EXCEPT
     !.record = <<row.record>>,
     !.path   = IF Called(row) THEN WithPath(@, row.location[1].crs) ELSE @,
     !.stops  = IF BecomesAStop(row, removes)
                THEN WithStop(@, StopAt(row.location[1], begun.originHour))
                ELSE @]

(* The cursor after each of the rows. *)
CursorAfter(result, removes) ==
  LET after[n \in 0 .. Len(result)] ==
        IF n = 0 THEN NewCursor ELSE Processed(after[n - 1], result[n], removes)
  IN after

(* load(): the file source gives each schedule a builder of its own. *)
Load(result, removes) == Flush(CursorAfter(result, removes)[Len(result)], removes)

(* With no schedule at all there is no timetable, and nothing is asked. *)
BuilderInit ==
  /\ tables \in Timetables
  /\ removePassingPoints \in BOOLEAN
  /\ rows = [stream \in Streams |->
               IF tables["schedule"] = {} THEN <<>> ELSE RowsOfQuery(stream)]
  /\ cursors = [stream \in Streams |-> NewCursor]
  /\ built = <<>>
  /\ outcome = [stream \in Streams |->
                  IF tables["schedule"] = {} THEN "rejected" ELSE "loading"]

Loading(stream) == outcome[stream] = "loading"

Row(stream) == Head(rows[stream])

Fits(row) == BecomesAStop(row, removePassingPoints) => HasTime(row.location[1])

Arrives(stream) ==
  /\ Loading(stream)
  /\ rows[stream] # <<>>
  /\ rows' = [rows EXCEPT ![stream] = Tail(@)]
  /\ built' = IF Starts(cursors[stream], Row(stream))
              THEN built \o Flush(cursors[stream], removePassingPoints)
              ELSE built
  /\ UNCHANGED <<tables, removePassingPoints>>

(* A slip the runs must notice: a cursor that the streams share. *)
ProcessRowOfAny(stream) ==
  /\ Arrives(stream)
  /\ Fits(Row(stream))
  /\ cursors' = [each \in Streams |-> Processed(cursors[stream], Row(stream), removePassingPoints)]
  /\ UNCHANGED outcome

ProcessRow(stream) ==
  /\ Arrives(stream)
  /\ Fits(Row(stream))
  /\ cursors' = [cursors EXCEPT ![stream] = Processed(@, Row(stream), removePassingPoints)]
  /\ UNCHANGED outcome

(* A call without a time: the promise rejects, and further rows are ignored. *)
RowThrows(stream) ==
  /\ Arrives(stream)
  /\ ~Fits(Row(stream))
  /\ outcome' = [outcome EXCEPT ![stream] = "rejected"]
  /\ UNCHANGED cursors

EndOfRows(stream) ==
  /\ Loading(stream)
  /\ rows[stream] = <<>>
  /\ built' = built \o Flush(cursors[stream], removePassingPoints)
  /\ cursors' = [cursors EXCEPT ![stream] = NewCursor]
  /\ outcome' = [outcome EXCEPT ![stream] = "resolved"]
  /\ UNCHANGED <<tables, removePassingPoints, rows>>

QueryFails(stream) ==
  /\ Loading(stream)
  /\ outcome' = [outcome EXCEPT ![stream] = "rejected"]
  /\ UNCHANGED <<tables, removePassingPoints, rows, cursors, built>>

BuilderNext ==
  \E stream \in Streams :
    \/ ProcessRow(stream)
    \/ RowThrows(stream)
    \/ EndOfRows(stream)
    \/ QueryFails(stream)

(* Promise.all *)
AllLoaded == \A stream \in Streams : outcome[stream] = "resolved"

-----------------------------------------------------------------------------
(* Where the stops of a train are in its record, and where its path goes. *)
StopsOf(record, removes) == {row.stop : row \in {r \in RowsOf(record) : BecomesAStop(r, removes)}}

PathOf(record) == {row.stop : row \in {r \in RowsOf(record) : Called(r)}}

(* Somewhere else than the one before. *)
NewPlaces(record, those) ==
  {i \in those : \A k \in those :
     k < i /\ (\A j \in those : j <= k \/ i <= j)
       => record.locations[k].crs # record.locations[i].crs}

PlaceNumber(record, those, i) == Cardinality({j \in NewPlaces(record, those) : j <= i})

At(record, those, place) == {i \in those : PlaceNumber(record, those, i) = place}

Places(record, those) == 1 .. Cardinality(NewPlaces(record, those))

(***************************************************************************)
(* A train calls wherever its record does, once, in order, for boarding    *)
(* where any of the timing points of the place has it, and in passing only *)
(* where all have; and it goes along the path the record does.             *)
(***************************************************************************)
ServesItsPlaces(schedule, record, removes) ==
  LET calls == StopsOf(record, removes)
      along == PathOf(record)
      location == record.locations
  IN
    /\ DOMAIN schedule.stops = Places(record, calls)
    /\ \A place \in Places(record, calls) :
         LET stop == schedule.stops[place]
             here == At(record, calls, place)
         IN
         /\ here # {} /\ \A i \in here : location[i].crs = stop.crs
         /\ stop.boards <=> \E i \in here : location[i].boards
         /\ stop.passing <=> \A i \in here : Passing(location[i])
    /\ DOMAIN schedule.path = Places(record, along)
    /\ \A place \in Places(record, along) : \A i \in At(record, along, place) :
         location[i].crs = schedule.path[place]

(***************************************************************************)
(* However the two streams take turns, each record becomes one schedule,   *)
(* under an id of its own, with its own calls and no other's; and it is    *)
(* the one the file source builds of that record alone.                    *)
(***************************************************************************)
TrainsAreBuiltWhole ==
  AllLoaded =>
    LET records == UNION {RecordsOf(stream) : stream \in Streams} IN
    /\ \A k, l \in 1 .. Len(built) : built[k].id = built[l].id => k = l
    /\ {schedule.id : schedule \in ToSet(built)}
         = {record.id : record \in {r \in records : RowsOf(r) # {}}}
    /\ \A schedule \in ToSet(built) : \A record \in records :
         schedule.id = record.id =>
           /\ <<schedule>> = Load(Ordered(RowsOf(record)), removePassingPoints)
           /\ ServesItsPlaces(schedule, record, removePassingPoints)

(***************************************************************************)
(* A train never runs backwards where it passes: a pass is told after what *)
(* is before it and before what is after it, unless the calls around it    *)
(* are themselves told in another order.                                   *)
(***************************************************************************)
InOrder(stops, i, j) == stops[i].departure <= stops[j].arrival

PassesKeepTheirPlace(stops) ==
  \A i \in 1 .. Len(stops) - 1 :
    stops[i].passing \/ stops[i + 1].passing =>
      \/ InOrder(stops, i, i + 1)
      \/ Calls(stops) = {}
      \/ \E one, other \in Calls(stops) : one < other /\ ~InOrder(stops, one, other)

(* Where its origin publishes a time, nothing is told before the train leaves. *)
NothingBeforeTheOrigin(stops) ==
  \A i \in 2 .. Len(stops) : stops[1].arrival <= stops[i].arrival

OriginIsPublished(record) ==
  /\ record.locations[1].crs \notin Placeholders \cup {NoStation}
  /\ OneOf(record.locations[1].publicArr, record.locations[1].publicDep) # NoTime

(* Of every schedule, as soon as it is built. *)
PassesRunOn == \A schedule \in ToSet(built) : PassesKeepTheirPlace(schedule.stops)

TimesRunOn ==
  /\ PassesRunOn
  /\ AllLoaded =>
       \A stream \in Streams : \A record \in RecordsOf(stream) :
         \A schedule \in ToSet(built) :
           schedule.id = record.id /\ schedule.stops # <<>> /\ OriginIsPublished(record)
             => NothingBeforeTheOrigin(schedule.stops)

(***************************************************************************)
(* A train that runs within a day: what is told of its calls is told       *)
(* before the hour it left in comes again, or before the day is over if it *)
(* left before four; and nothing that is told of its origin, which may     *)
(* have more than one timing point, is later than what is told elsewhere.  *)
(***************************************************************************)
(* When a train that left at one time of day is next told at another. *)
Since(left, time) == IF time >= left THEN time ELSE time + Day

ToldToArrive(location, left) ==
  LET times == TimesOf(location) IN Since(left, OneOf(times[1], times[2]))

ToldToLeave(location, left) ==
  LET times == TimesOf(location) IN Since(left, OneOf(times[2], times[1]))

EndOfDay(left) == IF left \div Hour < 4 THEN Day ELSE (left \div Hour) * Hour + Day

(* A place is told by one for boarding, or by the first that is not passed. *)
MayBeTold(record, those, i) ==
  \/ record.locations[i].boards
  \/ \A k \in At(record, those, PlaceNumber(record, those, i)) :
       k < i => Passing(record.locations[k])

RunsWithinADay(record, removes) ==
  LET location == record.locations
      stops    == StopsOf(record, removes)
      calls    == {i \in stops : /\ ~Passing(location[i]) /\ HasTime(location[i])
                                /\ MayBeTold(record, stops, i)}
      origin   == At(record, stops, 1)
      left     == OneOf(location[1].publicArr, location[1].publicDep)
  IN
    /\ ~Passing(location[1])
    /\ \A i \in calls :
         /\ ToldToArrive(location[i], left) < EndOfDay(left)
         /\ ToldToLeave(location[i], left) < EndOfDay(left)
    /\ \A i \in calls \cap origin : \A j \in calls :
         /\ j \notin origin =>
              ToldToArrive(location[i], left) <= ToldToArrive(location[j], left)
         /\ j \notin origin \/ j = i =>
              ToldToArrive(location[i], left) <= ToldToLeave(location[j], left)

(* Of every record the tables may hold, of an origin that publishes a time. *)
TrainsRunWithinADay ==
  \A timetable \in Timetables : \A stream \in Streams : \A record \in timetable[stream] :
    record.locations # <<>> /\ OriginIsPublished(record) =>
      \A removes \in BOOLEAN : RunsWithinADay(record, removes)

(***************************************************************************)
(* The same for trains whose origin publishes nothing: they are taken to   *)
(* leave at four, which they may not.  See the README.                     *)
(***************************************************************************)
NothingBeforeAnyOrigin ==
  AllLoaded => \A schedule \in ToSet(built) : NothingBeforeTheOrigin(schedule.stops)
============================================================================
