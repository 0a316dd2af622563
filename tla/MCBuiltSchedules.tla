------------------------ MODULE MCBuiltSchedules ------------------------
(***************************************************************************)
(* Timetables of two kinds: many records with calls that are all alike, to *)
(* be overlaid, on four days from a Friday to a Monday so that ranges      *)
(* cross the end of the week; and one record with any of many journeys.    *)
(***************************************************************************)
EXTENDS BuiltSchedules

CONSTANTS train, ztrain, A, B, C, X, nowhere

Ranges == {<<5, 8>>, <<7, 8>>}

MCCalendars ==
  {[from |-> r[1], to |-> r[2], days |-> DaysOfWeek, exclude |-> {}] : r \in Ranges}
    \cup {[from |-> 5, to |-> 8, days |-> {0, 6}, exclude |-> {}],
          [from |-> 5, to |-> 6, days |-> {1}, exclude |-> {}]}

EveryDay == [from |-> 5, to |-> 8, days |-> DaysOfWeek, exclude |-> {}]

Stopping(crs, pass, arr, dep, publicArr, publicDep, boards) ==
  [crs |-> crs, pass |-> pass, arr |-> arr, dep |-> dep,
   publicArr |-> publicArr, publicDep |-> publicDep, boards |-> boards]

(* Called at from one time to another, and published some half-minutes late. *)
Call(crs, arr, dep, late) ==
  Stopping(crs, NoTime, arr % Day, dep % Day, (arr + late) % Day, (dep + late) % Day, TRUE)

SetDown(crs, arr, dep, late) ==
  Stopping(crs, NoTime, arr % Day, dep % Day, (arr + late) % Day, NoTime, TRUE)

Unadvertised(crs, arr, dep) ==
  Stopping(crs, NoTime, arr % Day, dep % Day, NoTime, NoTime, FALSE)

Pass(crs, time) ==
  Stopping(crs, time % Day, NoTime, NoTime, NoTime, NoTime, FALSE)

Untimed(crs) == Stopping(crs, NoTime, NoTime, NoTime, NoTime, NoTime, TRUE)

Plain == <<Call(A, 10 * Hour, 10 * Hour, 0), Call(B, 11 * Hour, 11 * Hour, 0)>>

RecordOf(id, tuid, stp, calendar, locations) ==
  [id |-> id, tuid |-> tuid, stp |-> stp, calendar |-> calendar, locations |-> locations]

(* The records of a table, by id, under the unique key of the schema. *)
Keyed(stps) ==
  {[stp |-> stp, calendar |-> calendar] : stp \in stps, calendar \in MCCalendars}

Distinct(S) ==
  \A one, other \in S :
    one.stp = other.stp /\ one.calendar.from = other.calendar.from => one = other

(* The one order that has the query sort them all. *)
Reversed(S) ==
  SetToSortSeq(S, LAMBDA one, other :
    \/ Descending[one.stp] > Descending[other.stp]
    \/ one.stp = other.stp /\ one.calendar.from > other.calendar.from)

Table(tuid, s) ==
  {RecordOf(i, tuid, s[i].stp, s[i].calendar, IF s[i].stp = "C" THEN <<>> ELSE Plain) :
     i \in DOMAIN s}

ManyRecords ==
  {Table(train, Reversed(S)) :
     S \in {R \in kSubset(3, Keyed(STP)) \cup kSubset(4, Keyed(STP)) : Distinct(R)}}

FewRecords ==
  UNION {{Table(train, s) : s \in SetToSeqs(S)} : S \in {R \in kSubset(2, Keyed(STP)) : Distinct(R)}}

ZTrains ==
  {Table(ztrain, Reversed(S)) : S \in {R \in kSubset(2, Keyed({"P"})) : Distinct(R)}}

(***************************************************************************)
(* Journeys: from A, over two more locations, to C.  The train leaves just *)
(* before midnight, just after, or just before four.                       *)
(***************************************************************************)
Departures == {24 * Hour - 2, 24 * Hour + 30, 28 * Hour - 4}

Origins(t) ==
  {Call(A, t, t, 0), SetDown(A, t, t + 2, 4), Unadvertised(A, t, t), Pass(A, t), Call(X, t, t, 0)}

Second(t) ==
  {Pass(B, t), Pass(A, t), Call(B, t, t + 1, 3), Unadvertised(A, t, t), Pass(X, t),
   Pass(nowhere, t)}

Third(t) ==
  {Pass(B, t), Pass(C, t + 5), Pass(C, t - 9), Unadvertised(B, t, t), Call(C, t, t, 0)}

Fourth(t) == {Call(C, t, t, 0), SetDown(C, t, t + 4, -5), SetDown(C, t, t + 4, 5), Pass(C, t), Untimed(C)}

Journeys ==
  UNION {{<<o, b, c, e>> : o \in Origins(t), b \in Second(t + 3), c \in Third(t + 6),
                           e \in Fourth(t + 9)} : t \in Departures}

OneJourney == {{RecordOf(1, train, "P", EveryDay, journey)} : journey \in Journeys}

Tables(passenger, z) ==
  {("schedule" :> records) @@ ("z_schedule" :> zRecords) : records \in passenger, zRecords \in z}

MCTimetables ==
  Tables(ManyRecords \cup OneJourney \cup {{}}, {{}}) \cup Tables(FewRecords, ZTrains)

(* The journeys of the run are what the proof of TimesRunOn supposes. *)
ASSUME TrainsRunInTheRun == TrainsRunWithinADay
=========================================================================
