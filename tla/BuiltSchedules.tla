-------------------------- MODULE BuiltSchedules --------------------------
(***************************************************************************)
(* The schedules of a timetable from the tables to the index: the builder  *)
(* loads both streams, and then applyOverlays takes the schedules one by   *)
(* one, in the order they were built.                                      *)
(***************************************************************************)
EXTENDS Overlays, ScheduleBuilder

Record ==
  [id : Nat \ {0}, tuid : Tuids, stp : STP, calendar : Calendars, locations : Seq(Location)]

(* A table of the schema: its primary key, and its unique one. *)
IsATable(records) ==
  /\ IsFiniteSet(records)
  /\ records \subseteq Record
  /\ \A one, other \in records :
       \/ one.id = other.id
       \/ /\ one.tuid = other.tuid
          /\ one.stp = other.stp
          /\ one.calendar.from = other.calendar.from
       => one = other

(***************************************************************************)
(* Z-trains are permanent, and no train UID is in both tables              *)
(* (docs/restructure.md:1024, 2029-2030).                                  *)
(***************************************************************************)
IsOfZTrains(zRecords, records) ==
  \A zRecord \in zRecords :
    /\ zRecord.stp = "P"
    /\ \A record \in records : record.tuid # zRecord.tuid

ASSUME TimetablesAssumption ==
  \A timetable \in Timetables :
    /\ timetable \in [Streams -> SUBSET Record]
    /\ \A stream \in Streams : IsATable(timetable[stream])
    /\ IsOfZTrains(timetable["z_schedule"], timetable["schedule"])
    /\ Cardinality(timetable["schedule"]) + Cardinality(timetable["z_schedule"]) <= MaxSchedules

AllInit == Init /\ BuilderInit

LoadRows == BuilderNext /\ UNCHANGED vars

(***************************************************************************)
(* The next schedule, whatever it is.  Overlays counts its records from    *)
(* one, where the source has ids of its own.                               *)
(***************************************************************************)
TakeSchedule ==
  /\ AllLoaded
  /\ phase = "next"
  /\ Len(schedules) < Len(built)
  /\ LET next == built[Len(schedules) + 1] IN
       schedules' = Append(schedules,
                           [id       |-> Len(schedules) + 1,
                            tuid     |-> next.tuid,
                            stp      |-> next.stp,
                            calendar |-> next.calendar])
  /\ phase' = "overlay"
  /\ at' = 1
  /\ UNCHANGED index

EndOfSchedules == AllLoaded /\ Len(schedules) = Len(built) /\ Return

Overlay == TakeSchedule \/ KeepBase \/ ExcludeFromBase \/ DropBase \/ AddToIndex \/ EndOfSchedules

(* The build fails when a stream has. *)
Failed == \E stream \in Streams : outcome[stream] = "rejected"

Ended ==
  /\ \/ phase = "done"
     \/ Failed /\ \A stream \in Streams : ~Loading(stream)
  /\ UNCHANGED <<vars, builderVars>>

AllNext ==
  \/ LoadRows
  \/ Overlay /\ UNCHANGED builderVars
  \/ Ended

AllSpec == AllInit /\ [][AllNext]_<<vars, builderVars>>
-----------------------------------------------------------------------------
(***************************************************************************)
(* The queries and the builder keep the order applyOverlays relies on:     *)
(* what it is given is always a record it may be given, so all of its      *)
(* steps are steps of Overlays.                                            *)
(***************************************************************************)
OverlaysGetTheirOrder == Spec
============================================================================
