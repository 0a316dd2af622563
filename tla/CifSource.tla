----------------------------- MODULE CifSource -----------------------------
(***************************************************************************)
(* ScheduleLoader of libs/dtd-source/src/cif/CifFileSource.ts, which reads *)
(* the feeds with no database.  It keeps finished schedules by key, and    *)
(* only those the timetable wants: the rows of the rest, which a table     *)
(* would hold, leave no trace.                                             *)
(***************************************************************************)
EXTENDS TimetableFeed

VARIABLES
  kept,           \* file -> schedules and zSchedules
  pending,        \* the schedule being read, at most one
  sourceId        \* file -> scheduleId and zScheduleId

sourceVars == <<kept, pending, sourceId>>

SourceInit ==
  /\ kept = [file \in Files |-> {}]
  /\ pending = {}
  /\ sourceId = [file \in Files |-> 0]

(***************************************************************************)
(* scheduleRows and zTrainRows: a schedule yields something if it calls at *)
(* a station; one with no calls at all survives as a row of nulls, unless  *)
(* it is a z-train.                                                        *)
(***************************************************************************)
Yields(schedule) ==
  \/ schedule.calls = "station"
  \/ schedule.calls = "none" /\ schedule.file = "schedule"

Without(schedules, key) == {schedule \in schedules : schedule.key # key}

(* store(): the pending schedule, if it yields anything, enters its map. *)
Stored ==
  [file \in Files |->
     LET new == {schedule \in pending : schedule.file = file /\ Yields(schedule)} IN
     {schedule \in kept[file] : \A other \in new : other.key # schedule.key} \cup new]

Held(key, schedules) == \E schedule \in schedules : schedule.key = key

(* A slip the runs must notice: a revision drops the old only if it is wanted. *)
WantedOrDeleted(record) ==
  record.action = "D" \/ (record.action = "R" /\ record.live)

(* REPLACE INTO takes the old row whether or not the new one is wanted. *)
DropsTheOld(record) == record.action \in {"R", "D"}

(* A slip the runs must notice: a revision keeps the number of what it revises. *)
NumberKept(record) ==
  LET old == {schedule \in kept[record.file] : schedule.key = record.key} IN
  IF old = {} THEN sourceId[record.file] + 1 ELSE (CHOOSE schedule \in old : TRUE).id

(* The number a record takes, if it is not a deletion. *)
Number(record) == sourceId[record.file] + 1

(***************************************************************************)
(* startSchedule, and the lines under it.  The id is taken whether or not  *)
(* the schedule is kept.                                                   *)
(***************************************************************************)
SourceReads(record) ==
  LET file   == record.file
      stored == Stored
      wanted == record.live /\ (record.action = "N" => ~Held(record.key, stored[file]))
  IN
    /\ kept' = [stored EXCEPT ![file] = IF DropsTheOld(record) THEN Without(@, record.key) ELSE @]
    /\ sourceId' = [sourceId EXCEPT ![file] = IF record.action = "D" THEN @ ELSE @ + 1]
    /\ pending' = IF wanted /\ record.action # "D"
                  THEN {[id |-> Number(record), file |-> file, key |-> record.key,
                         n |-> record.n, calls |-> record.calls]}
                  ELSE {}

(* endOfFile *)
SourceEndsFile ==
  /\ kept' = Stored
  /\ pending' = {}
  /\ UNCHANGED sourceId

SourceTypeOK ==
  /\ \A file \in Files : \A schedule \in kept[file] :
       schedule.file = file /\ schedule.key \in Keys(file) /\ Yields(schedule)
  /\ \A one, other \in pending : one = other
  /\ sourceId \in [Files -> Nat]
============================================================================
