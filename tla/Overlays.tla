---------------------------- MODULE Overlays ----------------------------
(***************************************************************************)
(* applyOverlays of libs/gtfs/src/transform/ApplyOverlays.ts.              *)
(*                                                                         *)
(* A train (a TUID) is described by several records: permanent ones, and   *)
(* overlays, short-term additions and cancellations over some of their     *)
(* days.  They arrive permanent first and cancellations last, and each is  *)
(* applied to everything kept so far for the same TUID: the days the       *)
(* newcomer runs are excluded from the older record, which is dropped when *)
(* no day is left.  A cancellation is applied and then forgotten.          *)
(*                                                                         *)
(* The loop over the older records is a for-of over the very array it      *)
(* splices, so the iterator's position is part of the state: dropping the  *)
(* record under the iterator moves the next one under it, and advancing    *)
(* then passes that one by.                                                *)
(***************************************************************************)
EXTENDS ServiceCalendar, Sequences, SequencesExt

CONSTANTS
  Tuids,          \* the trains
  Calendars,      \* the calendars the source gives its records
  MaxSchedules    \* bound: how many records the source holds

STP == {"P", "O", "N", "C"}

ASSUME CalendarsAssumption == Calendars \subseteq Calendar

ASSUME MaxSchedulesAssumption == MaxSchedules \in Nat

VARIABLES
  schedules,      \* the records read so far, in the order of the source
  phase,          \* where the outer loop is
  at,             \* where the inner iterator is, counted from 1
  index           \* schedulesByTuid

vars == <<schedules, phase, at, index>>

Schedule ==
  [id : Nat, tuid : Tuids, stp : STP, calendar : Calendar]

(***************************************************************************)
(* Of one train.  Passenger records arrive by STP indicator, descending,   *)
(* and then by id: P, O, N, C.  Z-trains, all of them permanent, are read  *)
(* beside them by the database and after them by the files, so records of  *)
(* different trains arrive in any order.  The schema's unique key is       *)
(* (train_uid, runs_from, stp_indicator).                                  *)
(***************************************************************************)
Rank(stp) ==
  CASE stp = "P" -> 1
    [] stp = "O" -> 2
    [] stp = "N" -> 3
    [] stp = "C" -> 4

MayFollow(schedule) ==
  \A k \in 1 .. Len(schedules) :
    LET before == schedules[k] IN
      before.tuid = schedule.tuid =>
        /\ Rank(before.stp) <= Rank(schedule.stp)
        /\ before.stp = schedule.stp
             => before.calendar.from # schedule.calendar.from

Current == schedules[Len(schedules)]

Bases == index[Current.tuid]

Init ==
  /\ schedules = <<>>
  /\ phase = "next"
  /\ at = 1
  /\ index = [tuid \in Tuids |-> <<>>]

NextSchedule ==
  /\ phase = "next"
  /\ Len(schedules) < MaxSchedules
  /\ \E tuid \in Tuids, stp \in STP, calendar \in Calendars :
       LET schedule == [id       |-> Len(schedules) + 1,
                        tuid     |-> tuid,
                        stp      |-> stp,
                        calendar |-> calendar]
       IN  /\ MayFollow(schedule)
           /\ schedules' = Append(schedules, schedule)
  /\ phase' = "overlay"
  /\ at' = 1
  /\ UNCHANGED index

Applying == phase = "overlay" /\ at <= Len(Bases)

(* A slip the runs must notice: permanent records left alone. *)
KeepBaseOfAPermanent ==
  /\ Applying
  /\ Current.stp = "P" \/ ~Overlaps(Bases[at].calendar, Current.calendar)
  /\ at' = at + 1
  /\ UNCHANGED <<schedules, phase, index>>

(***************************************************************************)
(* The three outcomes of applyOverlay, each with the splice it leads to.   *)
(***************************************************************************)
KeepBase ==
  /\ Applying
  /\ ~Overlaps(Bases[at].calendar, Current.calendar)
  /\ at' = at + 1
  /\ UNCHANGED <<schedules, phase, index>>

Remainder(base) == WithoutDaysOf(base.calendar, Current.calendar)

Cut(base) == [base EXCEPT !.calendar = Remainder(base)]

ExcludeFromBase ==
  /\ Applying
  /\ Overlaps(Bases[at].calendar, Current.calendar)
  /\ ~IsEmpty(Remainder(Bases[at]))
  /\ index' = [index EXCEPT ![Current.tuid] =
                 [Bases EXCEPT ![at] = Cut(Bases[at])]]
  /\ at' = at + 1
  /\ UNCHANGED <<schedules, phase>>

(* A slip the runs must notice: the iterator is set back once too often. *)
DropBaseAndStepBack ==
  /\ Applying
  /\ Overlaps(Bases[at].calendar, Current.calendar)
  /\ IsEmpty(Remainder(Bases[at]))
  /\ index' = [index EXCEPT ![Current.tuid] = RemoveAt(Bases, at)]
  /\ at' = at - 1
  /\ UNCHANGED <<schedules, phase>>

DropBase ==
  /\ Applying
  /\ Overlaps(Bases[at].calendar, Current.calendar)
  /\ IsEmpty(Remainder(Bases[at]))
  /\ index' = [index EXCEPT ![Current.tuid] = RemoveAt(Bases, at)]
  /\ at' = at + 1
  /\ UNCHANGED <<schedules, phase>>

AddToIndex ==
  /\ phase = "overlay"
  /\ at > Len(Bases)
  /\ index' = IF Current.stp = "C"
              THEN index
              ELSE [index EXCEPT ![Current.tuid] = Append(Bases, Current)]
  /\ phase' = "next"
  /\ UNCHANGED <<schedules, at>>

Return ==
  /\ phase = "next"
  /\ phase' = "done"
  /\ UNCHANGED <<schedules, at, index>>

Returned == phase = "done" /\ UNCHANGED vars

Next ==
  \/ NextSchedule
  \/ KeepBase
  \/ ExcludeFromBase
  \/ DropBase
  \/ AddToIndex
  \/ Return
  \/ Returned

Spec == Init /\ [][Next]_vars
-----------------------------------------------------------------------------
(***************************************************************************)
(* What the index promises.                                                *)
(***************************************************************************)
Kept(tuid) == ToSet(index[tuid])

(* A record read, and applied, and not merely a list of days to take away. *)
Published(k) ==
  /\ schedules[k].stp # "C"
  /\ phase = "overlay" => k # Len(schedules)

(* No record read after record k runs its train on date. *)
LastWordOn(k, date) ==
  \A later \in k + 1 .. Len(schedules) :
    schedules[later].tuid = schedules[k].tuid
      => date \notin RunDays(schedules[later].calendar)

TypeOK ==
  /\ schedules \in Seq(Schedule)
  /\ \A k \in 1 .. Len(schedules) : schedules[k].id = k
  /\ phase \in {"next", "overlay", "done"}
  /\ phase = "overlay" => schedules # <<>>
  /\ at \in Nat \ {0}
  /\ index \in [Tuids -> Seq(Schedule)]

(***************************************************************************)
(* No train is lost: a day on which record k has the last word is run by   *)
(* what is left of record k, however its neighbours were cut or dropped    *)
(* and wherever the iterator was when they were.                           *)
(***************************************************************************)
NoDayLost ==
  \A k \in 1 .. Len(schedules) :
    Published(k) =>
      \A date \in RunDays(schedules[k].calendar) :
        LastWordOn(k, date) =>
          \E kept \in Kept(schedules[k].tuid) :
            kept.id = k /\ date \in RunDays(kept.calendar)

(***************************************************************************)
(* Between two records of a train, a day is run twice only where a record  *)
(* older than both was dropped: the one case in which the splice under the *)
(* iterator passes a record by.  Nothing else leaves a superseded day.     *)
(***************************************************************************)
Dropped(tuid, k) ==
  /\ schedules[k].tuid = tuid
  /\ Published(k)
  /\ \A kept \in Kept(tuid) : kept.id # k

TwiceOnlyPastADrop ==
  phase # "overlay" =>
    \A tuid \in Tuids : \A kept \in Kept(tuid) :
      \A date \in RunDays(kept.calendar) :
        \/ LastWordOn(kept.id, date)
        \/ \E k \in 1 .. kept.id - 1 : Dropped(tuid, k)

(***************************************************************************)
(* What a train's records are for: on each day at most one of them runs.   *)
(* The code does not keep this promise; see the README.                    *)
(***************************************************************************)
OneRecordADay ==
  phase = "done" =>
    \A tuid \in Tuids : \A one, other \in Kept(tuid) :
      RunDays(one.calendar) \cap RunDays(other.calendar) # {} => one = other
==========================================================================
