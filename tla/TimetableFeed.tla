--------------------------- MODULE TimetableFeed ---------------------------
(***************************************************************************)
(* A timetable feed as its two readers meet it, the importer of            *)
(* apps/dtd2mysql and the file source of libs/dtd-source: a full refresh   *)
(* and then its incrementals, each a file of schedules (MCA or CFA) and a  *)
(* file of z-trains (ZTR).                                                 *)
(*                                                                         *)
(* A record stands for a BS line and the BX, LO, LI and LT lines under it. *)
(* Its number, the count of records before it, stands for what those lines *)
(* say, so that the calls and the operator of two records never coincide.  *)
(***************************************************************************)
EXTENDS Naturals

CONSTANTS
  Trains,         \* the keys of schedule: train_uid, runs_from, stp_indicator
  ZTrains,        \* the keys of z_schedule
  MaxFeeds,       \* bound: how many feeds are read
  MaxRecords      \* bound: how many records they hold between them

ASSUME FeedAssumption == MaxFeeds \in Nat /\ MaxRecords \in Nat

VARIABLES
  stage,          \* the file being read, or where between files the readers are
  feeds,          \* how many feeds have been opened
  records         \* how many records have been read

feedVars == <<stage, feeds, records>>

(* The two files of a feed, by the name of the record that starts a train. *)
Files == {"schedule", "z_schedule"}

Keys(file) == IF file = "schedule" THEN Trains ELSE ZTrains

(***************************************************************************)
(* New, revise and delete.  A ZTR has no action column that is read: every *)
(* record of it is an Insert.                                              *)
(***************************************************************************)
Actions(file) == IF file = "schedule" THEN {"N", "R", "D"} ELSE {"N"}

(***************************************************************************)
(* Where a train calls: somewhere that is a station, only where none is,   *)
(* or nowhere at all.  The calls of a z-train name stations to begin with. *)
(***************************************************************************)
Calls(file) ==
  IF file = "schedule" THEN {"station", "elsewhere", "none"} ELSE {"station", "none"}

(* live: the train runs in the window the timetable is asked for. *)
Record ==
  UNION {[n : Nat \ {0}, file : {file}, key : Keys(file), action : Actions(file) \ {"D"},
          live : BOOLEAN, calls : Calls(file)] : file \in Files}
    \cup [n : Nat \ {0}, file : {"schedule"}, key : Trains, action : {"D"},
          live : {FALSE}, calls : {"none"}]

FeedInit ==
  /\ stage = "between feeds"
  /\ feeds = 0
  /\ records = 0

Refresh == feeds = 0

OpenFeed ==
  /\ stage = "between feeds"
  /\ feeds < MaxFeeds
  /\ stage' = "schedule"
  /\ feeds' = feeds + 1
  /\ UNCHANGED records

ReadRecord(record) ==
  /\ stage = record.file
  /\ records < MaxRecords
  /\ record.n = records + 1
  /\ records' = records + 1
  /\ UNCHANGED <<stage, feeds>>

EndFile(file) ==
  /\ stage = file
  /\ stage' = IF file = "schedule" THEN "z_schedule" ELSE "closing"
  /\ UNCHANGED <<feeds, records>>

EndFeed ==
  /\ stage = "closing"
  /\ stage' = "between feeds"
  /\ UNCHANGED <<feeds, records>>

FeedTypeOK ==
  /\ stage \in Files \cup {"closing", "between feeds"}
  /\ feeds \in 0 .. MaxFeeds
  /\ records \in 0 .. MaxRecords
============================================================================
