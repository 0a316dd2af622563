--------------------------- MODULE FeedCycle ---------------------------
(***************************************************************************)
(* How the database keeps up with the feeds on the SFTP server, run after  *)
(* run of --get-timetable and its siblings: DownloadCommand and            *)
(* DownloadAndProcessCommand of libs/dtd-source, with the ImportFeedCommand*)
(* and the LogTableFeedCursor that apps/dtd2mysql supplies to them.        *)
(*                                                                         *)
(* A feed is its place in the order of publication: "F", a full refresh    *)
(* that replaces the database, or "C", the changes since the feed before.  *)
(* What a feed does to the database is one entry of db, the feeds imported *)
(* since the tables were last created.  Into a database that lacks tables  *)
(* the entry is not made: the next refresh drops what there is of it.      *)
(*                                                                         *)
(* Errors are where the code swallows them: a failed transfer leaves the   *)
(* list of files as it was, a failed import is printed and the loop goes   *)
(* on, a failed record ends its file and the feed is logged all the same.  *)
(* A refresh drops every table and creates it again, one by one, so that a *)
(* failure half way leaves a database in which some tables do not exist.   *)
(***************************************************************************)
EXTENDS Naturals, FiniteSets, FiniteSetsExt, Sequences

CONSTANTS
  MaxFeeds,       \* bound: feeds published
  MaxFaults,      \* bound: faults, crashes included
  HasTimetable    \* whether the database holds the timetable's tables too

ASSUME MaxFeedsAssumption == MaxFeeds \in Nat

ASSUME MaxFaultsAssumption == MaxFaults \in Nat

ASSUME HasTimetableAssumption == HasTimetable \in BOOLEAN

VARIABLES
  kinds,          \* the feeds published, in order
  oldest,         \* the oldest one the server still lists
  logged,         \* the last file in the log table, 0 where there is none
  db,             \* what has been imported since the tables were all created
  tables,         \* whether the tables are there: "all", all but ones that no
                  \* id counter is read from ("patchy"), or fewer ("missing")
  logTable,       \* whether the log table has been created
  phase,          \* what the running command is doing
  next,           \* the file being processed ...
  last,           \* ... and the last one to process
  fetched,        \* the files whose transfer completed
  faults,         \* how many faults there have been
  hit             \* the feeds whose import a fault interrupted

server == <<kinds, oldest>>
local == <<next, last, fetched>>
schema == <<tables, logTable>>
vars == <<server, logged, db, schema, phase, local, faults, hit>>

Feeds == 1 .. Len(kinds)

Listed == oldest .. Len(kinds)

Init ==
  /\ kinds = <<>>
  /\ oldest = 1
  /\ logged = 0
  /\ db = <<>>
  /\ tables = "missing"
  /\ logTable = FALSE
  /\ phase = "idle"
  /\ next = 1
  /\ last = 0
  /\ fetched = {}
  /\ faults = 0
  /\ hit = {}
-----------------------------------------------------------------------------
(***************************************************************************)
(* The server publishes feeds, and may stop listing the oldest.            *)
(***************************************************************************)
Publish ==
  /\ Len(kinds) < MaxFeeds
  /\ \E kind \in {"F", "C"} : kinds' = Append(kinds, kind)
  /\ UNCHANGED <<oldest, logged, db, phase, local, faults, hit, schema>>

Expire ==
  /\ oldest < Len(kinds)
  /\ oldest' = oldest + 1
  /\ UNCHANGED <<kinds, logged, db, phase, local, faults, hit, schema>>
-----------------------------------------------------------------------------
(***************************************************************************)
(* getFilesToProcess: the files after the last one processed, unless a     *)
(* refresh came after that one or it is not listed: then the last refresh  *)
(* and what came after it.  0 stands for findIndex finding nothing.        *)
(***************************************************************************)
LastRefresh == Max({i \in Listed : kinds[i] = "F"} \cup {0})

LastFile(cursor) == IF cursor \in Listed THEN cursor ELSE 0

(* A slip the runs must notice: the last file processed taken again. *)
FirstToProcessInclusive(cursor) ==
  IF LastFile(cursor) > 0 /\ LastFile(cursor) >= LastRefresh
  THEN LastFile(cursor)
  ELSE IF LastRefresh > 0 THEN LastRefresh ELSE Len(kinds) + 1

(* A slip the runs must notice: nothing to start from but the last file. *)
FirstToProcessAfterLast(cursor) ==
  IF LastFile(cursor) > 0 THEN LastFile(cursor) + 1 ELSE Len(kinds) + 1

FirstToProcess(cursor) ==
  IF LastFile(cursor) > 0 /\ LastFile(cursor) >= LastRefresh
  THEN LastFile(cursor) + 1
  ELSE IF LastRefresh > 0 THEN LastRefresh ELSE Len(kinds) + 1

Fault == faults < MaxFaults /\ faults' = faults + 1

StartWith(cursor) ==
  /\ phase = "idle"
  /\ next' = FirstToProcess(cursor)
  /\ last' = Len(kinds)
  /\ phase' = "fetching"
  /\ UNCHANGED <<server, logged, db, fetched, hit, schema>>

Start == StartWith(logged) /\ UNCHANGED faults

(* The cursor swallows the error and says that nothing was processed. *)
StartWithoutCursor == StartWith(0) /\ Fault

Fetch ==
  /\ phase = "fetching"
  /\ fetched' = next .. last
  /\ phase' = "importing"
  /\ UNCHANGED <<server, logged, db, next, last, faults, hit, schema>>

(***************************************************************************)
(* The first transfer to fail ends the wait for the others, and sftp.end   *)
(* cuts them off: any of them may have completed.  All the names are       *)
(* handed on.                                                              *)
(***************************************************************************)
FetchFails ==
  /\ phase = "fetching"
  /\ Fault
  /\ \E whole \in SUBSET (next .. last) :
       whole # next .. last /\ fetched' = whole
  /\ phase' = "importing"
  /\ UNCHANGED <<server, logged, db, next, last, hit, schema>>
-----------------------------------------------------------------------------
(***************************************************************************)
(* doImport, called for each file in turn.                                 *)
(***************************************************************************)
GiveUp ==
  /\ hit' = hit \cup {next}
  /\ next' = next + 1
  /\ phase' = "importing"

(* restoreIdCounters, which a refresh reaches with its tables created. *)
CanRestoreIdCounters == kinds[next] = "F" \/ tables # "missing"

Extract ==
  /\ phase = "importing"
  /\ next <= last
  /\ next \in fetched
  /\ CanRestoreIdCounters
  /\ phase' = IF kinds[next] = "F" THEN "schema" ELSE "records"
  /\ UNCHANGED <<server, logged, db, schema, local, faults, hit>>

ExtractFails ==
  /\ phase = "importing"
  /\ next <= last
  /\ next \notin fetched \/ ~CanRestoreIdCounters
  /\ GiveUp
  /\ UNCHANGED <<server, logged, db, schema, last, fetched, faults>>

(* A full disk, or a query that fails. *)
ExtractBreaks ==
  /\ phase = "importing"
  /\ next <= last
  /\ Fault
  /\ GiveUp
  /\ UNCHANGED <<server, logged, db, schema, last, fetched>>

(* A slip the runs must notice: a refresh that leaves the tables as they were. *)
SetupSchemaKeepingTables ==
  /\ phase = "schema"
  /\ tables' = "all"
  /\ logTable' = TRUE
  /\ phase' = "records"
  /\ UNCHANGED <<server, logged, db, local, faults, hit>>

SetupSchema ==
  /\ phase = "schema"
  /\ db' = <<>>
  /\ tables' = "all"
  /\ logTable' = TRUE
  /\ phase' = "records"
  /\ UNCHANGED <<server, logged, local, faults, hit>>

(* Nothing dropped yet, or everything and then some of it created again. *)
PartOfTheSchema ==
  \/ UNCHANGED <<db, tables>>
  \/ db' = <<>> /\ tables' \in {"missing", "patchy", "all"}

SetupSchemaFails ==
  /\ phase = "schema"
  /\ Fault
  /\ PartOfTheSchema
  /\ GiveUp
  /\ UNCHANGED <<server, logged, logTable, last, fetched>>

(* Where a table is missing, its records are lost. *)
Imported == IF tables = "all" THEN Append(db, next) ELSE db

ProcessFiles ==
  /\ phase = "records"
  /\ db' = Imported
  /\ hit' = IF tables = "all" THEN hit ELSE hit \cup {next}
  /\ phase' = "logging"
  /\ UNCHANGED <<server, logged, schema, local, faults>>

(* processFile prints the error and returns: the import carries on. *)
ProcessFilesFails ==
  /\ phase = "records"
  /\ Fault
  /\ db' = Imported
  /\ hit' = hit \cup {next}
  /\ phase' = "logging"
  /\ UNCHANGED <<server, logged, schema, local>>

UpdateLastFile ==
  /\ phase = "logging"
  /\ logTable /\ HasTimetable
  /\ logged' = next
  /\ next' = next + 1
  /\ phase' = "importing"
  /\ UNCHANGED <<server, db, schema, last, fetched, faults, hit>>

(***************************************************************************)
(* removeOrphanStopTimes comes before it, whatever the feed: it throws     *)
(* where one of the timetable's tables is missing, as the insert does      *)
(* where there is no log.                                                  *)
(***************************************************************************)
CannotUpdateLastFile ==
  /\ phase = "logging"
  /\ ~logTable \/ tables # "all" \/ ~HasTimetable
  /\ GiveUp
  /\ UNCHANGED <<server, logged, db, schema, last, fetched, faults>>

UpdateLastFileFails ==
  /\ phase = "logging"
  /\ Fault
  /\ GiveUp
  /\ UNCHANGED <<server, logged, db, schema, last, fetched>>

End ==
  /\ phase = "importing"
  /\ next > last
  /\ phase' = "idle"
  /\ UNCHANGED <<server, logged, db, schema, local, faults, hit>>

(***************************************************************************)
(* The process dies.  Every statement commits by itself, so whatever part  *)
(* of the feed was written stays.                                          *)
(***************************************************************************)
Crash ==
  /\ phase # "idle"
  /\ Fault
  /\ \/ phase = "schema" /\ PartOfTheSchema
     \/ phase = "records" /\ db' = Imported /\ UNCHANGED tables
     \/ phase # "schema" /\ UNCHANGED <<db, tables>>
  /\ hit' = IF phase \in {"schema", "records", "logging"} THEN hit \cup {next} ELSE hit
  /\ phase' = "idle"
  /\ UNCHANGED <<server, logged, logTable, local>>

Step ==
  \/ Fetch
  \/ Extract
  \/ ExtractFails
  \/ SetupSchema
  \/ ProcessFiles
  \/ UpdateLastFile
  \/ CannotUpdateLastFile
  \/ End

Breakdown ==
  \/ StartWithoutCursor
  \/ FetchFails
  \/ ExtractBreaks
  \/ SetupSchemaFails
  \/ ProcessFilesFails
  \/ UpdateLastFileFails
  \/ Crash

Next ==
  \/ Publish
  \/ Expire
  \/ Start
  \/ Step
  \/ Breakdown

(***************************************************************************)
(* The command is run again and again, by a schedule, and what it has      *)
(* started goes on.  Nothing obliges the server to publish, or a fault to  *)
(* happen.                                                                 *)
(***************************************************************************)
Spec == Init /\ [][Next]_vars /\ WF_vars(Start) /\ WF_vars(Step)
-----------------------------------------------------------------------------
TypeOK ==
  /\ kinds \in Seq({"F", "C"})
  /\ oldest \in Nat \ {0}
  /\ logged \in Nat
  /\ db \in Seq(Nat \ {0})
  /\ tables \in {"missing", "patchy", "all"}
  /\ logTable \in BOOLEAN
  /\ phase \in {"idle", "fetching", "importing", "schema", "records", "logging"}
  /\ next \in Nat \ {0}
  /\ last \in 0 .. Len(kinds)
  /\ fetched \subseteq Nat
  /\ faults \in 0 .. MaxFaults
  /\ hit \subseteq Feeds

(***************************************************************************)
(* The refresh the database stands on, going by the log.                   *)
(***************************************************************************)
Refresh == Max({i \in 1 .. logged : kinds[i] = "F"} \cup {0})

Times(feed) == Cardinality({i \in 1 .. Len(db) : db[i] = feed})

(***************************************************************************)
(* The cursor skips no feed and repeats none.  Between two runs, every     *)
(* feed from the refresh to the last one logged is in the database, once,  *)
(* unless a fault interrupted its own import, or that refresh's or a later *)
(* one's: whichever feeds came and left the server, wherever a crash fell. *)
(***************************************************************************)
RefreshHit == \E refresh \in hit : refresh >= Refresh /\ kinds[refresh] = "F"

OnlyFaultsLoseFeeds ==
  phase = "idle" /\ logged > 0 =>
    /\ Refresh > 0
    /\ \A feed \in Refresh .. logged :
         feed \in hit \/ RefreshHit \/ Times(feed) = 1

(***************************************************************************)
(* A feed is never imported over a newer one, which would undo it, unless  *)
(* a fault had interrupted the newer one or the refresh that was to clear  *)
(* the tables.                                                             *)
(***************************************************************************)
NeverGoesBack ==
  [][Len(db') > Len(db) =>
       \A i \in 1 .. Len(db) :
         \/ db[i] <= next
         \/ db[i] \in hit
         \/ \E refresh \in hit : refresh <= next /\ kinds[refresh] = "F"]_vars

(***************************************************************************)
(* Once the faults are over the database catches up with the last feed, as *)
(* long as the server lists a refresh to start from, and the tables stand  *)
(* or that refresh is still to come.  Without them nothing is caught up:   *)
(* the changes fail one after the other and the cursor, past the refresh,  *)
(* never goes back to it; see the README.                                  *)
(***************************************************************************)
CatchesUp ==
  []<>(LastRefresh > 0 /\ (tables = "all" \/ logged < LastRefresh) => logged = Len(kinds))

(***************************************************************************)
(* "Import the fares into a database, creating the schema if necessary":   *)
(* without a single fault, a database of any feed's own catches up with    *)
(* the last feed published.  The code does not keep this promise; see the  *)
(* README.                                                                 *)
(***************************************************************************)
CatchesUpOnItsOwn ==
  []<>(LastRefresh > 0 /\ faults = 0 => logged = Len(kinds))

(***************************************************************************)
(* "Remembers which feed file was processed last, so a download picks up   *)
(* where the previous one stopped": whatever stopped it, the feeds up to   *)
(* the one logged have been processed.  The code does not keep this        *)
(* promise; see the README.                                                *)
(***************************************************************************)
PicksUpWhereItStopped ==
  phase = "idle" =>
    \A feed \in Refresh .. logged : feed > 0 => Times(feed) > 0
==========================================================================
