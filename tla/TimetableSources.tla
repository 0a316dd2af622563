------------------------- MODULE TimetableSources -------------------------
(***************************************************************************)
(* The importer and the file source read the same feeds.  What the two of  *)
(* them should hold is a table that takes the records one by one in the    *)
(* order they are written: kept here as asWritten.                         *)
(***************************************************************************)
EXTENDS TimetableImport, CifSource

VARIABLES
  asWritten,      \* file -> the rows of the records applied in order
  actions,        \* file -> the <<key, action>> the feed being read has given
  clashed,        \* file -> keys a feed both deleted and gave a row
  shadowed        \* file -> keys whose row the file source had not kept when
                  \* another record was inserted over it

historyVars == <<asWritten, actions, clashed, shadowed>>

vars == <<feedVars, importVars, sourceVars, historyVars>>

HistoryInit ==
  /\ asWritten = [file \in Files |-> {}]
  /\ actions = [file \in Files |-> {}]
  /\ clashed = [file \in Files |-> {}]
  /\ shadowed = [file \in Files |-> {}]

(* The row a record would leave. *)
Row(record) ==
  [key |-> record.key, live |-> record.live, n |-> record.n, calls |-> record.calls]

Written(rows, record) ==
  CASE record.action = "N" ->
         IF Held(record.key, rows) THEN rows ELSE rows \cup {Row(record)}
    [] record.action = "R" -> Without(rows, record.key) \cup {Row(record)}
    [] record.action = "D" -> Without(rows, record.key)

HistoryReads(record) ==
  LET file  == record.file
      key   == record.key
      given == actions[file] \cup {<<key, record.action>>}
  IN
    /\ asWritten' = [asWritten EXCEPT ![file] = Written(@, record)]
    /\ actions' = [actions EXCEPT ![file] = given]
    /\ clashed' = [clashed EXCEPT ![file] =
         IF <<key, "D">> \in given /\ given \cap {<<key, "N">>, <<key, "R">>} # {}
         THEN @ \cup {key}
         ELSE IF record.action = "N" THEN @ ELSE @ \ {key}]
    /\ shadowed' = [shadowed EXCEPT ![file] =
         IF record.action # "N"
         THEN @ \ {key}
         ELSE IF record.live /\ Held(key, asWritten[file]) /\ ~Held(key, Stored[file])
         THEN @ \cup {key}
         ELSE @]

(* Every feed opened has been read to its end. *)
AllRead == stage = "between feeds" /\ feeds > 0

Init == FeedInit /\ ImportInit /\ SourceInit /\ HistoryInit

Open ==
  /\ OpenFeed
  /\ ImportOpens
  /\ actions' = [file \in Files |-> {}]
  /\ UNCHANGED <<sourceVars, asWritten, clashed, shadowed>>

(* Whether a train out of the window calls at a station is never asked. *)
Records(file) ==
  {record \in [n : {records + 1}, file : {file}, key : Keys(file),
               action : Actions(file), live : BOOLEAN, calls : Calls(file)] :
     IF record.action = "D"
     THEN ~record.live /\ record.calls = "none"
     ELSE record.live \/ record.calls = "station"}

NextRecord ==
  \E record \in Records(stage) :
    /\ ReadRecord(record)
    /\ ImportReads(record)
    /\ SourceReads(record)
    /\ HistoryReads(record)

Read == stage \in Files /\ NextRecord

Close ==
  \E file \in Files :
    /\ EndFile(file)
    /\ ImportCloses(file)
    /\ SourceEndsFile
    /\ UNCHANGED historyVars

Run ==
  /\ StatementRuns
  /\ UNCHANGED <<feedVars, sourceVars, historyVars>>

Finish ==
  /\ EndFeed
  /\ ImportFinishes
  /\ UNCHANGED <<sourceVars, historyVars>>

Done == AllRead /\ feeds = MaxFeeds /\ UNCHANGED vars

Next == Open \/ Read \/ Close \/ Run \/ Finish \/ Done

Spec == Init /\ [][Next]_vars
-----------------------------------------------------------------------------
RowsOf(key, rows) == {row \in rows : row.key = key}

(* The query for passenger schedules, and the one for z-trains. *)
StopsOf(row, file) == {stop \in db[StopTable(file)] : stop.schedule = row.id}

Queried(file) ==
  {row \in db[file] :
     /\ row.live
     /\ \/ \E stop \in StopsOf(row, file) : stop.calls = "station"
        \/ file = "schedule" /\ StopsOf(row, file) = {}}

(* The trains two readers hand to the build: which record, and of what key. *)
Imported(file) == {<<row.key, row.n>> : row \in Queried(file)}

FromFiles(file) == {<<schedule.key, schedule.n>> : schedule \in kept[file]}

TypeOK == FeedTypeOK /\ ImportTypeOK /\ SourceTypeOK

(***************************************************************************)
(* Batching by action loses nothing but the order of a deletion: a key     *)
(* that no feed both deletes and gives a row has the row the records left  *)
(* it, in whatever order the statements of a feed ran and whatever the     *)
(* database held before the refresh.                                       *)
(***************************************************************************)
ImportedInOrder ==
  AllRead =>
    \A file \in Files : \A key \in Keys(file) \ clashed[file] :
      {[key |-> row.key, live |-> row.live, n |-> row.n, calls |-> row.calls] :
         row \in RowsOf(key, db[file])}
        = RowsOf(key, asWritten[file])

(***************************************************************************)
(* A schedule in the database has its own calls, all of them and no other  *)
(* record's, whatever its feed did to the ids before it.                   *)
(***************************************************************************)
NothingDroppedForItsId ==
  AllRead =>
    \A file \in Files :
      /\ \A row \in db[file] :
           {stop.n : stop \in StopsOf(row, file)}
             = IF row.calls = "none" THEN {} ELSE {row.n}
      /\ \A stop \in db[StopTable(file)] : \E row \in db[file] : row.id = stop.schedule

(***************************************************************************)
(* Reading the files gives the trains that importing them gives, but for   *)
(* the keys a feed both deletes and gives a row, and those inserted over a *)
(* row the file source had not kept.                                       *)
(***************************************************************************)
SameTrains ==
  AllRead =>
    \A file \in Files : \A key \in Keys(file) \ (clashed[file] \cup shadowed[file]) :
      \A n \in 1 .. records :
        <<key, n>> \in Imported(file) <=> <<key, n>> \in FromFiles(file)

(***************************************************************************)
(* The two readers hand over the trains in one order, although they number *)
(* them differently: the importer takes up an id again when the row that   *)
(* had it is gone, the file source never does.                             *)
(***************************************************************************)
SameOrder ==
  AllRead =>
    \A file \in Files : \A one, other \in kept[file] : \A row, following \in Queried(file) :
      one.n = row.n /\ other.n = following.n
        => (one.id < other.id <=> row.id < following.id)

(***************************************************************************)
(* Passing over shadowed keys: a refresh and its incrementals give what    *)
(* importing them gives.  They do not; see the README.                     *)
(***************************************************************************)
SameResultAsImporting ==
  AllRead =>
    \A file \in Files : \A key \in Keys(file) \ clashed[file] : \A n \in 1 .. records :
      <<key, n>> \in Imported(file) <=> <<key, n>> \in FromFiles(file)

(***************************************************************************)
(* The operator of a train is the one its own BX line named.  It is not    *)
(* always; see the README.                                                 *)
(***************************************************************************)
OperatorIsItsOwn ==
  AllRead =>
    \A file \in Files : \A row \in db[file] : \A extra \in db[ExtraTable(file)] :
      extra.schedule = row.id => extra.n = row.n
============================================================================
