-------------------------- MODULE TimetableImport --------------------------
(***************************************************************************)
(* The importer: doImport of apps/dtd2mysql/src/cli/ImportFeedCommand.ts   *)
(* with the tables of apps/dtd2mysql/src/database/MySQLTable.ts and the    *)
(* ids the records of libs/feed-parser give themselves.                    *)
(*                                                                         *)
(* Rows are buffered by action.  A buffer that reaches the limit is sent   *)
(* and awaited; what is left when the file ends is sent at once, a DELETE, *)
(* a REPLACE and an INSERT IGNORE over a pool of connections, and the      *)
(* database may run them in any order.  stop_time and schedule_extra only  *)
(* ever take inserts, and nothing reads them before the import is over, so *)
(* their buffers are left out.  So are queries that fail.                  *)
(***************************************************************************)
EXTENDS TimetableFeed, Sequences, FiniteSetsExt

CONSTANT FlushLimit     \* how many rows of one action MySQLTable holds back

ASSUME FlushAssumption == FlushLimit \in Nat \ {0}

VARIABLES
  db,             \* table -> its rows
  lastId,         \* the counters of the records that make their own ids
  buffers,        \* file -> action -> the rows of its schedule table held back
  inFlight        \* the statements sent and not yet run

importVars == <<db, lastId, buffers, inFlight>>

StopTable(file) == IF file = "schedule" THEN "stop_time" ELSE "z_stop_time"

ExtraTable(file) == IF file = "schedule" THEN "schedule_extra" ELSE "z_schedule_extra"

Counted == Files \cup {StopTable(file) : file \in Files}

Tables == Counted \cup {ExtraTable(file) : file \in Files}

MaxId(rows) == Max({row.id : row \in rows} \cup {0})

Nothing == [file \in Files |-> [action \in {"N", "R", "D"} |-> <<>>]]

(* A database may hold what an import long ago left in it. *)
LongAgo(key) ==
  [table \in Tables |->
     CASE table = "schedule"       -> {[id |-> 1, key |-> key, live |-> TRUE, n |-> 0, calls |-> "station"]}
       [] table = "stop_time"      -> {[id |-> 1, schedule |-> 1, n |-> 0, calls |-> "station"]}
       [] table = "schedule_extra" -> {[schedule |-> 1, n |-> 0]}
       [] OTHER                    -> {}]

ImportInit ==
  /\ db \in {[table \in Tables |-> {}]} \cup {LongAgo(key) : key \in Trains}
  /\ lastId = [table \in Counted |-> 0]
  /\ buffers = Nothing
  /\ inFlight = {}
-----------------------------------------------------------------------------
(* An insert into a table whose id is all there is to collide on. *)
InsertIgnoreById(rows, row) ==
  IF \E other \in rows : other.id = row.id THEN rows ELSE rows \cup {row}

(* INSERT IGNORE: a row whose id or whose key is taken is dropped. *)
InsertIgnore(rows, row) ==
  IF \E other \in rows : other.id = row.id \/ other.key = row.key
  THEN rows
  ELSE rows \cup {row}

(* REPLACE INTO: the rows that hold the id or the key make way. *)
ReplaceInto(rows, row) ==
  {other \in rows : other.id # row.id /\ other.key # row.key} \cup {row}

(* DELETE: the rows that hold the key. *)
Delete(rows, row) == {other \in rows : other.key # row.key}

Taken(action, rows, row) ==
  CASE action = "N" -> InsertIgnore(rows, row)
    [] action = "R" -> ReplaceInto(rows, row)
    [] action = "D" -> Delete(rows, row)

(* query(type, rows) on a schedule table: one statement, row by row. *)
Query(action, rows, batch) ==
  LET after[k \in 0 .. Len(batch)] ==
        IF k = 0 THEN rows ELSE Taken(action, after[k - 1], batch[k])
  IN after[Len(batch)]

(* A slip the runs must notice: only the counter of schedule is restored. *)
RestoredScheduleId(tables) ==
  [table \in Counted |-> IF table = "schedule" THEN MaxId(tables[table]) ELSE 0]

(* restoreIdCounters: each counter goes on from its table. *)
RestoredIds(tables) == [table \in Counted |-> MaxId(tables[table])]

(* A slip the runs must notice: a refresh is laid over what was there. *)
ImportOpensOverTheOld ==
  /\ db' = db
  /\ lastId' = RestoredIds(db')
  /\ UNCHANGED <<buffers, inFlight>>

(* setupSchema, for a refresh, and restoreIdCounters. *)
ImportOpens ==
  /\ db' = IF Refresh THEN [table \in Tables |-> {}] ELSE db
  /\ lastId' = RestoredIds(db')
  /\ UNCHANGED <<buffers, inFlight>>

(***************************************************************************)
(* _write of MySQLStream for the lines of one record: extractValues takes  *)
(* the ids, apply pushes the row and flushes a full buffer.  A deletion    *)
(* takes no id and no line follows it.                                     *)
(***************************************************************************)
ImportReads(record) ==
  LET file  == record.file
      id    == lastId[file] + 1
      row   == [id |-> id, key |-> record.key, live |-> record.live,
                n |-> record.n, calls |-> record.calls]
      stop  == [id |-> lastId[StopTable(file)] + 1, schedule |-> id,
                n |-> record.n, calls |-> record.calls]
      batch == Append(buffers[file][record.action], row)
      full  == Len(batch) >= FlushLimit
      kept  == record.action # "D"
      calls == record.calls # "none"
      takesId == (IF kept THEN {file} ELSE {}) \cup (IF calls THEN {StopTable(file)} ELSE {})
  IN
    /\ lastId' = [table \in Counted |->
                    IF table \in takesId THEN lastId[table] + 1 ELSE lastId[table]]
    /\ buffers' = [buffers EXCEPT ![file][record.action] = IF full THEN <<>> ELSE batch]
    /\ db' = [table \in Tables |->
                CASE table = file /\ full ->
                       Query(record.action, db[table], batch)
                  [] table = StopTable(file) /\ calls ->
                       InsertIgnoreById(db[table], stop)
                  [] table = ExtraTable(file) /\ kept ->
                       db[table] \cup {[schedule |-> id, n |-> record.n]}
                  [] OTHER -> db[table]]
    /\ UNCHANGED inFlight

(* close: what each buffer still holds is sent, all at once. *)
ImportCloses(file) ==
  /\ inFlight' = inFlight \cup
       {[file |-> file, action |-> action, rows |-> buffers[file][action]] :
          action \in {a \in DOMAIN buffers[file] : buffers[file][a] # <<>>}}
  /\ buffers' = [buffers EXCEPT ![file] = Nothing[file]]
  /\ UNCHANGED <<db, lastId>>

StatementRuns ==
  \E sent \in inFlight :
    /\ db' = [db EXCEPT ![sent.file] = Query(sent.action, @, sent.rows)]
    /\ inFlight' = inFlight \ {sent}
    /\ UNCHANGED <<lastId, buffers>>

Orphan(row, file) == \A schedule \in db[file] : schedule.id # row.schedule

(* removeOrphanStopTimes, which has no statement for z_schedule_extra. *)
WithoutOrphans ==
  [table \in Tables |->
     CASE table \in {"stop_time", "schedule_extra"} ->
            {row \in db[table] : ~Orphan(row, "schedule")}
       [] table = "z_stop_time" ->
            {row \in db[table] : ~Orphan(row, "z_schedule")}
       [] OTHER -> db[table]]

ImportFinishes ==
  /\ inFlight = {}
  /\ db' = WithoutOrphans
  /\ UNCHANGED <<lastId, buffers, inFlight>>

ImportTypeOK ==
  /\ \A file \in Files :
       /\ \A row \in db[file] : row.id \in Nat \ {0} /\ row.key \in Keys(file)
       /\ \A row, other \in db[file] :
            row.id = other.id \/ row.key = other.key => row = other
       /\ \A action \in {"N", "R", "D"} : Len(buffers[file][action]) < FlushLimit
  /\ lastId \in [Counted -> Nat]
  /\ \A sent \in inFlight : sent.file \in Files /\ sent.rows # <<>>
============================================================================
