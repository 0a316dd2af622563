--------------------------- MODULE WorkerPool ---------------------------
(***************************************************************************)
(* One job of the transfer patterns build: plan in                         *)
(* apps/transfer-patterns/src/api.ts, planOnWorkers in plan/pool.ts and    *)
(* the thread in plan/worker.ts.                                           *)
(*                                                                         *)
(* A station is its place in the sorted list of them, a date its place in  *)
(* the list of dates, and a pattern a number: the codes of its stations    *)
(* have one width, so lines compare as numbers of as many digits do.  The  *)
(* main thread and each worker talk over two channels that keep their      *)
(* order.  A worker may die of an error or simply stop, at any point.      *)
(*                                                                         *)
(* What a pattern is, how a scan finds it, and the sort of a shard's parts *)
(* (TransferPatternMerge) belong to transfer-pattern-planner; they are     *)
(* taken from how the code here uses them: a store goes into a stream and  *)
(* reaches the disk for certain when the file is closed, and the merge of  *)
(* the parts is what all of them hold.                                     *)
(***************************************************************************)
EXTENDS Naturals, FiniteSets, FiniteSetsExt, Sequences

CONSTANTS
  StationCount,   \* how many stations the feed has
  ShardCount,     \* how many shards the run is split into
  DateCount,      \* how many dates are planned
  WorkerLimit,    \* --workers
  OwnDirectory,   \* whether the run makes its work directory: no --tmp
  Found,          \* the patterns that <<station, date>> gives
  MaxFaults       \* bound: faults

ASSUME CountsAssumption ==
  /\ StationCount \in Nat \ {0}
  /\ ShardCount \in 1 .. StationCount
  /\ DateCount \in Nat \ {0}
  /\ WorkerLimit \in Nat \ {0}
  /\ MaxFaults \in Nat

ASSUME OwnDirectoryAssumption == OwnDirectory \in BOOLEAN

ASSUME FoundAssumption ==
  Found \in [(1 .. StationCount) \X (1 .. DateCount) -> SUBSET (Nat \ {0})]

Dates == 1 .. DateCount

(* The stations of shard n: a stride through the sorted list of them. *)
Shard(n) == {s \in 1 .. StationCount : (s - 1) % ShardCount = n - 1}

Stations == Shard(1)

Jobs == Stations \X Dates

(* No more workers than there are stations for. *)
Workers == 1 .. Min({WorkerLimit, Cardinality(Stations)})

READY == "ready"
DONE == "done"
Nothing == 0      \* null, sent to a worker when no station is left

VARIABLES
  phase,          \* what plan is doing
  date,           \* the date being planned
  remaining,      \* the stations no worker has asked for
  thread,         \* what each worker is doing
  posted,         \* the messages on their way to each worker ...
  received,       \* ... and those on their way from it
  stream,         \* what a worker has stored and not closed
  parts,          \* what is in the files of the workers that closed theirs
  directory,      \* whether the work directory is there
  taken,          \* the jobs handed out, over all the dates
  output,         \* the shard's file
  provenance,     \* whether what the shard is has been written down
  faults          \* how many faults there have been

channels == <<posted, received>>
files == <<stream, parts>>
result == <<output, provenance>>
pool == <<phase, date, remaining, thread, channels, files, directory, taken,
          result, faults>>

Fault == faults < MaxFaults /\ faults' = faults + 1

NoParts == [day \in Dates |-> [w \in Workers |-> {}]]

PoolInit ==
  /\ phase = "planning"
  /\ date = 1
  /\ remaining = Stations
  /\ thread = [w \in Workers |-> "starting"]
  /\ posted = [w \in Workers |-> <<>>]
  /\ received = [w \in Workers |-> <<>>]
  /\ stream = [w \in Workers |-> {}]
  /\ parts = NoParts
  /\ directory = TRUE
  /\ taken = {}
  /\ output = {}
  /\ provenance = FALSE
  /\ faults = 0
-----------------------------------------------------------------------------
(***************************************************************************)
(* A worker: it asks for a station, stores what it finds, asks again, and  *)
(* closes its file when it is told that nothing is left.                   *)
(***************************************************************************)
Post(w, message) == received' = [received EXCEPT ![w] = Append(@, message)]

Start(w) ==
  /\ thread[w] = "starting"
  /\ thread' = [thread EXCEPT ![w] = "waiting"]
  /\ Post(w, READY)
  /\ UNCHANGED <<phase, date, remaining, posted, files, directory, taken,
                 result, faults>>

Take(w) ==
  /\ thread[w] = "waiting"
  /\ posted[w] # <<>>
  /\ posted' = [posted EXCEPT ![w] = Tail(@)]
  /\ IF Head(posted[w]) = Nothing
     THEN /\ thread' = [thread EXCEPT ![w] = "closing"]
          /\ UNCHANGED stream
     ELSE /\ thread' = [thread EXCEPT ![w] = "storing"]
          /\ stream' = [stream EXCEPT ![w] =
                          @ \cup Found[<<Head(posted[w]), date>>]]
  /\ UNCHANGED <<phase, date, remaining, received, parts, directory, taken,
                 result, faults>>

Stored(w) ==
  /\ thread[w] = "storing"
  /\ thread' = [thread EXCEPT ![w] = "waiting"]
  /\ Post(w, READY)
  /\ UNCHANGED <<phase, date, remaining, posted, files, directory, taken,
                 result, faults>>

(* A slip the runs must notice: the last word sent while the file is open. *)
ClosedAfterDone(w) ==
  /\ thread[w] = "closing"
  /\ thread' = [thread EXCEPT ![w] = "closed"]
  /\ Post(w, DONE)
  /\ UNCHANGED <<phase, date, remaining, posted, files, directory, taken,
                 result, faults>>

Closed(w) ==
  /\ thread[w] = "closing"
  /\ parts' = [parts EXCEPT ![date][w] = stream[w]]
  /\ stream' = [stream EXCEPT ![w] = {}]
  /\ thread' = [thread EXCEPT ![w] = "closed"]
  /\ Post(w, DONE)
  /\ UNCHANGED <<phase, date, remaining, posted, directory, taken, result,
                 faults>>

Alive == {"starting", "waiting", "storing", "closing"}

(* A thread fails, or stops without ever raising an error. *)
Dies(w) ==
  /\ thread[w] \in Alive
  /\ Fault
  /\ thread' = [thread EXCEPT ![w] = "dead"]
  /\ stream' = [stream EXCEPT ![w] = {}]
  /\ UNCHANGED <<phase, date, remaining, channels, parts, directory, taken,
                 result>>
-----------------------------------------------------------------------------
(***************************************************************************)
(* The pool, on the main thread.  It answers a worker that is ready with a *)
(* station, or with word that none is left; it goes on answering while it  *)
(* waits for the threads it has told to terminate.                         *)
(***************************************************************************)
Hears(w) ==
  /\ phase \in {"planning", "stopping"}
  /\ received[w] # <<>>
  /\ received' = [received EXCEPT ![w] = Tail(@)]

HandOut(w) ==
  /\ Hears(w)
  /\ Head(received[w]) = READY
  /\ remaining # {}
  /\ LET station == Max(remaining)
     IN  /\ posted' = [posted EXCEPT ![w] = Append(@, station)]
         /\ taken' = taken \cup {<<station, date>>}
         /\ remaining' = remaining \ {station}
  /\ UNCHANGED <<phase, date, thread, files, directory, result, faults>>

TellNothingIsLeft(w) ==
  /\ Hears(w)
  /\ Head(received[w]) = READY
  /\ remaining = {}
  /\ posted' = [posted EXCEPT ![w] = Append(@, Nothing)]
  /\ UNCHANGED <<phase, date, remaining, thread, files, directory, taken,
                 result, faults>>

Finished(w) ==
  /\ Hears(w)
  /\ Head(received[w]) = DONE
  /\ thread' = [thread EXCEPT ![w] = "finished"]
  /\ UNCHANGED <<phase, date, remaining, posted, files, directory, taken,
                 result, faults>>

(* The first thread to die: the others are terminated before the error is *)
(* let out, for they still hold their files open.                         *)
NoticeDeath(w) ==
  /\ phase = "planning"
  /\ thread[w] = "dead"
  /\ phase' = "stopping"
  /\ UNCHANGED <<date, remaining, thread, channels, files, directory, taken,
                 result, faults>>

Terminates(w) ==
  /\ phase = "stopping"
  /\ thread[w] \notin {"dead", "finished"}
  /\ thread' = [thread EXCEPT ![w] = "dead"]
  /\ stream' = [stream EXCEPT ![w] = {}]
  /\ UNCHANGED <<phase, date, remaining, channels, parts, directory, taken,
                 result, faults>>

(* A slip the runs must notice: the error let out at once. *)
RethrowAtOnce ==
  /\ phase = "stopping"
  /\ phase' = "failing"
  /\ UNCHANGED <<date, remaining, thread, channels, files, directory, taken,
                 result, faults>>

Rethrow ==
  /\ phase = "stopping"
  /\ \A w \in Workers : thread[w] \in {"dead", "finished"}
  /\ phase' = "failing"
  /\ UNCHANGED <<date, remaining, thread, channels, files, directory, taken,
                 result, faults>>
-----------------------------------------------------------------------------
(***************************************************************************)
(* plan: one date after another, each on workers of its own, then the      *)
(* parts of every date into one file, then a note of what it is.           *)
(***************************************************************************)
AllFinished ==
  /\ phase = "planning"
  /\ \A w \in Workers : thread[w] = "finished"

(* A slip the runs must notice: one date too many. *)
NextDateTooFar ==
  /\ AllFinished
  /\ date' = date + 1
  /\ remaining' = Stations
  /\ thread' = [w \in Workers |-> "starting"]
  /\ UNCHANGED <<phase, channels, files, directory, taken, result, faults>>

NextDate ==
  /\ AllFinished
  /\ date < DateCount
  /\ date' = date + 1
  /\ remaining' = Stations
  /\ thread' = [w \in Workers |-> "starting"]
  /\ posted' = [w \in Workers |-> <<>>]
  /\ received' = [w \in Workers |-> <<>>]
  /\ stream' = [w \in Workers |-> {}]
  /\ UNCHANGED <<phase, parts, directory, taken, result, faults>>

(* A slip the runs must notice: the parts of the last date only. *)
MergeLastParts ==
  /\ AllFinished
  /\ date = DateCount
  /\ phase' = "noting"
  /\ output' = UNION {parts[date][w] : w \in Workers}
  /\ UNCHANGED <<date, remaining, thread, channels, files, directory, taken,
                 provenance, faults>>

MergeParts ==
  /\ AllFinished
  /\ date = DateCount
  /\ phase' = "noting"
  /\ output' = UNION {parts[day][w] : day \in Dates, w \in Workers}
  /\ UNCHANGED <<date, remaining, thread, channels, files, directory, taken,
                 provenance, faults>>

WriteProvenance ==
  /\ phase = "noting"
  /\ phase' = "finishing"
  /\ provenance' = TRUE
  /\ UNCHANGED <<date, remaining, thread, channels, files, directory, taken,
                 output, faults>>

(* The merge of the parts, or the note, cannot be written. *)
WriteFails ==
  /\ (AllFinished /\ date = DateCount) \/ phase = "noting"
  /\ Fault
  /\ phase' = "failing"
  /\ UNCHANGED <<date, remaining, thread, channels, files, directory, taken,
                 result>>

(* The work directory goes, whatever came of it, unless it was given. *)
RemoveWorkDir ==
  /\ phase \in {"finishing", "failing"}
  /\ directory' = (directory /\ ~OwnDirectory)
  /\ phase' = IF phase = "finishing" THEN "planned" ELSE "failed"
  /\ UNCHANGED <<date, remaining, thread, channels, files, taken, result,
                 faults>>

Handles(w) ==
  \/ HandOut(w) \/ TellNothingIsLeft(w) \/ Finished(w) \/ NoticeDeath(w)
  \/ Terminates(w)

Works(w) == Start(w) \/ Take(w) \/ Stored(w) \/ Closed(w)

Plans ==
  Rethrow \/ NextDate \/ MergeParts \/ WriteProvenance \/ RemoveWorkDir

PoolNext ==
  \/ \E w \in Workers : Works(w) \/ Handles(w) \/ Dies(w)
  \/ Plans
  \/ WriteFails

(* Neither a thread nor the event loop is left waiting for ever. *)
PoolFairness ==
  /\ \A w \in Workers : WF_pool(Works(w)) /\ WF_pool(Handles(w))
  /\ WF_pool(Plans)
-----------------------------------------------------------------------------
PoolTypeOK ==
  /\ phase \in {"planning", "stopping", "failing", "noting", "finishing",
                "planned", "failed"}
  /\ date \in Dates
  /\ remaining \subseteq Stations
  /\ thread \in [Workers -> Alive \cup {"closed", "finished", "dead"}]
  /\ posted \in [Workers -> Seq(Stations \cup {Nothing})]
  /\ received \in [Workers -> Seq({READY, DONE})]
  /\ stream \in [Workers -> SUBSET (Nat \ {0})]
  /\ parts \in [Dates -> [Workers -> SUBSET (Nat \ {0})]]
  /\ directory \in BOOLEAN
  /\ taken \subseteq Jobs
  /\ output \subseteq Nat \ {0}
  /\ provenance \in BOOLEAN
  /\ faults \in 0 .. MaxFaults

(* What the caller of plan sees: PlanStations. *)
Outcome == CASE phase = "planned" -> "planned"
             [] phase = "failed" -> "failed"
             [] OTHER -> "planning"

Planner == INSTANCE PlanStations WITH outcome <- Outcome, file <- output
=============================================================================
