-------------------------- MODULE PlanStations --------------------------
(***************************************************************************)
(* What planning a shard promises its caller (plan in                      *)
(* apps/transfer-patterns/src/api.ts), however many workers share the      *)
(* work: a station is handed out at most once for a date, and the file     *)
(* there is in the end holds what every station has on every date.  Or     *)
(* planning fails, and says so.                                            *)
(***************************************************************************)
CONSTANTS
  Jobs,           \* the stations to plan, each with a date
  Found           \* the patterns each of them gives

VARIABLES
  taken,          \* the jobs handed out
  outcome,        \* "planning", "planned" or "failed"
  file            \* the patterns in the file that was asked for

vars == <<taken, outcome, file>>

Init ==
  /\ taken = {}
  /\ outcome = "planning"
  /\ file = {}

Take(job) ==
  /\ outcome = "planning"
  /\ job \notin taken
  /\ taken' = taken \cup {job}
  /\ UNCHANGED <<outcome, file>>

(* The file is written before the caller hears of it. *)
Write ==
  /\ outcome = "planning"
  /\ taken = Jobs
  /\ file' = UNION {Found[job] : job \in Jobs}
  /\ UNCHANGED <<taken, outcome>>

Succeed ==
  /\ outcome = "planning"
  /\ taken = Jobs
  /\ file = UNION {Found[job] : job \in Jobs}
  /\ outcome' = "planned"
  /\ UNCHANGED <<taken, file>>

Fail ==
  /\ outcome = "planning"
  /\ outcome' = "failed"
  /\ UNCHANGED <<taken, file>>

Next == (\E job \in Jobs : Take(job)) \/ Write \/ Succeed \/ Fail

Spec == Init /\ [][Next]_vars /\ WF_vars(Write \/ Succeed \/ Fail)
=============================================================================
