------------------------ MODULE TransferPatterns ------------------------
(***************************************************************************)
(* The nightly build of the transfer patterns: a job plans a shard on its  *)
(* pool of workers (WorkerPool), the jobs of the other shards do the same  *)
(* elsewhere and leave what PlanStations promises, and a last job merges   *)
(* the shards it is given (PatternMerge): tonight's, last night's, or ones *)
(* made by hand that have no note of what they are.                        *)
(***************************************************************************)
EXTENDS WorkerPool, PatternMerge

CONSTANT Tonight  \* the run of the shards being planned

vars == <<pool, merge>>

(* What every station of a shard gives on every date. *)
PatternsOf(n) == UNION {Found[job] : job \in Shard(n) \X Dates}

(* A file that says it is a shard of tonight's is what its job wrote. *)
Genuine(shard) ==
  shard.run = Tonight =>
    /\ shard.number \in 1 .. ShardCount
    /\ Range(shard.patterns) =
         IF shard.number = 1 THEN output ELSE PatternsOf(shard.number)

OpenShards ==
  /\ phase = "planned"
  /\ \E shards \in Shards, count \in Counts :
       /\ \A i \in DOMAIN shards : Genuine(shards[i])
       /\ Open(shards, count)
  /\ UNCHANGED pool

Init == PoolInit /\ MergeInit

Next ==
  \/ PoolNext /\ UNCHANGED merge
  \/ OpenShards
  \/ MergeNext /\ UNCHANGED pool

Spec ==
  /\ Init
  /\ [][Next]_vars
  /\ PoolFairness
  /\ WF_vars((Advance \/ Finish) /\ UNCHANGED pool)
-----------------------------------------------------------------------------
TypeOK == PoolTypeOK /\ MergeTypeOK

(***************************************************************************)
(* planOnWorkers: the work directory is not taken away while a worker      *)
(* still holds its file in it open, nor before all of them were read.      *)
(***************************************************************************)
NoFileTakenAway ==
  ~directory => \A w \in Workers : thread[w] \in {"dead", "finished"}

(***************************************************************************)
(* plan: however the workers share the stations, and whichever of them     *)
(* dies, planning a shard is what PlanStations promises: no station is     *)
(* planned twice for a date, none is missing from a file that is there,    *)
(* and in the end the caller has the file or an error.                     *)
(***************************************************************************)
PlansTheShard == Planner!Spec

(***************************************************************************)
(* merge: the shards of tonight's run, each given once, make a file of     *)
(* every pattern that any station of the feed has on any of the dates.     *)
(***************************************************************************)
MergedIsTonight ==
  LET numbers == {inputs[i].number : i \in DOMAIN inputs}
  IN  (/\ stage = "merged"
       /\ \A i \in DOMAIN inputs : inputs[i].run = Tonight
       /\ numbers = 1 .. ShardCount)
      => Range(merged) = UNION {Found[job] : job \in DOMAIN Found}
=============================================================================
