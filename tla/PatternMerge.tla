-------------------------- MODULE PatternMerge --------------------------
(***************************************************************************)
(* Folding the shards of a run into the file that is published: merge and  *)
(* provenanceOf in apps/transfer-patterns/src/api.ts, kWayMerge in         *)
(* merge/kWayMerge.ts and the readers of merge/patternFile.ts.             *)
(*                                                                         *)
(* A shard's file is a sequence of patterns, with the run it was planned   *)
(* for (dates and version of the feed: what the code compares) or Unknown  *)
(* where no note of it is found, and its number among the shards.          *)
(***************************************************************************)
EXTENDS Integers, Sequences, Functions

CONSTANTS
  Unknown,        \* the run of a shard without a note
  Uncounted,      \* no number of shards was asked for
  Counts,         \* the numbers of shards asked for
  Shards          \* the shards there are to merge

VARIABLES
  stage,          \* "waiting", "merging", "refused", "failed" or "merged"
  inputs,         \* the shards to merge
  at,             \* the place of each reader: its head is the pattern there
  merged          \* the patterns written

merge == <<stage, inputs, at, merged>>

Increasing(s) == \A i, j \in DOMAIN s : i < j => s[i] < s[j]

(* Every shard has been sorted and freed of duplicates when it was written. *)
ASSUME ShardsAssumption ==
  \A shards \in Shards :
    /\ DOMAIN shards = 1 .. Len(shards) /\ Len(shards) \in Nat
    /\ \A i \in DOMAIN shards :
         shards[i].patterns \in Seq(Nat \ {0}) /\ Increasing(shards[i].patterns)

MergeInit ==
  /\ stage = "waiting"
  /\ inputs = <<>>
  /\ at = <<>>
  /\ merged = <<>>

NotedRuns(shards) ==
  {shards[i].run : i \in DOMAIN shards} \ {Unknown}

(* Shards of one run as far as the notes beside them say, and as many as *)
(* the run was split into where the caller says how many.                 *)
Acceptable(shards, count) ==
  /\ shards # <<>>
  /\ count # Uncounted => Len(shards) = count
  /\ \A run, other \in NotedRuns(shards) : run = other

Open(shards, count) ==
  /\ stage = "waiting"
  /\ inputs' = shards
  /\ at' = [i \in DOMAIN shards |-> 1]
  /\ stage' = IF Acceptable(shards, count) THEN "merging" ELSE "refused"
  /\ UNCHANGED merged

HasHead(i) == at[i] <= Len(inputs[i].patterns)

Head_(i) == inputs[i].patterns[at[i]]

(* A slip the runs must notice: what comes first is taken, low or not. *)
FirstWithHead(i) ==
  /\ HasHead(i)
  /\ \A j \in DOMAIN inputs : HasHead(j) => i <= j

(* The reader with the lowest head, the first of those that share it. *)
Lowest(i) ==
  /\ HasHead(i)
  /\ \A j \in DOMAIN inputs :
       HasHead(j) => \/ Head_(i) < Head_(j)
                     \/ Head_(i) = Head_(j) /\ i <= j

Previous == IF merged = <<>> THEN 0 ELSE merged[Len(merged)]

(* One pattern of the lowest reader; written unless it was just written. *)
Advance ==
  /\ stage = "merging"
  /\ \E i \in DOMAIN inputs :
       /\ Lowest(i)
       /\ merged' = IF Head_(i) = Previous THEN merged
                    ELSE Append(merged, Head_(i))
       /\ at' = [at EXCEPT ![i] = @ + 1]
  /\ UNCHANGED <<stage, inputs>>

Finish ==
  /\ stage = "merging"
  /\ \A i \in DOMAIN inputs : ~HasHead(i)
  /\ stage' = "merged"
  /\ UNCHANGED <<inputs, at, merged>>

(* A shard that cannot be read to its end, or a file that cannot be       *)
(* written: the merge fails, where a reader alone would have just ended.  *)
ReadFails ==
  /\ stage = "merging"
  /\ stage' = "failed"
  /\ UNCHANGED <<inputs, at, merged>>

MergeNext == Advance \/ Finish \/ ReadFails

Opens == \E shards \in Shards, count \in Counts : Open(shards, count)

MergeSpec == MergeInit /\ [][Opens \/ MergeNext]_merge

MergeTypeOK ==
  /\ stage \in {"waiting", "merging", "refused", "failed", "merged"}
  /\ DOMAIN at = DOMAIN inputs
  /\ \A i \in DOMAIN inputs : at[i] \in 1 .. Len(inputs[i].patterns) + 1
  /\ merged \in Seq(Nat \ {0})

(* The front coding of the lines decodes by their order, one by one. *)
MergedInOrder == Increasing(merged)

(* A reader that ended early is a failure and not a short file. *)
MergedWhole ==
  stage = "merged" =>
    Range(merged) = UNION {Range(inputs[i].patterns) : i \in DOMAIN inputs}

(***************************************************************************)
(* merge, kWayMerge: however the patterns are spread over the shards, what *)
(* is written is in order and holds no pattern twice, and a merge that     *)
(* succeeds has written every pattern of every shard and no other.         *)
(***************************************************************************)
MergeIsTheUnion == MergedInOrder /\ MergedWhole
=============================================================================
