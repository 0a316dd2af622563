----------------------- MODULE MCTransferPatterns -----------------------
(***************************************************************************)
(* Five stations in two shards, two dates, two workers for three stations. *)
(* Neighbouring stations share a pattern, as the two ends of a journey do, *)
(* and a station has on the second date what it has on the first but for   *)
(* one pattern.  What a shard's file holds is in the specification; here   *)
(* are the files to choose from.                                           *)
(***************************************************************************)
EXTENDS TransferPatterns, SequencesExt

CONSTANT LastNight

MCFound ==
  [job \in (1 .. 5) \X (1 .. 2) |->
     IF job[2] = 1 THEN {job[1], job[1] + 1} ELSE {job[1] + 1}]

File(set, run, number) ==
  [patterns |-> SetToSortSeq(set, <), run |-> run, number |-> number]

ShardFiles ==
  {File({1, 2, 3, 4, 5, 6}, Tonight, 1), File({2, 4, 6}, Tonight, 1),
   File({2, 3, 4, 5}, Tonight, 2),
   File({2, 6}, LastNight, 1), File({1, 7}, LastNight, 2),
   File({}, Unknown, 1), File({2, 4}, Unknown, 1)}

MCShards ==
  UNION {[1 .. n -> ShardFiles] : n \in 0 .. 2} \cup
  {<<File({1, 2, 3, 4, 5, 6}, Tonight, 1), File({2, 4}, Unknown, 1),
     File({2, 3, 4, 5}, Tonight, 2)>>}
=============================================================================
