CONSTANTS
  StationCount = 5
  ShardCount = 2
  DateCount = 2
  WorkerLimit = 2
  OwnDirectory = TRUE
  MaxFaults = 1
  Unknown = Unknown
  Uncounted = Uncounted
  Tonight = Tonight
  LastNight = LastNight
  Counts = {2, Uncounted}
  Found <- MCFound
  Shards <- MCShards
SPECIFICATION Spec
INVARIANTS
  TypeOK
  NoFileTakenAway
  MergeIsTheUnion
  MergedIsTonight
PROPERTY PlansTheShard
CHECK_DEADLOCK FALSE
