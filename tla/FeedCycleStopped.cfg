SPECIFICATION Spec
CONSTANTS
  MaxFeeds = 3
  MaxFaults = 1
  HasTimetable = TRUE
INVARIANT PicksUpWhereItStopped
