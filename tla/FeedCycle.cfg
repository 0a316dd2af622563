SPECIFICATION Spec
CONSTANTS
  MaxFeeds = 4
  MaxFaults = 3
  HasTimetable = TRUE
INVARIANTS
  OnlyFaultsLoseFeeds
PROPERTIES
  NeverGoesBack
  CatchesUp
