SPECIFICATION Spec
CONSTANTS
  None = None
  NoCalendar = NoCalendar
  DaysInAWeek = 2
  FilterBefore = 3
  TransferDistance = 3
  Located <- MCLocated
  Inputs <- MCInputs
INVARIANTS
  TypeOK
  TripsAreTheirOwn
  DaysAreKept
  WalksBetweenPlaces
CHECK_DEADLOCK FALSE
