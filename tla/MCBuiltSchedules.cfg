SPECIFICATION AllSpec
CONSTANTS
  train = train
  ztrain = ztrain
  A = A
  B = B
  C = C
  X = X
  nowhere = nowhere
  Tuids = {train, ztrain}
  MaxSchedules = 4
  Calendars <- MCCalendars
  Timetables <- MCTimetables
  Codes = {A, B, C, X, nowhere}
  Placeholders = {X}
  NoStation = nowhere
INVARIANTS
  TypeOK
  NoDayLost
  TwiceOnlyPastADrop
  TrainsAreBuiltWhole
  TimesRunOn
PROPERTY OverlaysGetTheirOrder
