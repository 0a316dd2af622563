SPECIFICATION Spec
CONSTANTS
  a = a
  b = b
  c = c
  here = here
  Tuids = {a, b, c}
  Locations = {here}
  ClockChanges = {7}
  FirstId = 7
  Indexes <- MCIndexes
  Associations <- MCAssociationRecords
INVARIANTS
  IdsAreUnique
  CoupledOnce
  CoupledDaysAreShared
  CopiesCloseTheGap
PROPERTY CutsKeepTheTimetable
