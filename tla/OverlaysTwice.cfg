SPECIFICATION Spec
CONSTANTS
  a = a
  b = b
  Tuids = {a}
  MaxSchedules = 4
  Calendars <- MCCalendars
INVARIANT OneRecordADay
