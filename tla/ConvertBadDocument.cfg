SPECIFICATION Spec
CONSTANTS
  None = None
  Unreadable = Unreadable
  HighWaterMark = 2
  DaysInAWeek = 3
  LongBreak = 4
  FarFuture = 30
  BankHolidays <- MCBankHolidays
  Near <- MCNear
  Inputs <- MCInputs
INVARIANT BadOnesAreSkipped
CHECK_DEADLOCK FALSE
