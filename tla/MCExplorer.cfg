CONSTANTS
  None = None
  Stops = Stops
  Trips = Trips
  Kings = Kings
  FileNames <- MCFiles
  Typing <- MCTyping
  Lacking <- MCLacking
  MaxOpens = 2
  MaxMoves = 3
SPECIFICATION Spec
INVARIANTS
  NewestIsOnItsWay
  AnswersAreMatched
PROPERTY ComesToRest
CHECK_DEADLOCK FALSE
