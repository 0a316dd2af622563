SPECIFICATION DeliverSpec
CONSTANTS
  Parts = 3
  Pids = {1, 2}
  MaxBuilds = 4
INVARIANTS
  DeliveryTypeOK
  SomethingToGoBackTo
  RejectedLeavesTheOutput
  PartsOnlyWhereTorn
PROPERTY NeverGoesBack
CHECK_DEADLOCK FALSE
