SPECIFICATION Spec
CONSTANTS
  None = None
  MaxEntered = 4
  MaxThrows = 3
  MaxDefers = 2
INVARIANT LatestThrowIsDelivered
CHECK_DEADLOCK FALSE
