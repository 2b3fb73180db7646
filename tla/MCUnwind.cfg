SPECIFICATION Spec
CONSTANTS
  None = None
  MaxEntered = 4
  MaxThrows = 3
  MaxDefers = 2
INVARIANT TypeOK
INVARIANT NothingDangles
INVARIANT StacksAgree
INVARIANT DefersRunOnce
INVARIANT RecoverExact
INVARIANT FaultIsContained
CHECK_DEADLOCK FALSE
