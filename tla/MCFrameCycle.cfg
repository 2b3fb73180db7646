SPECIFICATION Spec
CONSTANTS
  a = a
  b = b
  f = f
  g = g
  None = None
  Threads = {a, b}
  Owner = a
  Closures = {f, g}
  Slots = {1, 2}
  MaxCalls = 1
  MaxHolds = 3
INVARIANT TypeOK
INVARIANT WordExact
INVARIANT NoReadDuringCall
INVARIANT NothingLeftOfFreed
CHECK_DEADLOCK FALSE
PROPERTY ImplementsReclaim
INVARIANT NoLeak
INVARIANT OnlyGarbageReaped
