SPECIFICATION Spec
CONSTANTS
  a = a
  b = b
  ch = ch
  un = un
  tm = tm
  None = None
  Threads = {a, b}
  Workers = {a}
  Cap <- Caps
  Chans = {ch, un}
  Timers = {}
  Selects <- TwoWay
  MaxMade <- TwoAndOne
INVARIANT TypeOK
INVARIANT NoMissedWake
INVARIANT WaitersExact
INVARIANT SendStatementSynchronous
PROPERTY ImplementsFifo
