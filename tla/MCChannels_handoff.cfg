SPECIFICATION FairSpec
CONSTANTS
  a = a
  b = b
  ch = ch
  un = un
  tm = tm
  None = None
  Threads = {a, b}
  Workers = {a}
  Cap <- Caps
  Chans = {un}
  Timers = {}
  Selects = {}
  MaxMade <- OneEach
PROPERTY HandoffEnds
