SPECIFICATION FairSpec
CONSTANTS
  m = m
  t = t
  u = u
  g = g
  h = h
  None = None
  Main = m
  Tasks = {t, u}
  Groups = {g, h}
  Opener <- OpenedBy
  In <- SpawnedIn
  Around <- GroupsAround
  MaxOps = 2
INVARIANT TypeOK
INVARIANT GateExact
INVARIANT ListExact
INVARIANT NothingOutlivesItsThread
INVARIANT OnlyCallsInFlightStray
PROPERTY GateOpens
CHECK_DEADLOCK FALSE
