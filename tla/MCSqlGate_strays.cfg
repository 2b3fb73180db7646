SPECIFICATION FairSpec
CONSTANTS
  m = m
  t = t
  u = u
  g = g
  h = h
  None = None
  Main = m
  Tasks = {t, u}
  Groups = {g, h}
  Opener <- OpenedBy
  In <- SpawnedIn
  Around <- GroupsAround
  MaxOps = 2
CHECK_DEADLOCK FALSE
INVARIANT NoneRunsInside
