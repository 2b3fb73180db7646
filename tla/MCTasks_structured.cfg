SPECIFICATION FairSpec
CONSTANTS
  Main = Main
  Tasks = {t1, t2}
  Groups = {root, g1}
  Root = root
  None = None
  MaxOps <- MainOne
  Escapes = {}
  OwnAwait = TRUE
PROPERTY ImplementsStructuredGroups
PROPERTY CancelledGroupEnds
