SPECIFICATION Spec
CONSTANTS
  Main = Main
  Tasks = {t1, t2}
  Groups = {root, g1, g2}
  Root = root
  None = None
  MaxOps <- TasksOne
  Escapes = {"throw", "try"}
  OwnAwait = TRUE
INVARIANT TypeOK
INVARIANT LiveExact
INVARIANT JoinedTasksDone
INVARIANT ContextOpen
INVARIANT EveryFailureReported
INVARIANT ContextIsInnermostBlock
INVARIANT ChainOpen
SYMMETRY Symmetry
CHECK_DEADLOCK FALSE
