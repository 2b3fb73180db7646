SPECIFICATION Spec
CONSTANTS
  Main = Main
  Tasks = {t1, t2}
  Groups = {root, g1}
  Root = root
  None = None
  MaxOps <- OneEach
  Escapes = {"throw"}
  OwnAwait = TRUE
PROPERTY NoTaskOutlivesItsBlock
