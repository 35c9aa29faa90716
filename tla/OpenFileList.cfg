SPECIFICATION Spec
CONSTANTS
  x = x
  y = y
  Chars = {x, y}
  NUL = NUL
  MaxPathLen = 2
  Threads = {t1, t2}
  Paths <- NestedPaths
  Blobs = {b1}
  NULL = NULL
  Nodes = {n1, n2, n3}
  Files = {f1, f2, f3}
  Failures = {"node", "file"}
  FreshFile = {NULL}
  MaxRefs = 2
CHECK_DEADLOCK FALSE
INVARIANTS
  TypeOK
  HeapMatchesList
  NoUseAfterFree
PROPERTIES
  ImplementsManager
  EveryCallReturns
