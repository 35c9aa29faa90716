SPECIFICATION Spec
CONSTANTS
  another = another
  other = other
  f = f
  Threads = {m, w}
  Main = m
  Root = Root
  TheFolder = another
  Folders = {Root, another}
  Names = {another, f}
  Listings <- EmptiedFolder
  Trees = {j1, j2}
  NULL = NULL
  Failures = {}
SYMMETRY TreeSymmetry
CHECK_DEADLOCK FALSE
INVARIANT RefusedMeansWrong
