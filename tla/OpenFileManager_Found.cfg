SPECIFICATION Spec
CONSTANTS
  x = x
  y = y
  Chars = {x, y}
  NUL = NUL
  MaxPathLen = 2
  Paths <- NestedPaths
  Blobs = {b1, b2}
  Ctxs = {c1, c2, c3, c4}
  ErrorPage = ErrorPage
  NULL = NULL
  Failures = {"memory"}
  MaxRefs = 3
SYMMETRY CtxSymmetry
INVARIANTS
  FoundMeansOpen
