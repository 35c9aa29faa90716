SPECIFICATION Spec
CONSTANTS
  x = x
  y = y
  Chars = {x, y}
  NUL = NUL
  MaxPathLen = 2
  Paths <- DisjointPaths
  Blobs = {b1, b2}
  Ctxs = {c1, c2, c3}
  ErrorPage = ErrorPage
  NULL = NULL
  Failures = {"memory"}
  MaxRefs = 3
INVARIANT TypeOK
PROPERTY ImplementsTable
SYMMETRY CtxSymmetry
