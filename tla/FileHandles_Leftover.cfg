SPECIFICATION FHSpec
CONSTANTS
  x = x
  y = y
  b1 = b1
  b2 = b2
  Chars = {x, y}
  NUL = NUL
  MaxPathLen = 2
  Paths <- NestedPaths
  Blobs = {b1, b2}
  Ctxs = {c1, c2, c3}
  ErrorPage = ErrorPage
  NULL = NULL
  Failures = {"listing"}
  MaxRefs = 3
  Threads = {t1, t2}
  Handles = {h1, h2}
  RemoteBlobs <- OneChanges
  EmptyBlobs = {}
  Alone <- NestedPaths
  HandleOverlap = "any"
SYMMETRY ActorSymmetry
CHECK_DEADLOCK FALSE
INVARIANTS
  ClosedMeansGone
