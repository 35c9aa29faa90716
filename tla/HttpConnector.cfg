SPECIFICATION Spec
CONSTANTS
  Threads = {t1, t2}
  NULL = NULL
  Failures = {"escaped", "url", "body", "toolong", "easy", "transfer"}
  StackPointer = {"null"}
  MaxChunks = 2
  MaxRequests = 3
SYMMETRY ThreadSymmetry
CHECK_DEADLOCK FALSE
INVARIANTS
  TypeOK
  NothingLost
  WholeBody
  CurlBalanced
  CounterCountsSegments
