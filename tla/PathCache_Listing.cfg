SPECIFICATION Spec
CONSTANTS
  another = another
  other = other
  f = f
  Threads = {m, w}
  Main = m
  Root = Root
  TheFolder = another
  Folders = {Root, another, other}
  Names = {another, f}
  Listings <- SmallTree
  Trees = {j1, j2}
  NULL = NULL
  Failures = {"memory", "listing", "misrouted", "empty"}
SYMMETRY TreeSymmetry
CHECK_DEADLOCK FALSE
INVARIANTS
  TypeOK
  ListingOfFolder
  RefsBalanced
  UnmountedMeansFreed
PROPERTY ImplementsFolderListing
