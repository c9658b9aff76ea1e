\* Two threads that allocate and free, one set item of three objects.
CONSTANTS
  Threads = {t1, t2}
  Allocators = {t1, t2}
  ThreadIndex <- ForeignIndex
  BagSetSize = 1
  PageObjects = 1
  NumMore = 1
  MaxObjects = 3
  Overruns = FALSE
  NULL = NULL
  ALLOC = ALLOC
SPECIFICATION Spec
CHECK_DEADLOCK FALSE
INVARIANTS
  ExclusiveOwnership
