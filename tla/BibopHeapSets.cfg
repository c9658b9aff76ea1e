\* One thread allocates and frees, one only frees; two set items of three
\* objects, and guard pages of two objects.
CONSTANTS
  Threads = {t1, t2}
  Allocators = {t1}
  ThreadIndex <- OwnIndex
  BagSetSize = 2
  PageObjects = 2
  NumMore = 1
  MaxObjects = 3
  Overruns = FALSE
  NULL = NULL
  ALLOC = ALLOC
SPECIFICATION FairSpec
PROPERTIES
  RefinesFifoPool
  LockReleased
