\* One thread allocates and frees, two only free; one set item of four objects,
\* two neighbours on each side, overruns.
CONSTANTS
  Threads = {t1, t2, t3}
  Allocators = {t1}
  ThreadIndex <- OwnIndex
  BagSetSize = 1
  PageObjects = 1
  NumMore = 2
  MaxObjects = 4
  Overruns = TRUE
  NULL = NULL
  ALLOC = ALLOC
SPECIFICATION Spec
SYMMETRY Symmetry
\* The process ends when an overrun is found.
CHECK_DEADLOCK FALSE
INVARIANTS
  TypeOK
  ExclusiveOwnership
  FreeListExact
  StatusWordTruthful
  NoFalseReport
  ClobberedNeverReused
  HeapInv
