\* Sizes of six bits; classes of 2 to 16 bytes; mappings end right before the
\* heap or lie right behind it; the heap is aligned to a page, not to two.
CONSTANTS
  Word = 64
  MinBlockSize = 2
  NumBags = 4
  LargeThreshold = 16
  BagSize = 16
  PageSize = 4
  HeapBegin = 68
  MapAt = {4, 132}
  Slots = {p, q}
  Requests = {0, 2, 15, 16, 61, 63}
  Factors = {7, 9, 18}
  Alignments = {4, 8}
  NULL = NULL
SPECIFICATION Spec
\* The process ends when mmap fails or the wrong heap is asked.
CHECK_DEADLOCK FALSE
INVARIANT AlignedAsAsked
