\* Three threads; of three addresses two share a bucket.
CONSTANTS
  Threads = {t1, t2, t3}
  Addresses = {a1, a2, a3}
  Colliding = {a1, a2}
  SharedBucket = b1
  OtherBucket = b2
  Bucket <- TwoBuckets
  Entries = {e1, e2, e3}
  Statuses = {s1, s2, s3}
  NULL = NULL
SPECIFICATION Spec
SYMMETRY Symmetry
\* The process ends when an object it frees is not found.
CHECK_DEADLOCK FALSE
INVARIANTS
  TypeOK
  TableExact
  MappingsOwned
  TableInv
