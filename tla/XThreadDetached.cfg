CONSTANTS
  m = m
  a = a
  b = b
  Threads = {m, a, b}
  Main = m
  MaxAlive = 3
  EarlyJoin = FALSE
  Detaching = TRUE
  NULL = NULL
SPECIFICATION Spec
SYMMETRY Symmetry
CHECK_DEADLOCK FALSE
INVARIANTS
  AliveThreadsSupported
