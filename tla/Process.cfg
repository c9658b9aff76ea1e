\* Four identities of threads, a table of three; stacks of four pages. The area
\* lies right below or right above the stack of the initial thread.
CONSTANTS
  m = m
  a = a
  b = b
  c = c
  Threads = {m, a, b, c}
  Main = m
  MaxAlive = 3
  EarlyJoin = FALSE
  Detaching = TRUE
  StackSize = 4
  GuardSize = 1
  MainStack = {31, 32}
  Areas = {19, 33}
  NULL = NULL
SPECIFICATION FairSpec
\* The program may make no further call, and the process may fail.
CHECK_DEADLOCK FALSE
INVARIANTS
  ProcessTypeOK
  ExclusiveIndex
  IndexInTable
  JoinFindsIndex
  EntriesAccounted
  UsesInitialized
  BagsExclusive
  StacksApart
PROPERTIES
  IndexStable
  RefinesIndexPool
  StartupEnds
  GlobalLockReleased
