SPECIFICATION CarefulSpec
CONSTANTS
  KernelThreads = {k1, k2}
  UserThreads = {u1, u2}
  idle_thread = idle
  NULL = NULL
  ticks_per_slice = 2
SYMMETRY ThreadSymmetry
INVARIANTS
  TypeOK
  ReadyQueueLinked
  ResumedWhereItStopped
  ThreadsAreAccountedFor
PROPERTIES
  PausedStartsNoUser
  ImplementsRoundRobin
