SPECIFICATION LiveSpec
CONSTANTS
  KernelThreads = {k1}
  UserThreads = {u1, u2}
  idle_thread = idle
  NULL = NULL
  ticks_per_slice = 2
PROPERTY EveryThreadRuns
