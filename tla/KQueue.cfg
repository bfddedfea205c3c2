SPECIFICATION KqLiveSpec
CONSTANTS
  KernelThreads = {k1}
  UserThreads = {u1, u2}
  idle_thread = idle
  N = 2
  semaphore_max_waiting = 3
  MaxPut = 4
  NONE = NONE
CHECK_DEADLOCK FALSE
INVARIANTS
  QueueIsSound
PROPERTIES
  ImplementsFifo
  ReaderIsServed
