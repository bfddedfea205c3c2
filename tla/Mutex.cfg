SPECIFICATION MutexLiveSpec
CONSTANTS
  KernelThreads = {k1}
  UserThreads = {u1, u2, u3}
  idle_thread = idle
  semaphore_max_waiting = 2
  Nobody = Nobody
  Lost = Lost
CHECK_DEADLOCK FALSE
INVARIANTS
  MutexTypeOK
  OnePlace
  MutualExclusion
  WaitersAreQueued
  NoLostWakeup
PROPERTIES
  ImplementsFifoLock
  WaiterEnters
