SPECIFICATION ProcLiveSpec
CONSTANTS
  UserProcs = {i, a, b}
  init = i
  kshell = k
  max_files = 1
CHECK_DEADLOCK FALSE

  
PROPERTY LockIsGot
