SPECIFICATION VfsSpec
CONSTANTS
  kernel_proc = kernel_proc
  UserProcs = {init, p}
  init = init
  Paths = {a, b}
  Handles = {h1, h2, h3}
  Files = {f1, f2}
  max_file_handles = 3
  max_open_files = 2
  max_proc_files = 3
  std_fds = 1
  PIPE = PIPE
  FREED = FREED
  NULL = NULL
SYMMETRY Symmetric
INVARIANTS
  TablesAreSound
PROPERTY ImplementsDescriptors
