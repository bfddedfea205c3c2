SPECIFICATION MCSpec
CONSTANTS
  NULL = NULL
  UNSET = UNSET
  max_mounts = 2
  max_devices = 4
  dev <- MCDev
  Volumes <- MCVolumes
  Devices <- MCDevices
  special <- MCSpecial
  Tree <- MCTree
  root = 2
  Paths <- MCPaths
  block_bytes = 2
  cluster_size = 2
  Clusters = {2, 3, 4, 5}
  Table <- MCTable
  EOC = 0
  FirstCluster <- MCFirstCluster
  Size <- MCSize
  lengths = {1, 3, 5}
  max_writes = 2
  word = 16
  block_size = 2
  lba_limit = 12
  Drives = {0, 3, 7, 11, 12, 14}
  Entries <- MCEntries
  BootRecords <- MCBootRecords
  line_size = 4
CHECK_DEADLOCK FALSE
INVARIANTS
  NamesAreSound
  PathsAreSound
  
PROPERTY ImplementsByteFiles
