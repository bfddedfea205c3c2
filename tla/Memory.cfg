SPECIFICATION MemorySpec
CONSTANTS
  page_size = 4
  word_bits = 4
  page_count = 12
  low_pages = 3
  kernel_pages = 1
  counter_range = 16
  MemoryMaps <- MCMemoryMaps
  heap_size = 18
  node_t = 1
  node_split_threshold = 3
  Sizes = {1, 3}
  Alignments = {1, 2, 4}
  GONE = GONE
  NULL = NULL
  Frames = {1, 2, 3, 4, 5, 6, 7, 8, 9, 10}
  Slots = {1, 2}
  Entries = {1, 2}
  Dirs = {i, d1, d2}
  kernel_dir = k
  init = i
  HeapPages = {h}
  Programs <- MCPrograms
  tables_clean = TRUE
  kshell_loads = FALSE
CHECK_DEADLOCK FALSE
SYMMETRY Symmetry
INVARIANTS
  NoPageWithheld
  PagesAreSound
  UsedIsCounted
  HeapIsSound
  
PROPERTY ImplementsAllocator
