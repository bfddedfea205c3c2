SPECIFICATION FatLiveSpec
CONSTANTS
  Threads = {t1, t2}
  Clusters = {2, 3, 4}
  FatTable <- MCFatTable
  Starts = {2, 4}
  EOC = EOC
  OUTSIDE = OUTSIDE
  INVALID = INVALID
  NONE = NONE
  cache_size <- MCCacheSize
  Writers = {t1}
  Writable = {4}
  max_retries = 1
  max_clusters = 2
  versions = 2
INVARIANTS
  CacheIsSound
PROPERTY CallReturns
