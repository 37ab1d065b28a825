SPECIFICATION FairSpec
CONSTANTS
  Readers = {r1}
  Sels = {4, 5, 8}
  Replaceable = {4}
  Blocks = {b1, b2}
  NoBlock = NoBlock
  EmptyCache = EmptyCache
  EmptyBuckets <- MCEmptyBuckets
  Builds <- MCBuilds
  MAX_CACHE_SIZE = 8
  FULL_UTILIZATION_CACHE_SIZE = 8
  EMPTY_SIZE = 2
  garbage_threshold = 4
INVARIANTS ReadersStayInside HitIsCurrent CacheIsWellFormed
PROPERTIES LookupEnds
