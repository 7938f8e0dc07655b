CONSTANTS
  k1 = k1
  k2 = k2
  k3 = k3
  k4 = k4
  k5 = k5
  k6 = k6
  NULL = NULL
  Keys = {k1, k2, k3, k4, k5, k6}
  Word <- SharedWord
  HASH_FCN <- Hash
  HASH_INITIAL_NUM_BUCKETS = 1
  HASH_BKT_CAPACITY_THRESH = 2
  Levels = {0, 1}
  CacheSize = 3
SPECIFICATION Spec
INVARIANTS
  EntriesCompact
  KeepsMostRecent
  ReturnsItsDecision
  TableIntegrity
PROPERTIES
  HitKeepsBuckets
