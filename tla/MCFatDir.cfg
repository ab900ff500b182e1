SPECIFICATION MCSpec
CONSTANTS
  WORD = 16
  EPB = 4
  CLUSTER_SIZE = 2
  BLOCKS_LEFT = 2
  CLUSTERS = 1
  MAX_READ = 2
  MAX_ENTRIES = 4
  Names = {a, b}
  NULL = NULL
INVARIANTS
  ListedInOrder
  NothingSkipped
  LookupIsHonest
PROPERTY
  CallsReturn
