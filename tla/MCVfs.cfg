CONSTANTS
  PROCS = 1
  FD_MAX = 2
  PROC_FD_MAX = 3
  NULL = NULL
  NUM_BUFFERS = 6
  etc = etc
  dev = dev
  tooLong = tooLong
  Names <- MCNames
  LongNames <- MCLongNames
  Paths <- MCPaths
  Perms <- MCPerms
  Accs <- MCAccs
  Masks <- MCMasks
  Types <- MCTypes
SPECIFICATION VfsSpec
VIEW MCView
INVARIANTS
  CountsDescriptors
  ClosedWithLastDescriptor
  InodeCounts
  BuffersHaveOneOwner
PROPERTIES
  ImplementsTree
  PositionsKeepTheirEntries
