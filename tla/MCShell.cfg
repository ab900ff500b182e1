SPECIFICATION ShellSpec
VIEW MCView
CONSTANTS
  partitioned = partitioned
  whole = whole
  other = other
  NULL = NULL
  Noise = Noise
  Csd = Csd
  NUL = NUL
  NoChar = NoChar
  Cards <- MCCards
  PartitionStart <- MCPartitionStart
  Unsupported <- MCUnsupported
  Blocks = {0, 1, 4}
  WORD = 256
  EPB = 4
  BLOCKS_LEFT = 2
  HaveSd = TRUE
  BufferSizes = {20, 38, 39, 40}
  Boot <- MCBoot
  PartSize <- MCPartSize
  RootDir <- MCRootDir
  Dotted <- MCDotted
  Lines <- MCLines
  MOUNT_MAX = 2
INVARIANTS
  GeometryOfTheCard
  CacheOfTheCard
  ListingIsHonest
  OptionsAsTyped
  NothingLeftOpen
  MountsAreTrue
PROPERTY
  PromptReturns
