SPECIFICATION Spec
CONSTANTS
  HEADER = 4
  POINTER = 2
  WORD = 65536
  KMALLOC_MIN_BLOCK_SIZE = 16
  SPACE = 48
  RAM = 180
  ARGC_MAX = 2
  ARG_MAX = 3
  Sizes = {4, 7, 14}
  Argvs <- MCArgvs
  NULL = NULL
INVARIANT
  InUserSpace
