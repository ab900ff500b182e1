SPECIFICATION Spec
CONSTANTS
  PATH_MAX = 6
  Letters <- MCLetters
  MAX_INPUT = 4
  HOME_DIR <- MCHome
  NULL = NULL
INVARIANTS
  NoOverrun
  ResolvesAsStack
  CwdIsNormal
