SPECIFICATION LineSpec
CONSTANTS
  ARGC_MAX = 2
  NUL = NUL
  MAX_LEN = 6
  N = 30
  NULL = NULL
  Garbage = Garbage
VIEW MCView
\* The function returns.
CHECK_DEADLOCK FALSE
INVARIANTS
  BuiltinsAreFound
  UnreadIsIntact
  ArgumentsAsTyped
PROPERTIES
  LineIsDone
