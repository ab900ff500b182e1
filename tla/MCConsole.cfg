SPECIFICATION Spec
CONSTANTS
  SIZE = 3
  CAPACITY = 3
  Letters <- MCLetters
  NUL = NUL
  NoChar = NoChar
  MAX_TYPED = 4
\* The typist and the input may stop.
CHECK_DEADLOCK FALSE
INVARIANTS
  LinesAsTyped
PROPERTIES
  EveryLineRuns
