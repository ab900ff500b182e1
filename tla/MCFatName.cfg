SPECIFICATION Spec
CONSTANTS
  BASE_LEN = 2
  EXT_LEN = 2
  MAX_NAME = 4
INVARIANT
  ShownNamesAreFound
