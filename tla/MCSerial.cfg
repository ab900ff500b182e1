CONSTANTS
  N = 6
  RX_HIGH = 4
  RX_LOW = 2
  Slack = 1
  Burst = 2
  a = a
  b = b
  Bytes <- MCBytes
  NoChar = NoChar
SPECIFICATION FairSpec
INVARIANTS
  NoOverrun
PROPERTIES
  ImplementsFifo
  SenderReleased
