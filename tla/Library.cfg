SPECIFICATION MCSpec
CONSTANTS
  Lists = {ready, waiting}
  Values = {a, b, c}
  Null = null
  Nodes = 3
  BYTE = 2
  Addresses = {0, 1, 2}
  Sizes = {0, 1, 3}
  MAX_FORMAT = 4
  INT = 256
  LLONG = 65536
  TMP_DEC = 5
  TMP_HEX = 4
  Ints <- MCInts
  Longs = {0, 10, 65535}
  Strings <- MCStrings
  NULL = NULL
INVARIANTS MovesWhole LogReadsBack
PROPERTY ImplementsDeques
CHECK_DEADLOCK FALSE
