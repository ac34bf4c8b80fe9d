SPECIFICATION Spec
CONSTANTS
  MOD = 32
  TABLE_PAGES = 8
  PAGE_SIZE = 2
  USER_ADDR_END = 8
  EHDR_SIZE = 2
  PHDR_SIZE = 2
  PHNUM_LIMIT = 3
  PHENTSIZE_LIMIT = 4
  PHOFF_LIMIT = 8
  Files <- MCFiles
INVARIANTS ReadsInsideFile MapsUserPagesOnly LoadedAsLinked
CHECK_DEADLOCK FALSE
