SPECIFICATION HeapSpec
CONSTANTS
  Callers = {c1, c2}
  HeapCallers = {c2}
  Memmap <- MCMemmap
  Garbage <- MCGarbage
  Counts = {1, 2, 3}
  Sizes = {3, 4}
  PAGE_SIZE = 4
  SizeRange = 64
CHECK_DEADLOCK FALSE
INVARIANT HeaderNamesRun
INVARIANT PagesPartitioned
INVARIANT RefCountExact
INVARIANT ReturnReadsOwnRun
