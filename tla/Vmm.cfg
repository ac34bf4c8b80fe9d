SPECIFICATION Spec
CONSTANTS
  Procs = {p1, p2}
  LEVELS = 3
  ENTRIES = 2
  Unmapped = Unmapped
  NoSpace = NoSpace
  Frames <- MCFrames
  KernelMaps <- MCKernelMaps
  LaterRanges <- MCLaterRanges
  UserRanges <- MCUserRanges
INVARIANT FramesHaveOneUse
PROPERTY ImplementsAddressSpaces
CHECK_DEADLOCK FALSE
SYMMETRY ProcSymmetry
