CONSTANTS
  Devices = {0, 1, 12}
  Idle = idle
  Terminal = terminal
  UserThreads = {u1}
  Registered = {1, 39}
  SysExit = 60
  Numbers = {2, 60, 512}
  MAX_SYSCALLS = 512
  Faults = {13}
SPECIFICATION Spec
INVARIANTS
  GsMatchesRing
  InterruptsFindHandlers
  SelectorsAgree
  SwitchUndisturbed
PROPERTIES
  RequestsServed
  BootEnds
CHECK_DEADLOCK FALSE
