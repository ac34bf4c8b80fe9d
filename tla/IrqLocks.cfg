SPECIFICATION LocksSpec
CONSTANTS
  Cpus = {c1, c2}
  Locks = {1, 2}
  MaxHeld = 2
  MaxDepth = 2
INVARIANTS HandlersFindLocksFree InterruptsAsLeft OneOwner
