SPECIFICATION YieldSpec
CONSTANTS
  Threads = {t1, t2, t3}
  Idle = idle
  Procs = {kernel, p1}
  KernelProc = kernel
  DEFAULT_SCHEDULE_TIME_MS = 2
  DEFAULT_TIME_QUANTUM = 3
  Word = 16
  Budgets = {4}
  SleepTimes = {0, 2}
SYMMETRY ThreadSymmetry
INVARIANT LinkedOnce
