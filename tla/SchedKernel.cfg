SPECIFICATION DKernelSpec
CONSTANTS
  Threads = {t1, t2, t3}
  Idle = idle
  Procs = {kernel, p1}
  KernelProc = kernel
  DEFAULT_SCHEDULE_TIME_MS = 2
  DEFAULT_TIME_QUANTUM = 3
  Word = 16
  Budgets = {0, 1, 7}
  SleepTimes = {0, 2}
  MaxSteps = 1
SYMMETRY ThreadSymmetry
INVARIANT NoThreadLost
INVARIANT RunningIffCurr
INVARIANT SlicesNeverWrap
INVARIANT CpuRunsCurr
INVARIANT ContextsKept
PROPERTY ReadyIsFifo
