SPECIFICATION BlockingSpec
CONSTANTS
  Threads = {t1, t2}
  Idle = idle
  Procs = {kernel, p1}
  KernelProc = kernel
  DEFAULT_SCHEDULE_TIME_MS = 2
  DEFAULT_TIME_QUANTUM = 3
  Word = 16
  Budgets = {4}
  SleepTimes = {0, 2}
INVARIANT LinkedOnce
INVARIANT CurrNotQueued
INVARIANT WaitingIffParked
INVARIANT StacksFollowCurr
INVARIANT UserThreadHasOwnCr3
PROPERTY TicksWakeSleepers
PROPERTY ReadyRuns
PROPERTY SleepersWake
