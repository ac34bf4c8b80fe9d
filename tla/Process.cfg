SPECIFICATION PSpec
CONSTANTS
  Threads = {t1, t2, t3}
  Idle = idle
  Procs = {kernel, p1, p2}
  KernelProc = kernel
  DEFAULT_SCHEDULE_TIME_MS = 2
  DEFAULT_TIME_QUANTUM = 3
  Word = 4
  Budgets = {1}
  SleepTimes = {1, 2}
  Statuses <- MCStatuses
  MaxHandlers = 2
SYMMETRY ThreadSymmetry
INVARIANT QueuesSurviveExit
PROPERTY ExitSparesOthers
CHECK_DEADLOCK FALSE
