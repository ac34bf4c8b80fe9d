----------------------------- MODULE Scheduler -----------------------------
(***************************************************************************)
(* struct Schedule of include/arch/x86-64/proc/scheduler.hpp and its       *)
(* member functions in kernel/arch/x86-64/proc/scheduler.cpp: the ready    *)
(* and waiting queues, the current thread, the time slices, and the two    *)
(* CPU registers a task switch reloads (tss.rsp0 and CR3).                 *)
(*                                                                         *)
(* The code nests calls (pit_irq_handler calls unblock, which calls        *)
(* switch_task, which calls add_ready_threads, ...), so each member        *)
(* function is an operator from a scheduler state to a scheduler state and *)
(* an action installs the result of the outermost call.  The calls here    *)
(* run with interrupts off (lock_scheduler executes cli, the PIT vector is *)
(* an interrupt gate), so one call is one step.  The one call of           *)
(* schedule() that no lock covers, at the end of x86_gp_fault_handler, is  *)
(* in module Process, step by step.                                        *)
(*                                                                         *)
(* The two kstd::SingleDeque queues are sequences.  That is exact as long  *)
(* as no thread is linked twice through its only hook, which is the        *)
(* invariant LinkedOnce below; module SingleDeque shows the pointer        *)
(* operations implement the sequence operations under that condition.      *)
(*                                                                         *)
(* Time: get_time_milliseconds() is the tick count and exec_start_ms is    *)
(* read for the current thread only, and written whenever curr_thread is,  *)
(* so the field "elapsed" keeps just their difference for curr_thread.     *)
(***************************************************************************)
EXTENDS Integers, Sequences

CONSTANTS
  Threads,                   \* every ThreadBlock except g_idle
  Idle,                      \* g_idle
  Procs,                     \* every ProcessBlock
  KernelProc,                \* g_kernel_process, which owns g_idle
  DEFAULT_SCHEDULE_TIME_MS,  \* thread.hpp: 6
  DEFAULT_TIME_QUANTUM,      \* scheduler.hpp: 100
  Word,                      \* values of a std::uint64_t: 2^64
  Budgets,                   \* arguments of update_scheduled_time
  SleepTimes                 \* arguments of sleep

ASSUME ThreadsAssumption == Idle \notin Threads /\ KernelProc \in Procs

ASSUME TimesAssumption ==
  /\ DEFAULT_TIME_QUANTUM \in Nat \ {0}
  /\ Word \in Nat
  /\ DEFAULT_SCHEDULE_TIME_MS \in 1 .. Word - 1
  /\ DEFAULT_TIME_QUANTUM < Word
  /\ Budgets \subseteq 0 .. Word - 1
  /\ SleepTimes \subseteq 0 .. Word - 1

VARIABLES
  sched,   \* the scheduler state, a record of the set SchedState
  live     \* the threads that have been handed to add_ready_threads

vars == <<sched, live>>

AllThreads == Threads \cup {Idle}

ThreadState == {"Ready", "Running", "Blocked", "Sleep"}

SchedState ==
  [curr_thread           : AllThreads,
   ready_threads         : Seq(Threads),
   waiting_queue         : Seq(Threads),
   state                 : [AllThreads -> ThreadState],
   sleep_time            : [AllThreads -> 0 .. Word - 1],
   scheduled_time        : [AllThreads -> 0 .. Word - 1],
   m_process             : [AllThreads -> Procs],
   elapsed               : Nat,        \* now - curr_thread->exec_start_ms
   time_quantum_past     : BOOLEAN,
   task_switch_postponed : BOOLEAN,
   task_switch_counter   : 0 .. 255,   \* std::uint8_t
   disable_counter       : 0 .. 255,   \* std::uint8_t
   rsp0                  : AllThreads, \* whose kernel stack tss.rsp0 names
   syscall_kernel_rsp    : AllThreads, \* whose kernel stack syscall.S uses
   cr3                   : Procs]      \* whose page map is loaded
-----------------------------------------------------------------------------
(* Queue helpers.                                                          *)

Linked(q) == {q[i] : i \in DOMAIN q}

(* SingleDeque::remove: the node is unlinked, a value that is not linked   *)
(* here leaves the queue alone.                                            *)
Remove(q, t) ==
  IF t \notin Linked(q) THEN q
  ELSE LET at == CHOOSE i \in DOMAIN q : q[i] = t
       IN  [i \in 1 .. Len(q) - 1 |-> IF i < at THEN q[i] ELSE q[i + 1]]
-----------------------------------------------------------------------------
(* The member functions of Schedule.                                       *)

lock_scheduler(s) ==
  [s EXCEPT !.disable_counter = (@ + 1) % 256,
            !.task_switch_counter = (@ + 1) % 256]

(* Mutant: push_head instead of push_tail. *)
add_ready_threads_lifo(s, t) ==
  [s EXCEPT !.state[t] = "Ready",
            !.scheduled_time[t] = DEFAULT_SCHEDULE_TIME_MS,
            !.ready_threads = <<t>> \o @,
            !.time_quantum_past = FALSE]

(* The branch for a null curr_thread is left out: the constructor sets     *)
(* curr_thread to the idle thread and no code sets it back to null.        *)
add_ready_threads(s, t) ==
  IF s.time_quantum_past
  THEN [s EXCEPT !.state[t] = "Ready",
                 !.ready_threads = Append(@, t),
                 !.time_quantum_past = FALSE]
  ELSE [s EXCEPT !.state[t] = "Ready",
                 !.scheduled_time[t] = DEFAULT_SCHEDULE_TIME_MS,
                 !.ready_threads = Append(@, t)]

(* Mutant: a thread that just parked itself is requeued too. *)
requeue_running_any_state(s, next) ==
  IF s.curr_thread # Idle
  THEN [add_ready_threads(s, s.curr_thread) EXCEPT !.state[next] = "Running"]
  ELSE s

(* Mutant: the switch to idle forgets the thread it preempts. *)
requeue_running_unless_idle_next(s, next) ==
  IF s.state[s.curr_thread] = "Running" /\ s.curr_thread # Idle /\ next # Idle
  THEN [add_ready_threads(s, s.curr_thread) EXCEPT !.state[next] = "Running"]
  ELSE s

(* A thread that is preempted while Running goes back to the ready queue.  *)
requeue_running(s, next) ==
  IF s.state[s.curr_thread] = "Running" /\ s.curr_thread # Idle
  THEN [add_ready_threads(s, s.curr_thread) EXCEPT !.state[next] = "Running"]
  ELSE s

(* Mutant: curr_thread is assigned before the processes are compared. *)
load_cr3_never(r, next) == r.cr3

(* The page map is loaded only when the process changes.                   *)
load_cr3(r, next) ==
  IF r.m_process[next] # r.m_process[r.curr_thread]
  THEN r.m_process[next] ELSE r.cr3

(* Mutant: the stack pointer syscall.S reads is not moved. *)
switch_task_tss_only(s, next) ==
  LET r == requeue_running(s, next)
  IN  IF next = Idle
      THEN [r EXCEPT !.curr_thread = Idle, !.elapsed = 0]
      ELSE [r EXCEPT !.rsp0 = next,
                     !.cr3 = load_cr3(r, next),
                     !.curr_thread = next,
                     !.elapsed = 0]

(* The switch to idle returns before the stack pointers and CR3 are set.   *)
switch_task(s, next) ==
  LET r == requeue_running(s, next)
  IN  IF next = Idle
      THEN [r EXCEPT !.curr_thread = Idle, !.elapsed = 0]
      ELSE [r EXCEPT !.rsp0 = next,
                     !.syscall_kernel_rsp = next,
                     !.cr3 = load_cr3(r, next),
                     !.curr_thread = next,
                     !.elapsed = 0]

(* The unsigned subtraction wraps.                                         *)
charge_quantum(s) ==
  LET left == (s.scheduled_time[s.curr_thread] - DEFAULT_TIME_QUANTUM) % Word
  IN  IF s.time_quantum_past
      THEN [s EXCEPT !.scheduled_time[s.curr_thread] =
                         IF left = 0 THEN DEFAULT_SCHEDULE_TIME_MS ELSE left]
      ELSE s

(* Mutant: the head is looked at and not popped. *)
dispatch_head_peeks(s) ==
  LET next == Head(s.ready_threads)
  IN  switch_task([s EXCEPT !.state[next] = "Running"], next)

(* Mutant: the next thread is not marked Running. *)
dispatch_head_unmarked(s) ==
  switch_task([s EXCEPT !.ready_threads = Tail(@)], Head(s.ready_threads))

dispatch_head(s) ==
  LET next == Head(s.ready_threads)
  IN  switch_task([s EXCEPT !.ready_threads = Tail(@),
                            !.state[next] = "Running"], next)

schedule(s) ==
  IF s.task_switch_counter # 0 THEN [s EXCEPT !.task_switch_postponed = TRUE]
  ELSE IF s.ready_threads = <<>> THEN switch_task(s, Idle)
  ELSE dispatch_head(charge_quantum(s))

(* A switch that was asked for under the lock happens at the last unlock.  *)
switch_if_owed(s) ==
  IF s.task_switch_counter = 0 /\ s.task_switch_postponed
  THEN schedule([s EXCEPT !.task_switch_postponed = FALSE])
  ELSE s

unlock_scheduler(s) ==
  LET r == switch_if_owed([s EXCEPT !.task_switch_counter = (@ - 1) % 256])
  IN  [r EXCEPT !.disable_counter = (@ - 1) % 256]

sleep(s, milli) ==
  LET l == lock_scheduler(s)
      c == l.curr_thread
  IN  unlock_scheduler(schedule(
        [l EXCEPT !.sleep_time[c] = milli,
                  !.state[c] = "Sleep",
                  !.waiting_queue = Append(@, c)]))

yield(s) ==
  LET l == lock_scheduler(s)
      c == l.curr_thread
  IN  unlock_scheduler(schedule(
        [l EXCEPT !.state[c] = "Ready",
                  !.scheduled_time[c] = DEFAULT_SCHEDULE_TIME_MS,
                  !.ready_threads = Append(@, c)]))

block(s) ==
  LET l == lock_scheduler(s)
      c == l.curr_thread
  IN  unlock_scheduler(schedule(
        [l EXCEPT !.state[c] = "Blocked",
                  !.waiting_queue = Append(@, c)]))

(* Mutant: the task keeps its Sleep or Blocked state. *)
unpark_keeps_state(s, task) ==
  [s EXCEPT !.waiting_queue = Remove(@, task), !.sleep_time[task] = 0]

unpark(s, task) ==
  [s EXCEPT !.waiting_queue = Remove(@, task),
            !.sleep_time[task] = 0,
            !.state[task] = "Ready"]

(* Idle gives way at once: switch_task runs under the lock.                *)
unblock(s, task) ==
  LET r == unpark(lock_scheduler(s), task)
  IN  unlock_scheduler(
        IF r.ready_threads = <<>> /\ r.curr_thread = Idle
        THEN switch_task(r, task)
        ELSE [r EXCEPT !.ready_threads = Append(@, task)])

(* One turn of the loop over waiting_queue in pit_irq_handler.             *)
wake_one(s, t) ==
  LET left == IF s.sleep_time[t] > 0 THEN s.sleep_time[t] - 1 ELSE 0
      d    == [s EXCEPT !.sleep_time[t] = left]
  IN  IF s.state[t] = "Blocked" THEN s
      ELSE IF left = 0 THEN unblock(d, t)
      ELSE d

(* Mutant: the iterator reads the hook after the body, and a woken thread's *)
(* hook already belongs to ready_threads, so the loop ends there.           *)
wake_sleepers_late_next(s) ==
  LET q == s.waiting_queue
      after[i \in 0 .. Len(q)] ==
        IF i = 0 THEN s
        ELSE IF after[i - 1].waiting_queue # q THEN after[i - 1]
        ELSE wake_one(after[i - 1], q[i])
  IN  after[Len(q)]

(* The iterator fetches the next node before the body runs, so the loop    *)
(* visits the queue as it was when the handler started.                    *)
wake_sleepers(s) ==
  LET q == s.waiting_queue
      after[i \in 0 .. Len(q)] ==
        IF i = 0 THEN s ELSE wake_one(after[i - 1], q[i])
  IN  after[Len(q)]

(* Mutant: the quantum is checked before the slice. *)
check_slice_quantum_first(s) ==
  IF s.elapsed = DEFAULT_TIME_QUANTUM
  THEN schedule([s EXCEPT !.time_quantum_past = TRUE])
  ELSE IF s.elapsed >= s.scheduled_time[s.curr_thread] THEN schedule(s)
  ELSE s

(* Mutant: at the quantum the count starts again and nobody is switched. *)
check_slice_renews(s) ==
  IF s.elapsed >= s.scheduled_time[s.curr_thread] THEN schedule(s)
  ELSE IF s.elapsed = DEFAULT_TIME_QUANTUM THEN [s EXCEPT !.elapsed = 0]
  ELSE s

(* The end of the slice, or the end of the quantum inside a longer slice.  *)
check_slice(s) ==
  IF s.elapsed >= s.scheduled_time[s.curr_thread] THEN schedule(s)
  ELSE IF s.elapsed = DEFAULT_TIME_QUANTUM
       THEN schedule([s EXCEPT !.time_quantum_past = TRUE])
  ELSE s

(* Mutant: the handler returns early when idle runs and nobody is ready. *)
pit_irq_handler_unless_idle ==
  IF sched.curr_thread = Idle /\ sched.ready_threads = <<>> THEN sched' = sched
  ELSE \E woken \in {wake_sleepers(lock_scheduler([sched EXCEPT !.elapsed = @ + 1]))} :
         \E checked \in {check_slice(woken)} : sched' = unlock_scheduler(checked)

(* isr_timer advances the tick count before it calls pit_irq_handler.      *)
pit_irq_handler ==
  \E woken \in {wake_sleepers(lock_scheduler([sched EXCEPT !.elapsed = @ + 1]))} :
    \E checked \in {check_slice(woken)} : sched' = unlock_scheduler(checked)
-----------------------------------------------------------------------------
(* The constructor, and the actions.                                       *)

Init ==
  /\ sched = [curr_thread           |-> Idle,
              ready_threads         |-> <<>>,
              waiting_queue         |-> <<>>,
              state                 |-> [t \in AllThreads |->
                                           IF t = Idle THEN "Running" ELSE "Ready"],
              sleep_time            |-> [t \in AllThreads |-> 0],
              scheduled_time        |-> [t \in AllThreads |-> DEFAULT_SCHEDULE_TIME_MS],
              m_process             |-> [t \in AllThreads |-> KernelProc],
              elapsed               |-> 0,
              time_quantum_past     |-> FALSE,
              task_switch_postponed |-> FALSE,
              task_switch_counter   |-> 0,
              disable_counter       |-> 0,
              rsp0                  |-> Idle,
              syscall_kernel_rsp    |-> Idle,
              cr3                   |-> KernelProc]
  /\ live = {}

(* A ThreadBlock is constructed for process p and made ready, as           *)
(* Terminal::start does.                                                   *)
Spawn(t, p) ==
  /\ t \notin live
  /\ live' = live \cup {t}
  /\ sched' = add_ready_threads([sched EXCEPT !.m_process[t] = p], t)

(* The timer interrupt.                                                    *)
Tick ==
  /\ pit_irq_handler
  /\ UNCHANGED live

(* ThreadBlock::update_scheduled_time.                                     *)
UpdateScheduledTime(t, ms) ==
  /\ t \in live
  /\ sched' = [sched EXCEPT !.scheduled_time[t] = ms]
  /\ UNCHANGED live

(* The voluntary calls act on curr_thread.  The idle thread only halts, so *)
(* it never makes one.                                                     *)
Sleep(milli) ==
  /\ sched.curr_thread # Idle
  /\ sched' = sleep(sched, milli)
  /\ UNCHANGED live

Block ==
  /\ sched.curr_thread # Idle
  /\ sched' = block(sched)
  /\ UNCHANGED live

Yield ==
  /\ sched.curr_thread # Idle
  /\ sched' = yield(sched)
  /\ UNCHANGED live

(* Code that waits on t, or an interrupt handler, wakes a thread that      *)
(* waits.  Waking one that does not wait is outside the contract.          *)
Unblock(t) ==
  /\ t \in Linked(sched.waiting_queue)
  /\ sched' = unblock(sched, t)
  /\ UNCHANGED live

(* What the kernel does today: threads are added and preempted.            *)
KernelNext ==
  \/ \E t \in Threads, p \in Procs : Spawn(t, p)
  \/ \E t \in Threads, ms \in Budgets : UpdateScheduledTime(t, ms)
  \/ Tick

(* With the primitives the scheduler offers its callers.  A yield with     *)
(* nobody else ready queues a thread that stays current; what the queues   *)
(* promise rests on callers not making it, see YieldSpec.                  *)
BlockingNext ==
  \/ KernelNext
  \/ \E milli \in SleepTimes : Sleep(milli)
  \/ Block
  \/ sched.ready_threads # <<>> /\ Yield
  \/ \E t \in Threads : Unblock(t)

(* The PIT raises its interrupt every millisecond and every entry point    *)
(* leaves interrupts enabled, so ticks keep coming; nothing else is fair.  *)
BlockingSpec == Init /\ [][BlockingNext]_vars /\ WF_vars(Tick)

(* Callers that yield whoever is ready.                                    *)
YieldSpec == Init /\ [][BlockingNext \/ Yield]_vars
-----------------------------------------------------------------------------
(* Properties.                                                             *)

TypeOK == sched \in SchedState /\ live \subseteq Threads

(* A ThreadBlock has one list hook, shared by ready_threads and            *)
(* waiting_queue: no thread is linked twice, in one queue or across both.  *)
LinkedOnce ==
  LET q == sched.ready_threads \o sched.waiting_queue
  IN  \A i, j \in DOMAIN q : q[i] = q[j] => i = j

(* The running thread is outside both queues.                              *)
CurrNotQueued ==
  /\ sched.curr_thread \notin Linked(sched.ready_threads)
  /\ sched.curr_thread \notin Linked(sched.waiting_queue)

(* A thread the scheduler was given stays reachable: it runs, or one of    *)
(* the queues holds it.                                                    *)
NoThreadLost ==
  \A t \in live : \/ t = sched.curr_thread
                  \/ t \in Linked(sched.ready_threads)
                  \/ t \in Linked(sched.waiting_queue)

(* The queue a thread is in agrees with its state: waiting_queue holds     *)
(* exactly the Blocked and the Sleep threads, so the timer loop and        *)
(* unblock see each of them.                                               *)
WaitingIffParked ==
  \A t \in Threads : t \in Linked(sched.waiting_queue)
                        <=> sched.state[t] \in {"Blocked", "Sleep"}

(* Only one thread besides idle is Running, and it is curr_thread; a       *)
(* thread that owns the CPU is marked Running, which switch_task relies on *)
(* to put it back in the ready queue.                                      *)
RunningIffCurr ==
  \A t \in Threads : sched.state[t] = "Running" <=> t = sched.curr_thread

(* Interrupts from user mode and syscalls land on the kernel stack of the  *)
(* thread that runs, whatever path the switches took (idle leaves both     *)
(* stack pointers behind).                                                 *)
StacksFollowCurr ==
  sched.curr_thread # Idle =>
    /\ sched.rsp0 = sched.curr_thread
    /\ sched.syscall_kernel_rsp = sched.curr_thread

(* A thread of a process other than the kernel runs on its own page map,   *)
(* although switch_task skips the CR3 load within a process and on the way *)
(* to idle.                                                                *)
UserThreadHasOwnCr3 ==
  LET p == sched.m_process[sched.curr_thread]
  IN  p # KernelProc => sched.cr3 = p

(* No thread keeps the CPU for a whole DEFAULT_TIME_QUANTUM without a      *)
(* scheduling decision, however large its slice was made in the meantime.  *)
SliceBounded == sched.elapsed < DEFAULT_TIME_QUANTUM

(* Every call leaves the scheduler unlocked with no switch owed, however   *)
(* the lock nests (unblock locks again inside pit_irq_handler).            *)
Unlocked ==
  /\ sched.task_switch_counter = 0 /\ sched.disable_counter = 0
  /\ ~sched.task_switch_postponed

(* No call leaves a used-up quantum for the next thread to pay.            *)
NoQuantumOwed == ~sched.time_quantum_past

(* Charging a quantum never wraps a slice below zero: no slice exceeds     *)
(* what some caller asked for.                                             *)
SlicesNeverWrap ==
  \A t \in AllThreads : \E b \in Budgets \cup {DEFAULT_SCHEDULE_TIME_MS} :
    sched.scheduled_time[t] <= b

(* Round robin: in one call at most the head of the ready queue leaves it, *)
(* and the threads that stay keep their order and their place in front of  *)
(* whoever arrives.                                                        *)
ReadyIsFifo ==
  [][\E k \in 0 .. 1 :
       LET old == sched.ready_threads
           new == sched'.ready_threads
       IN  /\ k <= Len(old)
           /\ Len(old) - k <= Len(new)
           /\ \A i \in 1 .. Len(old) - k : new[i] = old[i + k]]_vars

(* Each tick brings every sleeper, and no Blocked thread, exactly one      *)
(* millisecond closer to leaving waiting_queue, wherever in the queue it   *)
(* stands and whoever else is woken by the same tick.                      *)
TicksWakeSleepers ==
  [][Tick => \A t \in Linked(sched.waiting_queue) :
       LET due == sched.state[t] = "Sleep" /\ sched.sleep_time[t] <= 1
       IN  /\ t \in Linked(sched'.waiting_queue) <=> ~due
           /\ sched.state[t] = "Sleep" /\ ~due
                => sched'.sleep_time[t] = sched.sleep_time[t] - 1]_vars

(* No starvation: a ready thread eventually runs.                          *)
ReadyRuns ==
  \A t \in Threads : t \in Linked(sched.ready_threads) ~> sched.curr_thread = t

(* Every sleep ends, although other threads come and go in waiting_queue.  *)
SleepersWake ==
  \A t \in Threads : sched.state[t] = "Sleep" ~> sched.state[t] # "Sleep"
=============================================================================
