------------------------------ MODULE Process ------------------------------
(***************************************************************************)
(* Processes and the exit system call: struct ProcessBlock, the handler in *)
(* include/sys/sys_list.hpp, and Schedule::remove_dead_process_threads.    *)
(* A system call runs with interrupts off (SFMASK clears IF) and           *)
(* ProcessBlock::exit holds an IrqRAIGaurd, so exit is one step.  A        *)
(* general protection fault in ring 3 ends the process too                 *)
(* (x86_gp_fault_handler).  Its gate is a trap gate and its own call of    *)
(* schedule() takes no lock, so that switch is several steps, and a timer  *)
(* tick can fall between any two of them.  A tick that only counts lets    *)
(* the handler go on.  What one that wakes a thread, switches, or falls    *)
(* inside a step leaves of the queues is followed no further: torn.        *)
(***************************************************************************)
EXTENDS Scheduler

CONSTANTS
  Statuses,   \* arguments of exit
  MaxHandlers \* bound on the #GP handlers that have yet to call schedule()

VARIABLES
  status,      \* ProcessBlock::status
  threads,     \* ProcessBlock::threads, linked through proc_hook
  thread_size, \* ProcessBlock::thread_size, a std::uint8_t
  handlers,    \* how many #GP handlers are between exit(-1) and schedule()
  at,          \* how far the schedule() of a #GP handler is, "none" outside
  next_thread, \* its next_thread, Idle outside
  torn         \* whether a tick broke into its steps

gvars == <<handlers, at, next_thread, torn>>

pvars == <<vars, status, threads, thread_size, gvars>>

ASSUME StatusesAssumption == Statuses \subseteq Int

PInit ==
  /\ Init
  /\ status = [p \in Procs |-> "Ready"]
  /\ threads = [p \in Procs |-> <<>>]
  /\ thread_size = [p \in Procs |-> 0]
  /\ handlers = 0 /\ at = "none" /\ next_thread = Idle /\ torn = FALSE

(* No handler is in the middle of its schedule().                          *)
Free == at = "none" /\ ~torn

(* ProcessBlock::add_thread, then add_ready_threads.                       *)
PSpawn(t, p) ==
  /\ Free
  /\ Spawn(t, p)
  /\ threads' = [threads EXCEPT ![p] = Append(@, t)]
  /\ thread_size' = [thread_size EXCEPT ![p] = (@ + 1) % 256]
  /\ UNCHANGED <<status, gvars>>

(* One turn of either loop over a queue.                                   *)
drop_one(s, t, p) ==
  IF s.m_process[t] = p THEN [s EXCEPT !.waiting_queue = Remove(@, t)] ELSE s

(* The iterator fetches the next node before the body runs, so a loop      *)
(* visits the queue as it was.                                             *)
drop(s, q, p) ==
  LET after[i \in 0 .. Len(q)] == IF i = 0 THEN s ELSE drop_one(after[i - 1], q[i], p)
  IN  after[Len(q)]

(* Mutant: the queue is cleared. *)
drop_waiting_all(s, p) == [s EXCEPT !.waiting_queue = <<>>]

(* The loop over waiting_queue.                                            *)
drop_waiting(s, p) == drop(s, s.waiting_queue, p)

(* The loop over ready_threads, which asks waiting_queue to remove them:   *)
(* none of them is linked there.                                           *)
drop_ready(s, p) == drop(s, s.ready_threads, p)

(* Mutant: the switch is made as if the caller had parked itself first. *)
remove_dead_process_threads_parks(s) ==
  LET p == s.m_process[s.curr_thread]
      r == drop_ready(drop_waiting(s, p), p)
  IN  schedule([r EXCEPT !.ready_threads = Append(@, s.curr_thread)])

remove_dead_process_threads(s) ==
  LET p == s.m_process[s.curr_thread]
  IN  schedule(drop_ready(drop_waiting(s, p), p))

(* ProcessBlock::exit, which acts on -1 only.  No code sets a parent, so   *)
(* the process becomes Dead and the branch that makes it a Zombie and sets *)
(* exit_status is never taken.                                             *)
Exit(p, stats) ==
  IF stats = -1
  THEN /\ status' = [status EXCEPT ![p] = "Dead"]
       /\ sched' = remove_dead_process_threads(sched)
  ELSE UNCHANGED <<status, sched>>

(* Syscalls::exit, for the process of the current thread.                  *)
ExitCall(stats) ==
  LET p == sched.m_process[sched.curr_thread]
  IN  /\ Free /\ p # KernelProc
      /\ threads' = [threads EXCEPT ![p] = <<>>]
      /\ Exit(p, stats)
      /\ UNCHANGED <<live, thread_size, gvars>>

(* x86_gp_fault_handler, up to the return of exit(-1).  Ticks can come     *)
(* before the handler goes on, and a switch made by then may keep it from  *)
(* going on for as long as it likes, while other threads fault as well.    *)
GpFault ==
  LET p == sched.m_process[sched.curr_thread]
  IN  /\ Free /\ p # KernelProc
      /\ handlers < MaxHandlers /\ handlers' = handlers + 1
      /\ threads' = [threads EXCEPT ![p] = <<>>]
      /\ Exit(p, -1)
      /\ UNCHANGED <<live, thread_size, at, next_thread, torn>>

PCall(A) == Free /\ A /\ UNCHANGED <<status, threads, thread_size, gvars>>

(* The rest of the handler: schedule(), for whichever thread is current by *)
(* then, one group of stores at a time.  First the head leaves the queue.  *)
take_head(s) ==
  LET n == Head(s.ready_threads)
  IN  [s EXCEPT !.ready_threads = Tail(@), !.state[n] = "Running"]

GpSchedule ==
  /\ Free /\ handlers > 0 /\ handlers' = handlers - 1
  /\ IF sched.task_switch_counter # 0
     THEN /\ sched' = [sched EXCEPT !.task_switch_postponed = TRUE]
          /\ UNCHANGED <<at, next_thread>>
     ELSE /\ at' = "picked"
          /\ IF sched.ready_threads = <<>>
             THEN next_thread' = Idle /\ sched' = sched
             ELSE /\ next_thread' = Head(sched.ready_threads)
                  /\ sched' = take_head(charge_quantum(sched))
  /\ UNCHANGED <<live, status, threads, thread_size, torn>>

(* A later step, inside switch_task(next_thread).                          *)
GpStep(from, to, s) ==
  /\ at = from /\ ~torn /\ at' = to
  /\ sched' = s
  /\ next_thread' = IF to = "none" THEN Idle ELSE next_thread
  /\ UNCHANGED <<live, status, threads, thread_size, handlers, torn>>

GpRequeue == GpStep("picked", "queued", requeue_running(sched, next_thread))

GpStacks ==
  /\ next_thread # Idle
  /\ GpStep("queued", "stacked",
            [sched EXCEPT !.rsp0 = next_thread, !.syscall_kernel_rsp = next_thread])

GpLoadCr3 ==
  GpStep("stacked", "mapped", [sched EXCEPT !.cr3 = load_cr3(sched, next_thread)])

GpSwitch ==
  GpStep(IF next_thread = Idle THEN "queued" ELSE "mapped", "none",
         [sched EXCEPT !.curr_thread = next_thread, !.elapsed = 0])

(* What a tick does that wakes nobody and ends no slice.                   *)
counted(s) ==
  [s EXCEPT !.elapsed = @ + 1,
            !.sleep_time = [t \in AllThreads |->
               IF t \in Linked(s.waiting_queue) /\ s.state[t] # "Blocked" /\ @[t] > 0
               THEN @[t] - 1 ELSE @[t]]]

GpTick ==
  /\ at # "none" /\ ~torn
  /\ pit_irq_handler
  /\ torn' \in BOOLEAN
  /\ torn' \/ sched' = counted(sched)
  /\ UNCHANGED <<live, status, threads, thread_size, handlers, at, next_thread>>

PNext ==
  \/ \E t \in Threads, p \in Procs : PSpawn(t, p)
  \/ PCall(Tick)
  \/ PCall(Block)
  \/ \E milli \in SleepTimes : PCall(Sleep(milli))
  \/ \E t \in Threads : PCall(Unblock(t))
  \/ \E stats \in Statuses : ExitCall(stats)
  \/ GpFault
  \/ GpSchedule \/ GpRequeue \/ GpStacks \/ GpLoadCr3 \/ GpSwitch
  \/ GpTick

PSpec == PInit /\ [][PNext]_pvars
-----------------------------------------------------------------------------
(* The queues stay sound although exit unlinks threads while it walks them *)
(* and switches in the middle of a system call, and although a #GP handler *)
(* switches without the lock, as long as no tick breaks into that: no      *)
(* thread is linked twice, and the one that runs, or that the handler is   *)
(* about to run, is in no queue.                                           *)
QueuesSurviveExit ==
  LET runs == IF at = "none" THEN sched.curr_thread ELSE next_thread
  IN  ~torn => /\ LinkedOnce
               /\ runs \notin Linked(sched.ready_threads) \cup Linked(sched.waiting_queue)

(* The threads of S that q and r hold are the same, in the same order.     *)
Before(q, a, b) == \E i, j \in DOMAIN q : i < j /\ q[i] = a /\ q[j] = b

SameOrder(q, r, S) ==
  /\ S \cap Linked(q) = S \cap Linked(r)
  /\ \A a, b \in S : Before(q, a, b) <=> Before(r, a, b)

(* An exit, by system call or by fault, leaves the threads of every other  *)
(* process where they were: they keep their order, and at most the next    *)
(* one to run, which was the head, leaves the queue.  The exit that ends a *)
(* process leaves none of its threads waiting, so no unblock brings one of *)
(* those back.                                                             *)
ExitSparesOthers ==
  [][(\E stats \in Statuses : ExitCall(stats)) \/ GpFault =>
       LET p      == sched.m_process[sched.curr_thread]
           others == {t \in Threads : sched.m_process[t] # p}
           next   == sched'.curr_thread
       IN  /\ SameOrder(sched.waiting_queue, sched'.waiting_queue, others)
           /\ status'[p] = "Dead" /\ status[p] # "Dead" =>
                Linked(sched'.waiting_queue) \subseteq others
           /\ SameOrder(sched.ready_threads, sched'.ready_threads, others \ {next})
           /\ next \in others => next = Head(sched.ready_threads)]_pvars
=============================================================================
