------------------------------ MODULE Dispatch ------------------------------
(***************************************************************************)
(* What the CPU really runs.  The scheduler only picks curr_thread; the    *)
(* registers move in pit_irq_handler, which copies the interrupt frame     *)
(* isr.s pushed into curr_thread->registers on entry and copies            *)
(* curr_thread->registers back into that frame at the end, for iretq.      *)
(*                                                                         *)
(* A context is a thread and how far it has come.  The boot code in kmain  *)
(* runs as the idle thread: its loop is what the first tick saves there.   *)
(* The interrupt is over before the next one comes: the PIT's period is a  *)
(* millisecond and IRQ0 stays blocked until eoi.                           *)
(***************************************************************************)
EXTENDS Scheduler

CONSTANT MaxSteps    \* bound on the steps of each thread

ASSUME MaxStepsAssumption == MaxSteps \in Nat

(* A thread that asks for nothing is due before its quantum ends (6 ms and *)
(* 100 ms).                                                                *)
ASSUME SliceAssumption == DEFAULT_SCHEDULE_TIME_MS <= DEFAULT_TIME_QUANTUM

VARIABLES
  cpu,        \* the context the CPU runs
  registers,  \* ThreadBlock::registers: the context saved for each thread
  steps       \* how far each thread has really come

dvars == <<vars, cpu, registers, steps>>

Context(t, n) == [thread |-> t, at |-> n]

DInit ==
  /\ Init
  /\ cpu = Context(Idle, 0)
  /\ registers = [t \in AllThreads |-> Context(t, 0)]
  /\ steps = [t \in AllThreads |-> 0]

(* The CPU executes instructions of the context it runs.                   *)
Execute ==
  /\ cpu.at < MaxSteps
  /\ cpu' = [cpu EXCEPT !.at = cpu.at + 1]
  /\ steps' = [steps EXCEPT ![cpu.thread] = cpu.at + 1]
  /\ UNCHANGED <<vars, registers>>

(* The thread constructor fills in the registers it starts with.           *)
DSpawn(t, p) ==
  /\ Spawn(t, p)
  /\ registers' = [registers EXCEPT ![t] = Context(t, 0)]
  /\ UNCHANGED <<cpu, steps>>

(* Mutant: the frame is saved after the scheduling decision. *)
saved_late == [registers EXCEPT ![sched'.curr_thread] = cpu]

(* Mutant: idle is not saved when another thread takes over. *)
saved_unless_idle_leaves ==
  IF sched.curr_thread = Idle /\ sched'.curr_thread # Idle THEN registers
  ELSE [registers EXCEPT ![sched.curr_thread] = cpu]

(* curr_thread->registers = *frame.                                        *)
saved == [registers EXCEPT ![sched.curr_thread] = cpu]

(* isr.s, isr_timer and pit_irq_handler, from the interrupt to iretq.      *)
DTick ==
  /\ Tick
  /\ registers' = saved
  /\ cpu' = registers'[sched'.curr_thread]
  /\ UNCHANGED steps

(* The other calls change curr_thread, the stacks and CR3 but no register: *)
(* the caller runs on.                                                     *)
DCall(A) == A /\ UNCHANGED <<cpu, registers, steps>>

DKernelNext ==
  \/ Execute
  \/ \E t \in Threads, p \in Procs : DSpawn(t, p)
  \/ \E t \in Threads, ms \in Budgets : DCall(UpdateScheduledTime(t, ms))
  \/ DTick

DKernelSpec == DInit /\ [][DKernelNext]_dvars
-----------------------------------------------------------------------------
(* The CPU runs the thread the scheduler calls current, from where that    *)
(* thread last was.                                                        *)
CpuRunsCurr ==
  cpu = Context(sched.curr_thread, steps[sched.curr_thread])

(* Every other thread has its own latest context saved: none resumes at an *)
(* older point, as another thread, or not at all.                          *)
ContextsKept ==
  \A t \in AllThreads \ {sched.curr_thread} : registers[t] = Context(t, steps[t])
=============================================================================
