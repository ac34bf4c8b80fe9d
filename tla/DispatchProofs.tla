--------------------------- MODULE DispatchProofs ---------------------------
(***************************************************************************)
(* Proofs about module Dispatch: what preemption alone keeps, for every    *)
(* number of threads and every slice.                                      *)
(*                                                                         *)
(* They are followed by the properties of steps: what the calls of the     *)
(* scheduler do to the order of ready_threads, a tick to the sleepers, and *)
(* exit to the threads of the other processes.                             *)
(***************************************************************************)
EXTENDS Dispatch, SchedulerProofs
-----------------------------------------------------------------------------
(* The parts of the inductive invariant, as predicates of a scheduler      *)
(* record.  Nobody parks, so a thread runs or is ready.                    *)

RunningAre(s, a, b) == \A t \in Threads : s.state[t] = "Running" <=> t = a \/ t = b

RunningIs(s, a) == RunningAre(s, a, a)

Kept(s, L) ==
  /\ s.waiting_queue = <<>>
  /\ RunningIs(s, s.curr_thread)
  /\ L \subseteq Linked(s.ready_threads) \cup {s.curr_thread}

Asked == Budgets \cup {DEFAULT_SCHEDULE_TIME_MS}

(* Every slice is one that was asked for, or what is left of it; idle has  *)
(* the default one.                                                        *)
SlicesOK(f) ==
  /\ f[Idle] = DEFAULT_SCHEDULE_TIME_MS
  /\ \A t \in AllThreads : \E b \in Asked : f[t] <= b

(* A quantum is owed by a thread that has more than that left.             *)
OwedOK(s) ==
  s.time_quantum_past =>
    /\ s.curr_thread # Idle
    /\ s.scheduled_time[s.curr_thread] > DEFAULT_TIME_QUANTUM

IdleOwesNothing(s) == s.time_quantum_past => s.curr_thread # Idle

(* Giving a thread other than idle a slice that was asked for, or a        *)
(* smaller one, keeps the slices in bounds.                                *)
LEMMA SetSlice ==
  ASSUME NEW f \in [AllThreads -> 0 .. Word - 1], SlicesOK(f), NEW t \in Threads,
         NEW n \in 0 .. Word - 1, \E b \in Asked : n <= b
  PROVE  SlicesOK([f EXCEPT ![t] = n])
  BY ThreadsAssumption DEF SlicesOK, AllThreads

(* The thread that was preempted is queued, next alone is Running, and     *)
(* nothing is owed.                                                        *)
Switched(r, s, next) ==
  /\ r.waiting_queue = s.waiting_queue
  /\ r.curr_thread = next
  /\ RunningIs(r, next)
  /\ Linked(r.ready_threads) = Linked(s.ready_threads) \cup ({s.curr_thread} \ {Idle})
  /\ SlicesOK(r.scheduled_time)
  /\ r.time_quantum_past = FALSE

(* This is what switch_task does.                                          *)
LEMMA SwitchKept ==
  ASSUME NEW s \in SchedState, NEW next \in AllThreads,
         next # s.curr_thread \/ next = Idle,
         RunningAre(s, s.curr_thread, next),
         SlicesOK(s.scheduled_time),
         IdleOwesNothing(s)
  PROVE  Switched(switch_task(s, next), s, next)
<1> DEFINE c == s.curr_thread
           q == requeue_running(s, next)
           r == switch_task(s, next)
<1>1. /\ c \in AllThreads /\ s.time_quantum_past \in BOOLEAN
      /\ s.scheduled_time \in [AllThreads -> 0 .. Word - 1]
      /\ s.state \in [AllThreads -> ThreadState]
      /\ s.ready_threads \in Seq(Threads)
  BY DEF SchedState
<1>2. /\ q \in SchedState
      /\ q.waiting_queue = s.waiting_queue
      /\ RunningIs(q, next)
      /\ Linked(q.ready_threads) = Linked(s.ready_threads) \cup ({c} \ {Idle})
      /\ SlicesOK(q.scheduled_time)
      /\ q.time_quantum_past = FALSE
  <2>1. CASE c = Idle
    <3>1. q = s
      BY <2>1 DEF requeue_running
    <3>2. RunningIs(s, next) /\ s.time_quantum_past = FALSE
      BY <1>1, <2>1, ThreadsAssumption DEF RunningIs, RunningAre, IdleOwesNothing
    <3> QED
      BY <2>1, <3>1, <3>2
  <2>2. CASE c # Idle
    <3> DEFINE a == add_ready_threads(s, c)
               f == [a.state EXCEPT ![next] = "Running"]
    <3>1. c \in Threads /\ c # next
      BY <1>1, <2>2 DEF AllThreads
    <3>2. s.state[c] = "Running"
      BY <3>1 DEF RunningIs, RunningAre
    <3>3. q = [a EXCEPT !.state = f]
      BY <2>2, <3>2 DEF requeue_running
    <3>4. /\ a \in SchedState
          /\ a.ready_threads = Append(s.ready_threads, c)
          /\ a.state = [s.state EXCEPT ![c] = "Ready"]
          /\ a.waiting_queue = s.waiting_queue
          /\ a.time_quantum_past = FALSE
          /\ \/ a.scheduled_time = s.scheduled_time
             \/ a.scheduled_time = [s.scheduled_time EXCEPT ![c] = DEFAULT_SCHEDULE_TIME_MS]
      BY <3>1, AddReadyFields, Zenon
    <3> HIDE DEF a
    <3>5. f \in [AllThreads -> ThreadState]
      BY <3>4, Zenon DEF SchedState, ThreadState
    <3>6. \A t \in Threads : f[t] = "Running" <=> t = next
      BY <1>1, <3>1, <3>4, Zenon DEF RunningIs, RunningAre, AllThreads
    <3> HIDE DEF f
    <3>7. [a EXCEPT !.state = f] \in SchedState
      BY <3>4, <3>5 DEF SchedState
    <3>8. /\ q.ready_threads = a.ready_threads /\ q.waiting_queue = a.waiting_queue
          /\ q.state = f /\ q.scheduled_time = a.scheduled_time
          /\ q.time_quantum_past = a.time_quantum_past
      BY <3>3, <3>4 DEF SchedState
    <3>9. Linked(q.ready_threads) = Linked(s.ready_threads) \cup {c}
      BY <1>1, <3>1, <3>4, <3>8, AppendFacts
    <3>10. SlicesOK(a.scheduled_time)
      <4>1. DEFAULT_SCHEDULE_TIME_MS \in 0 .. Word - 1
        BY TimesAssumption
      <4>2. \E b \in Asked : DEFAULT_SCHEDULE_TIME_MS <= b
        <5>1. DEFAULT_SCHEDULE_TIME_MS <= DEFAULT_SCHEDULE_TIME_MS
          BY <4>1
        <5> QED
          BY <5>1 DEF Asked
      <4>3. SlicesOK([s.scheduled_time EXCEPT ![c] = DEFAULT_SCHEDULE_TIME_MS])
        BY <1>1, <3>1, <4>1, <4>2, SetSlice
      <4> QED
        BY <3>4, <4>3
    <3> HIDE DEF q
    <3> QED
      BY <2>2, <3>3, <3>4, <3>6, <3>7, <3>8, <3>9, <3>10 DEF RunningIs, RunningAre
  <2> QED
    BY <2>1, <2>2, Zenon
<1>3. /\ r.waiting_queue = q.waiting_queue /\ r.curr_thread = next
      /\ r.state = q.state /\ r.ready_threads = q.ready_threads
      /\ r.scheduled_time = q.scheduled_time
      /\ r.time_quantum_past = q.time_quantum_past
  <2> HIDE DEF q
  <2>1. CASE next = Idle
    <3>1. r = [q EXCEPT !.curr_thread = Idle, !.elapsed = 0]
      BY <2>1 DEF switch_task, q
    <3> QED
      BY <1>2, <2>1, <3>1 DEF SchedState
  <2>2. CASE next # Idle
    <3>1. r = [q EXCEPT !.rsp0 = next, !.syscall_kernel_rsp = next,
                        !.cr3 = load_cr3(q, next), !.curr_thread = next,
                        !.elapsed = 0]
      BY <2>2 DEF switch_task, q
    <3> QED
      BY <1>2, <3>1 DEF SchedState
  <2> QED
    BY <2>1, <2>2
<1> HIDE DEF q, r
<1>4. RunningIs(r, next)
  BY <1>2, <1>3, Zenon DEF RunningIs, RunningAre
<1>5. Switched(r, s, next)
  BY <1>2, <1>3, <1>4 DEF Switched
<1> QED
  BY <1>5 DEF r

(* Charging the quantum that is owed leaves part of the slice.             *)
LEMMA ChargeKept ==
  ASSUME NEW s \in SchedState, SlicesOK(s.scheduled_time), OwedOK(s)
  PROVE  LET r == charge_quantum(s)
         IN  SlicesOK(r.scheduled_time) /\ r.time_quantum_past = s.time_quantum_past
<1> DEFINE c    == s.curr_thread
           x    == s.scheduled_time[c]
           left == (x - DEFAULT_TIME_QUANTUM) % Word
           r    == charge_quantum(s)
<1>1. CASE ~s.time_quantum_past
  BY <1>1 DEF charge_quantum
<1>2. CASE s.time_quantum_past
  <2>1. /\ c \in Threads /\ x \in 0 .. Word - 1 /\ x > DEFAULT_TIME_QUANTUM
        /\ s.scheduled_time \in [AllThreads -> 0 .. Word - 1]
    BY <1>2 DEF OwedOK, SchedState, AllThreads
  <2>2. left = x - DEFAULT_TIME_QUANTUM
    <3>1. x - DEFAULT_TIME_QUANTUM \in 0 .. Word - 1
      BY <2>1, TimesAssumption
    <3> QED
      BY <3>1, TimesAssumption
  <2>3. left # 0 /\ left \in 0 .. Word - 1 /\ left <= x
    BY <2>1, <2>2, TimesAssumption
  <2>4. \E b \in Asked : left <= b
    <3>1. PICK b \in Asked : x <= b
      BY <2>1 DEF SlicesOK, AllThreads
    <3>2. b \in Int
      BY <3>1, TimesAssumption DEF Asked
    <3>3. left <= b
      BY <2>1, <2>3, <3>1, <3>2
    <3> QED
      BY <3>1, <3>3
  <2>5. r = [s EXCEPT !.scheduled_time = [s.scheduled_time EXCEPT ![c] = left]]
    BY <1>2, <2>3 DEF charge_quantum
  <2> HIDE DEF left
  <2>6. SlicesOK([s.scheduled_time EXCEPT ![c] = left])
    BY <2>1, <2>3, <2>4, SetSlice
  <2>7. /\ r.scheduled_time = [s.scheduled_time EXCEPT ![c] = left]
        /\ r.time_quantum_past = s.time_quantum_past
    BY <2>5 DEF SchedState
  <2> QED
    BY <2>6, <2>7
<1> QED
  BY <1>1, <1>2

(* schedule() with the lock free loses nobody and settles what is owed.    *)
LEMMA RescheduleKept ==
  ASSUME NEW L, L \subseteq Threads, NEW s, Core(s, L, Threads), CurrOut(s),
         s.task_switch_counter = 0, Kept(s, L), SlicesOK(s.scheduled_time), OwedOK(s)
  PROVE  LET r == schedule(s)
         IN  Kept(r, L) /\ SlicesOK(r.scheduled_time) /\ r.time_quantum_past = FALSE
<1> DEFINE c == s.curr_thread
           r == schedule(s)
<1>1. s \in SchedState /\ c \in AllThreads /\ Idle \notin L
  BY ThreadsAssumption DEF Core, SchedState
<1>2. CASE s.ready_threads = <<>>
  <2>1. r = switch_task(s, Idle)
    BY <1>2 DEF schedule
  <2>2. RunningAre(s, c, Idle) /\ Idle \in AllThreads
    BY ThreadsAssumption DEF Kept, RunningIs, RunningAre, AllThreads
  <2>3. Switched(r, s, Idle)
    <3>1. IdleOwesNothing(s)
      BY DEF OwedOK, IdleOwesNothing
    <3> QED
      BY <1>1, <2>1, <2>2, <3>1, SwitchKept
  <2> HIDE DEF r
  <2>4. Kept(r, L)
    BY <1>1, <2>3 DEF Kept, Switched
  <2> QED
    BY <2>3, <2>4 DEF r, Switched
<1>3. CASE s.ready_threads # <<>>
  <2> DEFINE u    == charge_quantum(s)
             next == Head(u.ready_threads)
             f    == [u.state EXCEPT ![next] = "Running"]
             d    == [u EXCEPT !.ready_threads = Tail(u.ready_threads), !.state = f]
  <2>1. /\ Core(u, L, Threads)
        /\ u.ready_threads = s.ready_threads
        /\ u.waiting_queue = s.waiting_queue
        /\ u.curr_thread = s.curr_thread
        /\ u.state = s.state
    BY Charge
  <2>2. SlicesOK(u.scheduled_time) /\ u.time_quantum_past = s.time_quantum_past
    BY <1>1, ChargeKept
  <2>3. r = switch_task(d, next)
    BY <1>3 DEF schedule, dispatch_head
  <2> HIDE DEF u
  <2>4. /\ u \in SchedState /\ NoDup(u.ready_threads)
        /\ u.ready_threads \in Seq(Threads) /\ u.ready_threads # <<>>
    <3>1. u \in SchedState /\ NoDup(u.ready_threads)
      BY <2>1 DEF Core, QueuesOK
    <3>2. u.ready_threads \in Seq(Threads)
      BY <3>1 DEF SchedState
    <3> QED
      BY <1>3, <2>1, <3>1, <3>2
  <2>5. /\ next \in Threads /\ next \in Linked(u.ready_threads)
        /\ Tail(u.ready_threads) \in Seq(Threads)
        /\ Linked(Tail(u.ready_threads)) = Linked(u.ready_threads) \ {next}
    BY <2>4, TailFacts
  <2>6. next # c
    BY <2>1, <2>5 DEF CurrOut
  <2> HIDE DEF next
  <2>7. f \in [AllThreads -> ThreadState]
    BY <2>4, <2>5 DEF SchedState, AllThreads, ThreadState
  <2>8. \A t \in Threads : f[t] = "Running" <=> t = c \/ t = next
    <3>1. f[next] = "Running" /\ \A t \in Threads : t # next => f[t] = s.state[t]
      <4>1. u.state = s.state /\ u.state \in [AllThreads -> ThreadState]
        BY <2>1, <2>4 DEF SchedState
      <4>2. next \in AllThreads /\ \A t \in Threads : t \in AllThreads
        BY <2>5 DEF AllThreads
      <4> QED
        BY <4>1, <4>2
    <3> HIDE DEF f
    <3>2. \A t \in Threads : s.state[t] = "Running" <=> t = c
      <4>1. RunningIs(s, c)
        BY DEF Kept
      <4> QED
        BY <4>1, Zenon DEF RunningIs, RunningAre
    <3> QED
      BY <3>1, <3>2, Zenon
  <2> HIDE DEF f
  <2>9. d \in SchedState
    BY <2>4, <2>5, <2>7, QueueTyped, Zenon
  <2>10. /\ d.ready_threads = Tail(u.ready_threads) /\ d.state = f
         /\ d.waiting_queue = u.waiting_queue /\ d.curr_thread = u.curr_thread
         /\ d.scheduled_time = u.scheduled_time
         /\ d.time_quantum_past = u.time_quantum_past
    BY <2>4 DEF SchedState
  <2> HIDE DEF d
  <2>11. RunningAre(d, c, next)
    BY <2>8, <2>10, Zenon DEF RunningIs, RunningAre
  <2>12. next \in AllThreads /\ IdleOwesNothing(d)
    BY <2>1, <2>2, <2>5, <2>10 DEF OwedOK, IdleOwesNothing, AllThreads
  <2>13. Switched(r, d, next)
    <3>1. d.curr_thread = c /\ SlicesOK(d.scheduled_time)
      BY <2>1, <2>2, <2>10
    <3> QED
      BY <2>3, <2>6, <2>9, <2>11, <2>12, <3>1, SwitchKept
  <2> HIDE DEF r
  <2>14. r.waiting_queue = <<>>
    BY <2>1, <2>10, <2>13 DEF Kept, Switched
  <2>15. L \subseteq Linked(r.ready_threads) \cup {next}
    BY <1>1, <2>1, <2>5, <2>10, <2>13 DEF Kept, Switched
  <2>16. Kept(r, L)
    BY <2>13, <2>14, <2>15 DEF Kept, Switched
  <2> QED
    BY <2>13, <2>16 DEF r, Switched
<1> QED
  BY <1>2, <1>3, Zenon

SameSlices(r, s) ==
  r.scheduled_time = s.scheduled_time /\ r.time_quantum_past = s.time_quantum_past

(* What holds between two calls, besides Settled.                          *)
Fair(s, L) == Kept(s, L) /\ SlicesOK(s.scheduled_time) /\ s.time_quantum_past = FALSE

(* What holds under the lock: a quantum is owed only with a switch.        *)
Due(s, L) ==
  /\ Kept(s, L) /\ SlicesOK(s.scheduled_time) /\ OwedOK(s)
  /\ s.time_quantum_past => s.task_switch_postponed

(* These predicates depend on the queues, the states and the slices.       *)
LEMMA SameKept ==
  ASSUME NEW L, NEW s, NEW r, SameQueues(r, s), SameSlices(r, s)
  PROVE  /\ Kept(s, L) => Kept(r, L)
         /\ SlicesOK(s.scheduled_time) => SlicesOK(r.scheduled_time)
         /\ OwedOK(s) => OwedOK(r)
  BY DEF SameQueues, SameSlices, Kept, RunningIs, RunningAre, OwedOK

(* The last unlock_scheduler makes the switch that is owed, if any.        *)
LEMMA UnlockFair ==
  ASSUME NEW L, L \subseteq Threads, NEW s, Core(s, L, Threads), CurrOut(s), Depth(s, 1), Due(s, L)
  PROVE  Fair(unlock_scheduler(s), L)
<1> DEFINE r == unlock_scheduler(s)
           u == [s EXCEPT !.task_switch_counter = 0]
           v == [u EXCEPT !.task_switch_postponed = FALSE]
           w == switch_if_owed(u)
           n == (w.disable_counter - 1) % 256
<1>1. s \in SchedState /\ 0 \in 0 .. 255 /\ (1 - 1) % 256 = 0
  BY DEF Core
<1>2. u \in SchedState
  BY <1>1, Zenon DEF SchedState
<1>3. /\ SameQueues(u, s) /\ SameRest(u, s) /\ SameSlices(u, s)
      /\ u.task_switch_counter = 0
      /\ u.task_switch_postponed = s.task_switch_postponed
  BY <1>1 DEF SchedState, SameQueues, SameRest, SameSlices
<1>4. r = [w EXCEPT !.disable_counter = n]
  BY <1>1 DEF unlock_scheduler, Depth
<1> HIDE DEF u
<1>5. Core(u, L, Threads) /\ CurrOut(u)
  BY <1>2, <1>3, SameCore
<1>6. Kept(u, L) /\ SlicesOK(u.scheduled_time) /\ OwedOK(u)
  BY <1>3, SameKept DEF Due
<1>7. Fair(w, L) /\ w \in SchedState
  <2>1. CASE s.task_switch_postponed
    <3>1. w = schedule(v)
      BY <1>3, <2>1 DEF switch_if_owed
    <3>2. v \in SchedState
      BY <1>2, Zenon DEF SchedState
    <3>3. /\ SameQueues(v, u) /\ SameRest(v, u) /\ SameSlices(v, u)
          /\ v.task_switch_counter = 0
      BY <1>2, <1>3 DEF SchedState, SameQueues, SameRest, SameSlices
    <3> HIDE DEF v, w
    <3>4. Core(v, L, Threads) /\ CurrOut(v)
      BY <1>5, <3>2, <3>3, SameCore
    <3>5. Kept(v, L) /\ SlicesOK(v.scheduled_time) /\ OwedOK(v)
      BY <1>6, <3>3, SameKept
    <3>6. Kept(w, L) /\ SlicesOK(w.scheduled_time) /\ w.time_quantum_past = FALSE
      BY <3>1, <3>3, <3>4, <3>5, RescheduleKept, Zenon
    <3>7. Core(w, L, Threads)
      BY <3>1, <3>3, <3>4, Reschedule
    <3> QED
      BY <3>6, <3>7 DEF Fair, Core
  <2>2. CASE ~s.task_switch_postponed
    <3>1. w = u
      BY <1>3, <2>2 DEF switch_if_owed
    <3>2. u.time_quantum_past = FALSE
      BY <1>1, <1>3, <2>2 DEF Due, SameSlices, SchedState
    <3> QED
      BY <1>2, <1>6, <3>1, <3>2 DEF Fair
  <2> QED
    BY <2>1, <2>2
<1> HIDE DEF w, n
<1>8. SameQueues(r, w) /\ SameSlices(r, w)
  BY <1>4, <1>7 DEF SchedState, SameQueues, SameSlices
<1> HIDE DEF r
<1>9. Fair(r, L)
  BY <1>7, <1>8, SameKept DEF Fair, SameSlices
<1> QED
  BY <1>9 DEF r

(* With nobody in waiting_queue the timer loop does nothing.               *)
LEMMA NobodyToWake ==
  ASSUME NEW s, s.waiting_queue = <<>>
  PROVE  wake_sleepers(s) = s
<1> DEFINE q == s.waiting_queue
           f == CHOOSE f : Turns(f, s, q, Len(q))
<1>1. Len(q) = 0
  OBVIOUS
<1>2. Turns(f, s, q, Len(q))
  BY <1>1, TurnsExist, Zenon
<1>3. wake_sleepers(s) = f[Len(q)]
  BY DEF wake_sleepers, Turns
<1> HIDE DEF f
<1>4. f[0] = s
  BY <1>1, <1>2 DEF Turns
<1> QED
  BY <1>1, <1>3, <1>4

(* A quantum that check_slice finds used up is charged to a thread that    *)
(* has more than that left, which idle never has.                          *)
LEMMA CheckSliceDue ==
  ASSUME NEW L, NEW s \in SchedState, Depth(s, 1), Fair(s, L)
  PROVE  Due(check_slice(s), L)
<1> DEFINE k == check_slice(s)
           z == [s EXCEPT !.time_quantum_past = TRUE]
           b == s.scheduled_time[s.curr_thread]
<1>1. s.elapsed \in Nat /\ b \in Nat /\ s.task_switch_counter # 0
  BY DEF SchedState, Depth
<1>2. CASE s.elapsed >= b
  <2>1. k = [s EXCEPT !.task_switch_postponed = TRUE]
    BY <1>1, <1>2 DEF check_slice, schedule
  <2>2. SameQueues(k, s) /\ SameSlices(k, s)
    BY <2>1 DEF SchedState, SameQueues, SameSlices
  <2> HIDE DEF k
  <2>3. Kept(k, L) /\ SlicesOK(k.scheduled_time) /\ k.time_quantum_past = FALSE
    BY <2>2, SameKept DEF Fair, SameSlices
  <2> QED
    BY <2>3 DEF Due, OwedOK, k
<1>3. CASE ~(s.elapsed >= b) /\ s.elapsed = DEFAULT_TIME_QUANTUM
  <2>1. z.task_switch_counter # 0
    BY <1>1 DEF SchedState
  <2>2. k = [z EXCEPT !.task_switch_postponed = TRUE]
    BY <1>3, <2>1 DEF check_slice, schedule
  <2>3. /\ SameQueues(k, s) /\ k.scheduled_time = s.scheduled_time
        /\ k.task_switch_postponed = TRUE
    BY <2>2 DEF SchedState, SameQueues
  <2> HIDE DEF k
  <2>4. b > DEFAULT_TIME_QUANTUM
    BY <1>1, <1>3
  <2>5. s.curr_thread # Idle
    BY <1>1, <2>4, SliceAssumption, TimesAssumption DEF Fair, SlicesOK
  <2>6. OwedOK(k)
    BY <2>3, <2>4, <2>5 DEF OwedOK, SameQueues
  <2>7. Kept(k, L)
    BY <2>3 DEF Fair, Kept, SameQueues, RunningIs, RunningAre
  <2> QED
    BY <2>3, <2>6, <2>7 DEF Due, Fair, k
<1>4. CASE ~(s.elapsed >= b) /\ s.elapsed # DEFAULT_TIME_QUANTUM
  <2>1. k = s
    BY <1>4 DEF check_slice
  <2> QED
    BY <2>1 DEF Due, Fair, OwedOK
<1> QED
  BY <1>2, <1>3, <1>4

(* The timer interrupt.                                                    *)
LEMMA TickFair ==
  ASSUME NEW L, L \subseteq Threads, NEW s, Settled(s, L, Threads), Fair(s, L)
  PROVE  Fair(unlock_scheduler(check_slice(wake_sleepers(
                lock_scheduler([s EXCEPT !.elapsed = s.elapsed + 1])))), L)
<1> DEFINE e == [s EXCEPT !.elapsed = s.elapsed + 1]
           l == lock_scheduler(e)
           k == check_slice(l)
<1>1. s \in SchedState /\ Core(s, L, Threads) /\ s.elapsed \in Nat
  BY DEF Settled, Core, SchedState
<1>2. e \in SchedState
  <2>1. s.elapsed + 1 \in Nat
    BY <1>1
  <2> QED
    BY <1>1, <2>1, Zenon DEF SchedState
<1>3. /\ SameQueues(e, s) /\ SameRest(e, s) /\ SameSlices(e, s)
      /\ Depth(e, 0) /\ e.elapsed = s.elapsed + 1
  BY <1>1 DEF SchedState, SameQueues, SameRest, SameSlices, Depth, Settled
<1> HIDE DEF e
<1>4. Core(e, L, Threads) /\ CurrOut(e)
  BY <1>1, <1>2, <1>3, SameCore DEF Settled
<1>5. /\ Core(l, L, Threads) /\ CurrOut(l) /\ Depth(l, 1)
      /\ SameQueues(l, e) /\ l.elapsed = e.elapsed
  BY <1>3, <1>4, Lock
<1>6. SameSlices(l, e)
  BY <1>2 DEF lock_scheduler, SchedState, SameSlices
<1> HIDE DEF l
<1>7. SameQueues(l, s) /\ SameSlices(l, s)
  BY <1>3, <1>5, <1>6 DEF SameQueues, SameSlices
<1>8. Fair(l, L)
  BY <1>7, SameKept DEF Fair, SameSlices
<1>9. wake_sleepers(l) = l
  BY <1>8, NobodyToWake DEF Fair, Kept
<1>10. l \in SchedState /\ l.elapsed <= DEFAULT_TIME_QUANTUM
  BY <1>1, <1>3, <1>5, TimesAssumption DEF Settled, Core
<1>11. Due(k, L)
  BY <1>5, <1>8, <1>10, CheckSliceDue
<1>12. Core(k, L, Threads) /\ CurrOut(k) /\ Depth(k, 1)
  BY <1>5, <1>10, CheckSlice
<1> HIDE DEF k
<1>13. Fair(unlock_scheduler(k), L)
  BY <1>11, <1>12, UnlockFair
<1> QED
  BY <1>9, <1>13 DEF k, l, e

(* A new thread is ready, and the others are where they were.              *)
LEMMA SpawnFair ==
  ASSUME NEW L, L \subseteq Threads, NEW s, Settled(s, L, Threads), Fair(s, L),
         NEW t \in Threads, t \notin L, NEW p \in Procs
  PROVE  Fair(add_ready_threads([s EXCEPT !.m_process[t] = p], t), L \cup {t})
<1> DEFINE g == [s.m_process EXCEPT ![t] = p]
           n == [s EXCEPT !.m_process = g]
           r == add_ready_threads(n, t)
<1>1. s \in SchedState /\ t # s.curr_thread
  BY ThreadsAssumption DEF Settled, Core, KnownOK
<1>2. g \in [AllThreads -> Procs]
  BY <1>1, Zenon DEF SchedState
<1> HIDE DEF g
<1>3. n \in SchedState /\ SameQueues(n, s) /\ SameSlices(n, s)
  BY <1>1, <1>2, Zenon DEF SchedState, SameQueues, SameSlices
<1> HIDE DEF n
<1>4. Fair(n, L) /\ n.curr_thread # t
  BY <1>1, <1>3, SameKept DEF Fair, SameSlices, SameQueues
<1>5. /\ r.ready_threads = Append(n.ready_threads, t)
      /\ r.state = [n.state EXCEPT ![t] = "Ready"]
      /\ r.waiting_queue = n.waiting_queue
      /\ r.curr_thread = n.curr_thread
      /\ r.time_quantum_past = FALSE
      /\ \/ r.scheduled_time = n.scheduled_time
         \/ r.scheduled_time = [n.scheduled_time EXCEPT ![t] = DEFAULT_SCHEDULE_TIME_MS]
  BY <1>3, AddReadyFields, Zenon
<1> HIDE DEF r
<1>6. RunningIs(r, r.curr_thread)
  <2>1. /\ r.state[t] = "Ready"
        /\ \A x \in Threads : x # t => r.state[x] = n.state[x]
    BY <1>3, <1>5, SMTT(20) DEF SchedState, AllThreads
  <2>2. \A x \in Threads : n.state[x] = "Running" <=> x = n.curr_thread
    BY <1>4 DEF Fair, Kept, RunningIs, RunningAre
  <2>3. \A x \in Threads : r.state[x] = "Running" <=> x = r.curr_thread
    BY <1>4, <1>5, <2>1, <2>2, Zenon
  <2> QED
    BY <2>3 DEF RunningIs, RunningAre
<1>7. Linked(r.ready_threads) = Linked(n.ready_threads) \cup {t}
  <2>1. n.ready_threads \in Seq(Threads)
    BY <1>3 DEF SchedState
  <2> QED
    BY <1>5, <2>1, AppendFacts
<1>8. Kept(r, L \cup {t})
  BY <1>4, <1>5, <1>6, <1>7 DEF Fair, Kept
<1>9. SlicesOK(r.scheduled_time)
  <2>1. /\ n.scheduled_time \in [AllThreads -> 0 .. Word - 1]
        /\ SlicesOK(n.scheduled_time)
        /\ DEFAULT_SCHEDULE_TIME_MS \in 0 .. Word - 1
    BY <1>3, <1>4, TimesAssumption DEF SchedState, Fair
  <2>2. DEFAULT_SCHEDULE_TIME_MS <= DEFAULT_SCHEDULE_TIME_MS
    BY TimesAssumption
  <2>3. \E b \in Asked : DEFAULT_SCHEDULE_TIME_MS <= b
    BY <2>2 DEF Asked
  <2>4. SlicesOK([n.scheduled_time EXCEPT ![t] = DEFAULT_SCHEDULE_TIME_MS])
    BY <2>1, <2>3, SetSlice
  <2> QED
    BY <1>5, <2>1, <2>4
<1> QED
  BY <1>5, <1>8, <1>9 DEF Fair, r, n, g

(* A slice is set to what was asked for.                                   *)
LEMMA UpdateFair ==
  ASSUME NEW L, L \subseteq Threads, NEW s, Settled(s, L, Threads), Fair(s, L),
         NEW t \in Threads, NEW ms \in Budgets
  PROVE  Fair([s EXCEPT !.scheduled_time[t] = ms], L)
<1> DEFINE g == [s.scheduled_time EXCEPT ![t] = ms]
           r == [s EXCEPT !.scheduled_time = g]
<1>1. /\ s \in SchedState /\ s.scheduled_time \in [AllThreads -> 0 .. Word - 1]
      /\ ms \in 0 .. Word - 1
  BY TimesAssumption, SMTT(20) DEF Settled, Core, SchedState
<1>2. SlicesOK(g)
  <2>1. ms <= ms
    BY <1>1
  <2>2. \E b \in Asked : ms <= b
    BY <2>1 DEF Asked
  <2> QED
    BY <1>1, <2>2, SetSlice DEF Fair
<1> HIDE DEF g
<1>3. SameQueues(r, s) /\ r.scheduled_time = g /\ r.time_quantum_past = s.time_quantum_past
  BY <1>1 DEF SchedState, SameQueues
<1> HIDE DEF r
<1>4. Kept(r, L)
  BY <1>3 DEF Fair, Kept, SameQueues, RunningIs, RunningAre
<1>5. Fair(r, L)
  BY <1>2, <1>3, <1>4 DEF Fair
<1> QED
  BY <1>5 DEF r, g
-----------------------------------------------------------------------------
(* The inductive invariant of the kernel as it schedules today.            *)

KInv == IInv /\ Fair(sched, live)

(* It holds when kmain starts.                                             *)
LEMMA InitKInv == Init => KInv
<1> SUFFICES ASSUME Init PROVE KInv
  OBVIOUS
<1>1. /\ sched.ready_threads = <<>> /\ sched.waiting_queue = <<>>
      /\ sched.curr_thread = Idle /\ live = {}
      /\ \A t \in Threads : sched.state[t] = "Ready"
      /\ \A t \in AllThreads : sched.scheduled_time[t] = DEFAULT_SCHEDULE_TIME_MS
      /\ sched.time_quantum_past = FALSE
  BY ThreadsAssumption DEF Init, AllThreads
<1>2. Kept(sched, live)
  BY <1>1, ThreadsAssumption DEF Kept, RunningIs, RunningAre
<1>3. SlicesOK(sched.scheduled_time)
  <2>1. DEFAULT_SCHEDULE_TIME_MS <= DEFAULT_SCHEDULE_TIME_MS
    BY TimesAssumption
  <2> QED
    BY <1>1, <2>1 DEF SlicesOK, Asked, AllThreads
<1> QED
  BY <1>1, <1>2, <1>3, InitIInv DEF KInv, Fair

(* Every step of the scheduler keeps it.                                   *)
LEMMA NextKInv == KInv /\ [KernelNext]_vars => KInv'
<1> SUFFICES ASSUME KInv, [KernelNext]_vars PROVE KInv'
  OBVIOUS
<1>1. IInv'
  BY NextIInv DEF KInv, BlockingNext
<1>2. live \subseteq Threads /\ Settled(sched, live, Threads) /\ Fair(sched, live)
  BY DEF KInv, IInv
<1>3. CASE \E t \in Threads, p \in Procs : Spawn(t, p)
  <2>1. PICK t \in Threads, p \in Procs : Spawn(t, p)
    BY <1>3
  <2>2. /\ t \notin live /\ live' = live \cup {t}
        /\ sched' = add_ready_threads([sched EXCEPT !.m_process[t] = p], t)
    BY <2>1 DEF Spawn
  <2>3. Fair(sched', live')
    BY <1>2, <2>2, SpawnFair
  <2> QED
    BY <1>1, <2>3 DEF KInv
<1>4. CASE \E t \in Threads, ms \in Budgets : UpdateScheduledTime(t, ms)
  <2>1. Fair(sched', live')
    BY <1>2, <1>4, UpdateFair DEF UpdateScheduledTime
  <2> QED
    BY <1>1, <2>1 DEF KInv
<1>5. CASE Tick
  <2>1. /\ live' = live
        /\ sched' = unlock_scheduler(check_slice(wake_sleepers(
                      lock_scheduler([sched EXCEPT !.elapsed = sched.elapsed + 1]))))
    BY <1>5 DEF Tick, pit_irq_handler
  <2>2. Fair(sched', live')
    BY <1>2, <2>1, TickFair
  <2> QED
    BY <1>1, <2>2 DEF KInv
<1>6. CASE UNCHANGED vars
  BY <1>1, <1>2, <1>6 DEF vars, KInv
<1> QED
  BY <1>3, <1>4, <1>5, <1>6 DEF KernelNext

-----------------------------------------------------------------------------
(* The contexts.  A thread that was not handed to the scheduler has taken  *)
(* no step, so the context it is given is its latest one.                  *)

CInv ==
  /\ KInv
  /\ steps \in [AllThreads -> Nat]
  /\ DOMAIN registers = AllThreads
  /\ registers = [t \in AllThreads |-> registers[t]]
  /\ \A t \in Threads \ live : steps[t] = 0
  /\ CpuRunsCurr
  /\ ContextsKept

(* Every step of the kernel is one of the scheduler's, or leaves it alone. *)
LEMMA SchedulerSteps == DKernelNext => [KernelNext]_vars
  BY DEF DKernelNext, KernelNext, Execute, DSpawn, DCall, DTick

(* curr_thread is idle or was handed to the scheduler.                     *)
LEMMA CurrKnown ==
  ASSUME KInv
  PROVE  sched.curr_thread \in AllThreads /\ sched.curr_thread \in live \cup {Idle}
  BY DEF KInv, IInv, Settled, Core, SchedState, KnownOK

(* It holds when kmain starts.                                             *)
LEMMA InitCInv == DInit => CInv
<1> SUFFICES ASSUME DInit PROVE CInv
  OBVIOUS
<1>1. KInv /\ sched.curr_thread = Idle /\ Idle \in AllThreads
  BY InitKInv DEF DInit, Init, AllThreads
<1>2. /\ steps = [t \in AllThreads |-> 0] /\ cpu = Context(Idle, 0)
      /\ registers = [t \in AllThreads |-> Context(t, 0)]
  BY DEF DInit
<1>3. steps \in [AllThreads -> Nat] /\ \A t \in Threads \ live : steps[t] = 0
  BY <1>2 DEF AllThreads
<1>4. DOMAIN registers = AllThreads /\ registers = [t \in AllThreads |-> registers[t]]
  BY <1>2
<1>5. CpuRunsCurr /\ ContextsKept
  BY <1>1, <1>2 DEF CpuRunsCurr, ContextsKept
<1> QED
  BY <1>1, <1>3, <1>4, <1>5 DEF CInv

(* Every step keeps it.                                                    *)
LEMMA NextCInv == CInv /\ [DKernelNext]_dvars => CInv'
<1> SUFFICES ASSUME CInv, [DKernelNext]_dvars PROVE CInv'
  OBVIOUS
<1> DEFINE c == sched.curr_thread
<1>1. KInv'
  BY NextKInv, SchedulerSteps DEF CInv, dvars, vars
<1>2. c \in AllThreads /\ c \in live \cup {Idle} /\ live \subseteq Threads
  BY CurrKnown DEF CInv, KInv, IInv
<1>3. sched'.curr_thread \in AllThreads
  BY <1>1 DEF KInv, IInv, Settled, Core, SchedState
<1>4. /\ cpu = Context(c, steps[c]) /\ steps[c] \in Nat
      /\ \A t \in AllThreads : t # c => registers[t] = Context(t, steps[t])
  BY <1>2 DEF CInv, CpuRunsCurr, ContextsKept
<1>5. CASE Execute
  <2>1. /\ steps' = [steps EXCEPT ![c] = steps[c] + 1]
        /\ cpu' = Context(c, steps[c] + 1)
        /\ registers' = registers /\ live' = live /\ sched' = sched
    BY <1>4, <1>5 DEF Execute, Context, vars
  <2>2. steps' \in [AllThreads -> Nat]
    <3>1. steps[c] + 1 \in Nat /\ steps \in [AllThreads -> Nat]
      BY <1>4 DEF CInv
    <3> QED
      BY <2>1, <3>1, Zenon
  <2>3. CpuRunsCurr'
    BY <1>2, <2>1 DEF CInv, CpuRunsCurr
  <2>4. ContextsKept'
    BY <1>4, <2>1 DEF CInv, ContextsKept
  <2>5. \A t \in Threads \ live' : steps'[t] = 0
    BY <1>2, <2>1, ThreadsAssumption DEF CInv, AllThreads
  <2> QED
    BY <1>1, <2>1, <2>2, <2>3, <2>4, <2>5 DEF CInv
<1>6. CASE \E t \in Threads, p \in Procs : DSpawn(t, p)
  <2>1. PICK t \in Threads, p \in Procs : DSpawn(t, p)
    BY <1>6
  <2>2. /\ t \notin live /\ live' = live \cup {t}
        /\ registers' = [registers EXCEPT ![t] = Context(t, 0)]
        /\ cpu' = cpu /\ steps' = steps
        /\ sched' = add_ready_threads([sched EXCEPT !.m_process[t] = p], t)
    BY <2>1 DEF DSpawn, Spawn
  <2>3. sched'.curr_thread = c
    <3>1. [sched EXCEPT !.m_process[t] = p] \in SchedState
      BY Zenon DEF CInv, KInv, IInv, Settled, Core, SchedState
    <3>2. [sched EXCEPT !.m_process[t] = p].curr_thread = c
      BY DEF CInv, KInv, IInv, Settled, Core, SchedState
    <3> QED
      BY <2>2, <3>1, <3>2, AddReadyFields, Zenon
  <2>4. steps[t] = 0
    BY <2>2 DEF CInv
  <2>5. CpuRunsCurr'
    BY <2>2, <2>3 DEF CInv, CpuRunsCurr
  <2>6. ContextsKept'
    BY <1>4, <2>2, <2>3, <2>4 DEF CInv, ContextsKept, AllThreads
  <2>7. DOMAIN registers' = AllThreads /\ registers' = [x \in AllThreads |-> registers'[x]]
    BY <2>2 DEF CInv
  <2> QED
    BY <1>1, <2>2, <2>5, <2>6, <2>7 DEF CInv
<1>7. CASE \E t \in Threads, ms \in Budgets : DCall(UpdateScheduledTime(t, ms))
  <2>1. PICK t \in Threads, ms \in Budgets : DCall(UpdateScheduledTime(t, ms))
    BY <1>7
  <2>2. /\ live' = live /\ cpu' = cpu /\ registers' = registers /\ steps' = steps
        /\ sched' = [sched EXCEPT !.scheduled_time[t] = ms]
    BY <2>1 DEF DCall, UpdateScheduledTime
  <2>3. sched'.curr_thread = c
    BY <2>2 DEF CInv, KInv, IInv, Settled, Core, SchedState
  <2> QED
    BY <1>1, <2>2, <2>3 DEF CInv, CpuRunsCurr, ContextsKept
<1>8. CASE DTick
  <2> DEFINE n == sched'.curr_thread
  <2>1. /\ registers' = [registers EXCEPT ![c] = cpu]
        /\ cpu' = registers'[n] /\ steps' = steps /\ live' = live
    BY <1>8 DEF DTick, Tick, saved
  <2>2. \A t \in AllThreads : registers'[t] = Context(t, steps[t])
    BY <1>2, <1>4, <2>1 DEF CInv
  <2>3. CpuRunsCurr' /\ ContextsKept'
    BY <1>3, <2>1, <2>2 DEF CpuRunsCurr, ContextsKept
  <2>4. DOMAIN registers' = AllThreads /\ registers' = [x \in AllThreads |-> registers'[x]]
    BY <2>1 DEF CInv
  <2> QED
    BY <1>1, <2>1, <2>3, <2>4 DEF CInv
<1>9. CASE UNCHANGED dvars
  BY <1>1, <1>9 DEF dvars, vars, CInv, CpuRunsCurr, ContextsKept
<1> QED
  BY <1>5, <1>6, <1>7, <1>8, <1>9 DEF DKernelNext
-----------------------------------------------------------------------------
(* The inductive invariant holds in every behaviour of the kernel.         *)
THEOREM KernelInvariance == DKernelSpec => []CInv
<1> QED
  BY InitCInv, NextCInv, PTL DEF DKernelSpec

(* No thread the scheduler was given is lost: preemption alone puts every  *)
(* thread it takes the CPU from back in ready_threads.                     *)
THEOREM NobodyLost == DKernelSpec => []NoThreadLost
<1>1. CInv => NoThreadLost
  BY Zenon DEF CInv, KInv, Fair, Kept, NoThreadLost
<1> QED
  BY <1>1, KernelInvariance, PTL

(* The thread that owns the CPU is the one marked Running, and only it.    *)
THEOREM OneRunning == DKernelSpec => []RunningIffCurr
<1>1. CInv => RunningIffCurr
  BY Zenon DEF CInv, KInv, Fair, Kept, RunningIs, RunningAre, RunningIffCurr
<1> QED
  BY <1>1, KernelInvariance, PTL

(* time_quantum_past, set by pit_irq_handler, is consumed in the same tick. *)
THEOREM QuantumPaid == DKernelSpec => []NoQuantumOwed
<1>1. CInv => NoQuantumOwed
  BY DEF CInv, KInv, Fair, NoQuantumOwed
<1> QED
  BY <1>1, KernelInvariance, PTL

(* The unsigned subtraction in schedule never wraps a slice.               *)
THEOREM NoWrap == DKernelSpec => []SlicesNeverWrap
<1>1. CInv => SlicesNeverWrap
  BY Zenon DEF CInv, KInv, Fair, SlicesOK, Asked, SlicesNeverWrap
<1> QED
  BY <1>1, KernelInvariance, PTL

(* After every interrupt the CPU runs curr_thread from where it last was.  *)
THEOREM RightContext == DKernelSpec => []CpuRunsCurr
<1>1. CInv => CpuRunsCurr
  BY DEF CInv
<1> QED
  BY <1>1, KernelInvariance, PTL

(* Every thread that does not run has its latest context saved.            *)
THEOREM LatestContexts == DKernelSpec => []ContextsKept
<1>1. CInv => ContextsKept
  BY DEF CInv
<1> QED
  BY <1>1, KernelInvariance, PTL
-----------------------------------------------------------------------------
(* The order of ready_threads, and the sleepers.  These hold with every    *)
(* primitive of the scheduler, the ones that park included.                *)

(* q keeps p in front, and q keeps what is left of p in front when at most *)
(* the head of p has gone.                                                 *)
InFront(p, q) == Len(p) <= Len(q) /\ \A i \in 1 .. Len(p) : q[i] = p[i]

Shifted(p, q) ==
  \E k \in 0 .. 1 :
    /\ k <= Len(p)
    /\ Len(p) - k <= Len(q)
    /\ \A i \in 1 .. Len(p) - k : q[i] = p[i + k]

LEMMA FrontSelf ==
  ASSUME NEW p \in Seq(Threads)
  PROVE  InFront(p, p)
  BY DEF InFront

LEMMA FrontAppend ==
  ASSUME NEW p \in Seq(Threads), NEW t \in Threads
  PROVE  InFront(p, Append(p, t)) /\ Append(p, t) \in Seq(Threads)
  BY DEF InFront

LEMMA FrontFront ==
  ASSUME NEW p \in Seq(Threads), NEW q \in Seq(Threads), NEW r \in Seq(Threads),
         InFront(p, q), InFront(q, r)
  PROVE  InFront(p, r)
<1>1. Len(p) \in Nat /\ Len(q) \in Nat /\ Len(r) \in Nat
  OBVIOUS
<1> QED
  BY <1>1 DEF InFront

LEMMA FrontShifted ==
  ASSUME NEW p \in Seq(Threads), NEW q \in Seq(Threads), InFront(p, q)
  PROVE  Shifted(p, q)
<1>1. /\ Len(p) \in Nat /\ 0 \in 0 .. 1 /\ 0 <= Len(p) /\ Len(p) - 0 <= Len(q)
      /\ \A i \in 1 .. Len(p) - 0 : q[i] = p[i + 0]
  BY DEF InFront
<1> QED
  BY <1>1 DEF Shifted

(* The head goes.                                                          *)
LEMMA TailShifted ==
  ASSUME NEW p \in Seq(Threads), p # <<>>, NEW q \in Seq(Threads), InFront(Tail(p), q)
  PROVE  Shifted(p, q)
<1>1. /\ Len(p) \in Nat \ {0} /\ Len(Tail(p)) = Len(p) - 1
      /\ \A i \in 1 .. Len(p) - 1 : Tail(p)[i] = p[i + 1]
  OBVIOUS
<1>2. /\ 1 \in 0 .. 1 /\ 1 <= Len(p) /\ Len(p) - 1 <= Len(q)
      /\ \A i \in 1 .. Len(p) - 1 : q[i] = p[i + 1]
  BY <1>1 DEF InFront
<1> QED
  BY <1>2 DEF Shifted

(* Threads that arrive before the head goes change nothing for the others. *)
LEMMA FrontThenShifted ==
  ASSUME NEW p \in Seq(Threads), NEW q \in Seq(Threads), NEW r \in Seq(Threads),
         InFront(p, q), Shifted(q, r)
  PROVE  Shifted(p, r)
<1>1. Len(p) \in Nat /\ Len(q) \in Nat /\ Len(r) \in Nat
  OBVIOUS
<1>2. PICK k \in 0 .. 1 : /\ k <= Len(q) /\ Len(q) - k <= Len(r)
                          /\ \A i \in 1 .. Len(q) - k : r[i] = q[i + k]
  BY DEF Shifted
<1>3. CASE k <= Len(p)
  <2>1. Len(p) - k <= Len(r)
    BY <1>1, <1>2 DEF InFront
  <2>2. ASSUME NEW i \in 1 .. Len(p) - k
        PROVE  r[i] = p[i + k]
    <3>1. i \in 1 .. Len(q) - k /\ i + k \in 1 .. Len(p)
      BY <1>1, <1>2 DEF InFront
    <3> QED
      BY <1>2, <3>1 DEF InFront
  <2> QED
    BY <1>3, <2>1, <2>2 DEF Shifted
<1>4. CASE ~(k <= Len(p))
  <2>1. 0 \in 0 .. 1 /\ Len(p) = 0
    BY <1>1, <1>2, <1>4
  <2>2. 0 <= Len(p) /\ Len(p) - 0 <= Len(r) /\ \A i \in 1 .. Len(p) - 0 : r[i] = p[i + 0]
    BY <1>1, <2>1
  <2> QED
    BY <2>1, <2>2 DEF Shifted
<1> QED
  BY <1>3, <1>4

(* The sleepers are left alone.                                            *)
SameSleep(r, s) == r.waiting_queue = s.waiting_queue /\ r.sleep_time = s.sleep_time

(* switch_task queues at most the thread it takes the CPU from.            *)
SwitchAdds(r, s) ==
  /\ r \in SchedState
  /\ SameSleep(r, s)
  /\ InFront(s.ready_threads, r.ready_threads)
  /\ \/ r.ready_threads = s.ready_threads
     \/ /\ s.curr_thread \in Threads
        /\ r.ready_threads = Append(s.ready_threads, s.curr_thread)
  /\ s.curr_thread = Idle => r.state = s.state

LEMMA SwitchFrame ==
  ASSUME NEW s \in SchedState, NEW next \in AllThreads
  PROVE  SwitchAdds(switch_task(s, next), s) /\ switch_task(s, next).curr_thread = next
<1> DEFINE c == s.curr_thread
           q == requeue_running(s, next)
           r == switch_task(s, next)
           n == load_cr3(q, next)
<1>1. c \in AllThreads /\ s.ready_threads \in Seq(Threads)
  BY DEF SchedState
<1>2. SwitchAdds(q, s)
  <2>1. CASE s.state[c] = "Running" /\ c # Idle
    <3> DEFINE a == add_ready_threads(s, c)
               f == [a.state EXCEPT ![next] = "Running"]
    <3>1. c \in Threads
      BY <1>1, <2>1 DEF AllThreads
    <3>2. q = [a EXCEPT !.state = f]
      BY <2>1 DEF requeue_running
    <3>3. /\ a \in SchedState
          /\ a.ready_threads = Append(s.ready_threads, c)
          /\ a.waiting_queue = s.waiting_queue /\ a.sleep_time = s.sleep_time
      BY <3>1, AddReadyFields, Zenon
    <3> HIDE DEF a
    <3>4. f \in [AllThreads -> ThreadState]
      BY <3>3, Zenon DEF SchedState, ThreadState
    <3> HIDE DEF f
    <3>5. [a EXCEPT !.state = f] \in SchedState
      BY <3>3, <3>4, Zenon DEF SchedState
    <3>6. /\ q.ready_threads = a.ready_threads /\ q.waiting_queue = a.waiting_queue
          /\ q.sleep_time = a.sleep_time
      BY <3>2, <3>3 DEF SchedState
    <3> HIDE DEF q
    <3>7. InFront(s.ready_threads, q.ready_threads)
      BY <1>1, <3>1, <3>3, <3>6, FrontAppend, Zenon
    <3> QED
      BY <2>1, <3>1, <3>2, <3>3, <3>5, <3>6, <3>7, Zenon DEF SwitchAdds, SameSleep
  <2>2. CASE ~(s.state[c] = "Running" /\ c # Idle)
    <3>1. q = s
      BY <2>2 DEF requeue_running
    <3> HIDE DEF q
    <3> QED
      BY <1>1, <3>1, FrontSelf, Zenon DEF SwitchAdds, SameSleep
  <2> QED
    BY <2>1, <2>2
<1>3. q \in SchedState
  BY <1>2 DEF SwitchAdds
<1>4. n \in Procs
  <2>1. /\ q.m_process \in [AllThreads -> Procs] /\ q.cr3 \in Procs
    BY <1>3, Zenon DEF SchedState
  <2> HIDE DEF q
  <2> QED
    BY <2>1, Zenon DEF load_cr3
<1> HIDE DEF q, n
<1>5. /\ r \in SchedState /\ r.waiting_queue = q.waiting_queue
      /\ r.sleep_time = q.sleep_time /\ r.state = q.state
      /\ r.ready_threads = q.ready_threads /\ r.curr_thread = next
  <2>1. CASE next = Idle
    <3>1. r = [q EXCEPT !.curr_thread = Idle, !.elapsed = 0]
      BY <2>1 DEF switch_task, q
    <3>2. Idle \in AllThreads /\ 0 \in Nat
      BY DEF AllThreads
    <3>3. [q EXCEPT !.curr_thread = Idle, !.elapsed = 0] \in SchedState
      BY <1>3, <3>2, Zenon DEF SchedState
    <3>4. /\ r.waiting_queue = q.waiting_queue
          /\ r.sleep_time = q.sleep_time /\ r.state = q.state
          /\ r.ready_threads = q.ready_threads /\ r.curr_thread = Idle
      BY <1>3, <3>1 DEF SchedState
    <3> QED
      BY <2>1, <3>1, <3>3, <3>4
  <2>2. CASE next # Idle
    <3>1. r = [q EXCEPT !.rsp0 = next, !.syscall_kernel_rsp = next,
                        !.cr3 = n, !.curr_thread = next, !.elapsed = 0]
      BY <2>2 DEF switch_task, q, n
    <3>2. [q EXCEPT !.rsp0 = next, !.syscall_kernel_rsp = next,
                    !.cr3 = n, !.curr_thread = next, !.elapsed = 0] \in SchedState
      BY <1>3, <1>4, SwitchTyped, Zenon
    <3>3. /\ r.waiting_queue = q.waiting_queue
          /\ r.sleep_time = q.sleep_time /\ r.state = q.state
          /\ r.ready_threads = q.ready_threads /\ r.curr_thread = next
      BY <1>3, <3>1 DEF SchedState
    <3> QED
      BY <3>1, <3>2, <3>3
  <2> QED
    BY <2>1, <2>2
<1> HIDE DEF r
<1>6. SwitchAdds(r, s)
  BY <1>2, <1>5 DEF SwitchAdds, SameSleep
<1> QED
  BY <1>5, <1>6 DEF r

(* schedule takes at most the head out of ready_threads.                   *)
Reordered(r, s) ==
  /\ r \in SchedState
  /\ SameSleep(r, s)
  /\ Shifted(s.ready_threads, r.ready_threads)

LEMMA ScheduleFrame ==
  ASSUME NEW s \in SchedState
  PROVE  Reordered(schedule(s), s)
<1> DEFINE r == schedule(s)
<1>1. s.ready_threads \in Seq(Threads) /\ s.curr_thread \in AllThreads
  BY DEF SchedState
<1>2. CASE s.task_switch_counter # 0
  <2>1. r = [s EXCEPT !.task_switch_postponed = TRUE]
    BY <1>2 DEF schedule
  <2>2. [s EXCEPT !.task_switch_postponed = TRUE] \in SchedState
    BY Zenon DEF SchedState
  <2>3. SameSleep(r, s) /\ r.ready_threads = s.ready_threads
    BY <2>1 DEF SchedState, SameSleep
  <2> HIDE DEF r
  <2>4. Shifted(s.ready_threads, r.ready_threads)
    BY <1>1, <2>3, FrontSelf, FrontShifted, Zenon
  <2> QED
    BY <2>1, <2>2, <2>3, <2>4 DEF Reordered, r
<1>3. CASE s.task_switch_counter = 0 /\ s.ready_threads = <<>>
  <2>1. r = switch_task(s, Idle)
    BY <1>3 DEF schedule
  <2>2. SwitchAdds(r, s)
    BY <2>1, SwitchFrame DEF AllThreads
  <2> HIDE DEF r
  <2>3. r.ready_threads \in Seq(Threads)
    BY <2>2 DEF SwitchAdds, SchedState
  <2>4. Shifted(s.ready_threads, r.ready_threads)
    BY <1>1, <2>2, <2>3, FrontShifted DEF SwitchAdds
  <2> QED
    BY <2>2, <2>4 DEF SwitchAdds, Reordered, r
<1>4. CASE s.task_switch_counter = 0 /\ s.ready_threads # <<>>
  <2> DEFINE u    == charge_quantum(s)
             next == Head(u.ready_threads)
             f    == [u.state EXCEPT ![next] = "Running"]
             d    == [u EXCEPT !.ready_threads = Tail(u.ready_threads), !.state = f]
  <2>1. Charged(u, s)
    BY ChargeFields
  <2>2. r = switch_task(d, next)
    BY <1>4 DEF schedule, dispatch_head
  <2> HIDE DEF u
  <2>3. /\ u \in SchedState /\ u.ready_threads = s.ready_threads
        /\ u.waiting_queue = s.waiting_queue /\ u.sleep_time = s.sleep_time
    BY <2>1 DEF Charged
  <2>4. next \in Threads /\ Tail(u.ready_threads) \in Seq(Threads)
    BY <1>1, <1>4, <2>3
  <2> HIDE DEF next
  <2>5. f \in [AllThreads -> ThreadState]
    BY <2>3, Zenon DEF SchedState, ThreadState
  <2> HIDE DEF f
  <2>6. d \in SchedState
    BY <2>3, <2>4, <2>5, QueueTyped, Zenon
  <2>7. /\ d.ready_threads = Tail(u.ready_threads)
        /\ d.waiting_queue = u.waiting_queue /\ d.sleep_time = u.sleep_time
    BY <2>3 DEF SchedState
  <2> HIDE DEF d
  <2>8. SwitchAdds(r, d)
    BY <2>2, <2>4, <2>6, SwitchFrame DEF AllThreads
  <2> HIDE DEF r
  <2>9. r.ready_threads \in Seq(Threads) /\ InFront(Tail(s.ready_threads), r.ready_threads)
    BY <2>3, <2>7, <2>8 DEF SwitchAdds, SchedState
  <2>10. Shifted(s.ready_threads, r.ready_threads)
    BY <1>1, <1>4, <2>9, TailShifted
  <2> QED
    BY <2>3, <2>7, <2>8, <2>10 DEF SwitchAdds, SameSleep, Reordered, r
<1> QED
  BY <1>2, <1>3, <1>4, Zenon

(* So does the switch a last unlock makes.                                 *)
LEMMA UnlockFrame ==
  ASSUME NEW s \in SchedState
  PROVE  Reordered(unlock_scheduler(s), s)
<1> DEFINE k == (s.task_switch_counter - 1) % 256
           u == [s EXCEPT !.task_switch_counter = k]
           v == [u EXCEPT !.task_switch_postponed = FALSE]
           w == switch_if_owed(u)
           n == (w.disable_counter - 1) % 256
           r == unlock_scheduler(s)
<1>1. s.ready_threads \in Seq(Threads)
  BY DEF SchedState
<1>2. k \in 0 .. 255
  <2>1. s.task_switch_counter \in 0 .. 255
    BY Zenon DEF SchedState
  <2> QED
    BY <2>1
<1>3. r = [w EXCEPT !.disable_counter = n]
  BY DEF unlock_scheduler
<1> HIDE DEF k
<1>4. u \in SchedState
  BY <1>2, Zenon DEF SchedState
<1>5. SameSleep(u, s) /\ u.ready_threads = s.ready_threads
  BY DEF SchedState, SameSleep
<1> HIDE DEF u
<1>6. Reordered(w, s)
  <2>1. CASE u.task_switch_counter = 0 /\ u.task_switch_postponed
    <3>1. w = schedule(v)
      BY <2>1 DEF switch_if_owed
    <3>2. v \in SchedState
      BY <1>4, Zenon DEF SchedState
    <3>3. SameSleep(v, u) /\ v.ready_threads = u.ready_threads
      BY <1>4 DEF SchedState, SameSleep
    <3> HIDE DEF v
    <3>4. Reordered(w, v)
      BY <3>1, <3>2, ScheduleFrame
    <3> HIDE DEF w
    <3> QED
      BY <1>5, <3>3, <3>4 DEF Reordered, SameSleep
  <2>2. CASE ~(u.task_switch_counter = 0 /\ u.task_switch_postponed)
    <3>1. w = u
      BY <2>2 DEF switch_if_owed
    <3> HIDE DEF w
    <3>2. Shifted(s.ready_threads, u.ready_threads)
      BY <1>1, <1>5, FrontSelf, FrontShifted, Zenon
    <3> QED
      BY <1>4, <1>5, <3>1, <3>2 DEF Reordered
  <2> QED
    BY <2>1, <2>2
<1>7. w \in SchedState /\ n \in 0 .. 255
  <2>1. w \in SchedState
    BY <1>6 DEF Reordered
  <2> HIDE DEF w
  <2>2. w.disable_counter \in 0 .. 255
    BY <2>1, Zenon DEF SchedState
  <2> QED
    BY <2>1, <2>2
<1> HIDE DEF w, n
<1>8. r \in SchedState
  <2>1. [w EXCEPT !.disable_counter = n] \in SchedState
    BY <1>7, Zenon DEF SchedState
  <2> QED
    BY <1>3, <2>1
<1>9. SameSleep(r, w) /\ r.ready_threads = w.ready_threads
  BY <1>3, <1>7 DEF SchedState, SameSleep
<1> HIDE DEF r
<1>10. Reordered(r, s)
  BY <1>6, <1>8, <1>9 DEF Reordered, SameSleep
<1> QED
  BY <1>10 DEF r

(* What a caller that gives up the CPU sees.                               *)
LEMMA GiveUpFrame ==
  ASSUME NEW s \in SchedState, s.task_switch_counter # 0
  PROVE  Reordered(unlock_scheduler(schedule(s)), s)
<1> DEFINE p == schedule(s)
           r == unlock_scheduler(p)
<1>1. p = [s EXCEPT !.task_switch_postponed = TRUE]
  BY DEF schedule
<1>2. [s EXCEPT !.task_switch_postponed = TRUE] \in SchedState
  BY Zenon DEF SchedState
<1>3. SameSleep(p, s) /\ p.ready_threads = s.ready_threads
  BY <1>1 DEF SchedState, SameSleep
<1>4. p \in SchedState
  BY <1>1, <1>2
<1> HIDE DEF p
<1>5. Reordered(r, p)
  BY <1>4, UnlockFrame
<1> HIDE DEF r
<1>6. Reordered(r, s)
  BY <1>3, <1>5 DEF Reordered, SameSleep
<1> QED
  BY <1>6 DEF r, p

(* check_slice, under the lock, only asks for a switch.                    *)
LEMMA CheckSliceFrame ==
  ASSUME NEW s \in SchedState, s.task_switch_counter # 0
  PROVE  LET r == check_slice(s)
         IN  r \in SchedState /\ SameSleep(r, s) /\ r.ready_threads = s.ready_threads
<1> DEFINE r == check_slice(s)
           z == [s EXCEPT !.time_quantum_past = TRUE]
<1>1. CASE s.elapsed >= s.scheduled_time[s.curr_thread]
  <2>1. r = [s EXCEPT !.task_switch_postponed = TRUE]
    BY <1>1 DEF check_slice, schedule
  <2>2. [s EXCEPT !.task_switch_postponed = TRUE] \in SchedState
    BY Zenon DEF SchedState
  <2> QED
    BY <2>1, <2>2 DEF SchedState, SameSleep
<1>2. CASE /\ ~(s.elapsed >= s.scheduled_time[s.curr_thread])
           /\ s.elapsed = DEFAULT_TIME_QUANTUM
  <2>1. z \in SchedState
    BY Zenon DEF SchedState
  <2>2. z.task_switch_counter # 0 /\ SameSleep(z, s) /\ z.ready_threads = s.ready_threads
    BY DEF SchedState, SameSleep
  <2>3. r = schedule(z)
    BY <1>2 DEF check_slice
  <2> HIDE DEF z
  <2>4. r = [z EXCEPT !.task_switch_postponed = TRUE]
    BY <2>2, <2>3 DEF schedule
  <2>5. [z EXCEPT !.task_switch_postponed = TRUE] \in SchedState
    BY <2>1, Zenon DEF SchedState
  <2>6. SameSleep(r, z) /\ r.ready_threads = z.ready_threads
    BY <2>1, <2>4 DEF SchedState, SameSleep
  <2> QED
    BY <2>2, <2>4, <2>5, <2>6 DEF SameSleep
<1>3. CASE /\ ~(s.elapsed >= s.scheduled_time[s.curr_thread])
           /\ s.elapsed # DEFAULT_TIME_QUANTUM
  <2>1. r = s
    BY <1>3 DEF check_slice
  <2> QED
    BY <2>1 DEF SameSleep
<1> QED
  BY <1>1, <1>2, <1>3

(* unblock, between its lock and its unlock, touches the thread it wakes   *)
(* and nobody else, and queues it behind whoever is ready.                 *)
WakesOnly(r, s, task) ==
  /\ Linked(r.waiting_queue) = Linked(s.waiting_queue) \ {task}
  /\ \A t \in AllThreads : t # task => /\ r.state[t] = s.state[t]
                                       /\ r.sleep_time[t] = s.sleep_time[t]
  /\ InFront(s.ready_threads, r.ready_threads)

LEMMA UnblockBodyFrame ==
  ASSUME NEW s \in SchedState, NEW task \in Threads, NoDup(s.waiting_queue)
  PROVE  unblock_body(s, task) \in SchedState /\ WakesOnly(unblock_body(s, task), s, task)
<1> DEFINE x == Remove(s.waiting_queue, task)
           g == [s.sleep_time EXCEPT ![task] = 0]
           f == [s.state EXCEPT ![task] = "Ready"]
           p == unpark(s, task)
           r == unblock_body(s, task)
<1>1. /\ s.waiting_queue \in Seq(Threads) /\ s.ready_threads \in Seq(Threads)
      /\ s.sleep_time \in [AllThreads -> 0 .. Word - 1]
      /\ s.state \in [AllThreads -> ThreadState]
      /\ task \in AllThreads
  BY Zenon DEF SchedState, AllThreads
<1>2. x \in Seq(Threads) /\ Linked(x) = Linked(s.waiting_queue) \ {task}
  BY <1>1, RemoveFacts
<1>3. /\ f \in [AllThreads -> ThreadState] /\ g \in [AllThreads -> 0 .. Word - 1]
      /\ \A t \in AllThreads : t # task => f[t] = s.state[t] /\ g[t] = s.sleep_time[t]
  <2>1. "Ready" \in ThreadState /\ 0 \in 0 .. Word - 1
    BY TimesAssumption DEF ThreadState
  <2> QED
    BY <1>1, <2>1, Zenon
<1>4. p = [s EXCEPT !.waiting_queue = x, !.sleep_time = g, !.state = f]
  BY DEF unpark
<1> HIDE DEF x, f, g
<1>5. p \in SchedState
  <2>1. [s EXCEPT !.waiting_queue = x, !.sleep_time = g, !.state = f] \in SchedState
    BY <1>2, <1>3, UnparkTyped
  <2> QED
    BY <1>4, <2>1
<1>6. /\ p.waiting_queue = x /\ p.sleep_time = g /\ p.state = f
      /\ p.ready_threads = s.ready_threads
  BY <1>4 DEF SchedState
<1>7. r = IF p.ready_threads = <<>> /\ p.curr_thread = Idle
          THEN switch_task(p, task)
          ELSE [p EXCEPT !.ready_threads = Append(p.ready_threads, task)]
  BY DEF unblock_body
<1> HIDE DEF p
<1>8. /\ r \in SchedState /\ r.waiting_queue = x /\ r.sleep_time = g /\ r.state = f
      /\ InFront(s.ready_threads, r.ready_threads)
  <2>1. CASE p.ready_threads = <<>> /\ p.curr_thread = Idle
    <3>1. SwitchAdds(r, p)
      BY <1>1, <1>5, <1>7, <2>1, SwitchFrame
    <3> HIDE DEF r
    <3> QED
      BY <1>6, <2>1, <3>1 DEF SwitchAdds, SameSleep
  <2>2. CASE ~(p.ready_threads = <<>> /\ p.curr_thread = Idle)
    <3> DEFINE y == Append(p.ready_threads, task)
    <3>1. r = [p EXCEPT !.ready_threads = y]
      BY <1>7, <2>2, Zenon
    <3>2. InFront(s.ready_threads, y) /\ y \in Seq(Threads)
      BY <1>1, <1>6, FrontAppend, Zenon
    <3> HIDE DEF y, r
    <3>3. [p EXCEPT !.ready_threads = y] \in SchedState
      BY <1>5, <3>2, Zenon DEF SchedState
    <3>4. /\ r.ready_threads = y /\ r.waiting_queue = p.waiting_queue
          /\ r.sleep_time = p.sleep_time /\ r.state = p.state
      BY <1>5, <3>1 DEF SchedState
    <3> QED
      BY <1>6, <3>1, <3>2, <3>3, <3>4
  <2> QED
    BY <2>1, <2>2
<1> HIDE DEF r
<1>9. WakesOnly(r, s, task)
  BY <1>2, <1>3, <1>8 DEF WakesOnly
<1> QED
  BY <1>8, <1>9 DEF r

(* unblock called from pit_irq_handler.                                    *)
LEMMA UnblockFrame ==
  ASSUME NEW T, NEW L, NEW s, NEW task, T \subseteq Threads, L \subseteq T,
         Core(s, L, T), CurrOut(s), Depth(s, 1),
         task \in Linked(s.waiting_queue)
  PROVE  WakesOnly(unblock(s, task), s, task)
<1> DEFINE l == lock_scheduler(s)
           b == unblock_body(l, task)
           r == unlock_scheduler(b)
<1>1. /\ Core(l, L, T) /\ CurrOut(l) /\ SameQueues(l, s)
      /\ Depth(l, 2) /\ l.sleep_time = s.sleep_time
  BY Lock
<1>2. task \in Linked(l.waiting_queue) /\ task \in Threads
  BY <1>1 DEF SameQueues, Core, KnownOK
<1>3. unblock(s, task) = r
  BY DEF unblock, unblock_body
<1> HIDE DEF l
<1>4. Woken(b, l, task, L, T)
  BY <1>1, <1>2, UnblockBody
<1>5. WakesOnly(b, l, task)
  BY <1>1, <1>2, UnblockBodyFrame DEF Core, QueuesOK
<1> HIDE DEF b
<1>6. Core(b, L, T) /\ Depth(b, 2)
  BY <1>1, <1>4 DEF Woken, Depth, SameLocks
<1>7. SameQueues(r, b) /\ r.sleep_time = b.sleep_time
  BY <1>6, UnlockNested
<1> HIDE DEF r
<1>8. WakesOnly(r, s, task)
  BY <1>1, <1>5, <1>7 DEF WakesOnly, SameQueues
<1> QED
  BY <1>3, <1>8

(* What a tick owes a thread that waits: it leaves waiting_queue when its  *)
(* time is up, and is a millisecond closer when it is not.                 *)
Expires(s, t) == s.state[t] = "Sleep" /\ s.sleep_time[t] <= 1

Served(r, s, t) ==
  /\ t \in Linked(r.waiting_queue) <=> ~Expires(s, t)
  /\ s.state[t] = "Sleep" /\ ~Expires(s, t) => r.sleep_time[t] = s.sleep_time[t] - 1

(* One turn of the loop serves one thread and touches no other.            *)
OneServed(r, s, t) ==
  /\ Served(r, s, t)
  /\ \A x \in Threads : x # t =>
       /\ x \in Linked(r.waiting_queue) <=> x \in Linked(s.waiting_queue)
       /\ r.state[x] = s.state[x]
       /\ r.sleep_time[x] = s.sleep_time[x]
  /\ InFront(s.ready_threads, r.ready_threads)

LEMMA WakeOneServes ==
  ASSUME NEW L, NEW s, NEW t, L \subseteq Threads,
         Core(s, L, Threads), CurrOut(s), Depth(s, 1), t \in Linked(s.waiting_queue)
  PROVE  OneServed(wake_one(s, t), s, t)
<1> DEFINE left == IF s.sleep_time[t] > 0 THEN s.sleep_time[t] - 1 ELSE 0
           g    == [s.sleep_time EXCEPT ![t] = left]
           d    == [s EXCEPT !.sleep_time = g]
           r    == wake_one(s, t)
<1>1. /\ s \in SchedState /\ t \in Threads /\ t \in AllThreads
      /\ s.sleep_time \in [AllThreads -> 0 .. Word - 1]
      /\ s.ready_threads \in Seq(Threads)
  BY DEF Core, KnownOK, AllThreads, SchedState
<1>2. s.state[t] = "Blocked" \/ s.state[t] = "Sleep"
  BY <1>1 DEF Core, QueuesOK
<1>3. s.sleep_time[t] \in 0 .. Word - 1
  BY <1>1, Zenon
<1>4. /\ left \in 0 .. Word - 1 /\ (left = 0 <=> s.sleep_time[t] <= 1)
      /\ (left # 0 => left = s.sleep_time[t] - 1)
  BY <1>3, TimesAssumption
<1>5. r = IF s.state[t] = "Blocked" THEN s ELSE IF left = 0 THEN unblock(d, t) ELSE d
  BY DEF wake_one
<1> HIDE DEF left, r
<1>6. /\ g \in [AllThreads -> 0 .. Word - 1] /\ g[t] = left
      /\ \A x \in AllThreads : x # t => g[x] = s.sleep_time[x]
  BY <1>1, <1>4, Zenon
<1> HIDE DEF g
<1>7. d \in SchedState
  BY <1>1, <1>6, Zenon DEF SchedState
<1>8. SameQueues(d, s) /\ SameRest(d, s) /\ Depth(d, 1) /\ d.sleep_time = g
  BY <1>1 DEF SchedState, SameQueues, SameRest, Depth
<1> HIDE DEF d
<1>9. Core(d, L, Threads) /\ CurrOut(d)
  BY <1>7, <1>8, SameCore
<1>10. InFront(s.ready_threads, s.ready_threads)
  BY <1>1, FrontSelf
<1>11. CASE s.state[t] = "Blocked"
  <2>1. r = s /\ ~Expires(s, t)
    BY <1>5, <1>11 DEF Expires
  <2> QED
    BY <1>10, <1>11, <2>1 DEF OneServed, Served, r
<1>12. CASE s.state[t] = "Sleep" /\ left = 0
  <2>1. r = unblock(d, t) /\ Expires(s, t)
    BY <1>4, <1>5, <1>12 DEF Expires
  <2>2. t \in Linked(d.waiting_queue)
    BY <1>8 DEF SameQueues
  <2>3. WakesOnly(r, d, t)
    BY <1>8, <1>9, <2>1, <2>2, UnblockFrame
  <2>4. Served(r, s, t)
    BY <2>1, <2>3 DEF Served, WakesOnly
  <2>5. \A x \in Threads : x # t =>
          /\ x \in Linked(r.waiting_queue) <=> x \in Linked(s.waiting_queue)
          /\ r.state[x] = s.state[x] /\ r.sleep_time[x] = s.sleep_time[x]
    BY <1>6, <1>8, <2>3 DEF WakesOnly, SameQueues, AllThreads
  <2>6. InFront(s.ready_threads, r.ready_threads)
    BY <1>8, <2>3 DEF WakesOnly, SameQueues
  <2> QED
    BY <2>4, <2>5, <2>6 DEF OneServed, r
<1>13. CASE s.state[t] = "Sleep" /\ left # 0
  <2>1. r = d /\ ~Expires(s, t)
    BY <1>4, <1>5, <1>13 DEF Expires
  <2>2. r.waiting_queue = s.waiting_queue /\ r.state = s.state /\ r.ready_threads = s.ready_threads
        /\ r.sleep_time = g
    BY <1>8, <2>1 DEF SameQueues
  <2>3. Served(r, s, t)
    BY <1>4, <1>6, <1>13, <2>1, <2>2 DEF Served
  <2>4. \A x \in Threads : x # t => r.sleep_time[x] = s.sleep_time[x]
    BY <1>6, <2>2 DEF AllThreads
  <2> QED
    BY <1>10, <2>2, <2>3, <2>4 DEF OneServed, r
<1> QED
  BY <1>2, <1>11, <1>12, <1>13

(* After i turns the first i threads of the queue are served, and the      *)
(* others are as they were.                                                *)
Waits(z, s, t) ==
  /\ t \in Linked(z.waiting_queue)
  /\ z.state[t] = s.state[t]
  /\ z.sleep_time[t] = s.sleep_time[t]

LoopOK(z, s, q, i) ==
  /\ \A j \in 1 .. i : Served(z, s, q[j])
  /\ \A j \in i + 1 .. Len(q) : Waits(z, s, q[j])
  /\ InFront(s.ready_threads, z.ready_threads)

(* The loop serves the whole queue, although the threads it wakes leave it *)
(* under way.                                                              *)
LEMMA LoopServes ==
  ASSUME NEW L, NEW s, L \subseteq Threads,
         Core(s, L, Threads), CurrOut(s), Depth(s, 1)
  PROVE  LET r == wake_sleepers(s)
         IN  /\ \A t \in Linked(s.waiting_queue) : Served(r, s, t)
             /\ InFront(s.ready_threads, r.ready_threads)
<1> DEFINE q == s.waiting_queue
           f == TurnsOf(s)
<1>1. /\ q \in Seq(Threads) /\ Len(q) \in Nat /\ NoDup(q)
      /\ s.ready_threads \in Seq(Threads)
  BY DEF Core, SchedState, QueuesOK
<1>2. /\ wake_sleepers(s) = f[Len(q)] /\ f[0] = s
      /\ \A i \in 1 .. Len(q) : f[i] = wake_one(f[i - 1], q[i])
  BY <1>1, TurnByTurn
<1>3. \A i \in 0 .. Len(q) : TurnOK(f[i], s, L, Threads, q, i)
  BY TurnsKeep
<1>4. \A i \in 1 .. Len(q) : q[i] \in Threads
  BY <1>1
<1>5. \A i, j \in 1 .. Len(q) : q[i] = q[j] => i = j
  BY <1>1 DEF NoDup
<1>6. Linked(q) = {q[i] : i \in 1 .. Len(q)}
  BY <1>1 DEF Linked
<1> HIDE DEF f, q
<1>7. LoopOK(f[0], s, q, 0)
  <2>1. \A j \in 0 + 1 .. Len(q) : q[j] \in Linked(q)
    BY <1>1, <1>6
  <2>2. InFront(s.ready_threads, s.ready_threads)
    BY <1>1, FrontSelf
  <2> QED
    BY <1>1, <1>2, <2>1, <2>2 DEF LoopOK, Waits, q
<1>8. ASSUME NEW i \in 1 .. Len(q), LoopOK(f[i - 1], s, q, i - 1)
      PROVE  LoopOK(f[i], s, q, i)
  <2> DEFINE z == f[i - 1]
             r == f[i]
             t == q[i]
  <2>1. /\ i - 1 \in 0 .. Len(q) /\ i \in 0 .. Len(q) /\ i \in (i - 1) + 1 .. Len(q)
        /\ i \in Nat
    BY <1>1
  <2>2. r = wake_one(z, t) /\ t \in Threads
    BY <1>2, <1>4
  <2>3. Core(z, L, Threads) /\ CurrOut(z) /\ Depth(z, 1) /\ Core(r, L, Threads)
    BY <1>3, <2>1 DEF TurnOK
  <2>4. Waits(z, s, t)
    BY <1>8, <2>1 DEF LoopOK
  <2>5. OneServed(r, z, t)
    BY <2>2, <2>3, <2>4, WakeOneServes DEF Waits
  <2>6. \A j \in 1 .. i - 1 : j \in 1 .. Len(q) /\ q[j] # t /\ q[j] \in Threads
    <3>1. \A j \in 1 .. i - 1 : j \in 1 .. Len(q) /\ j # i
      BY <1>1
    <3> QED
      BY <1>4, <1>5, <3>1
  <2>7. \A j \in i + 1 .. Len(q) :
          j \in (i - 1) + 1 .. Len(q) /\ q[j] # t /\ q[j] \in Threads
    <3>1. \A j \in i + 1 .. Len(q) :
            j \in 1 .. Len(q) /\ j # i /\ j \in (i - 1) + 1 .. Len(q)
      BY <1>1
    <3> QED
      BY <1>4, <1>5, <3>1
  <2> HIDE DEF z, r, t
  <2>8. Served(r, s, t)
    BY <2>4, <2>5 DEF OneServed, Served, Expires, Waits
  <2>9. \A j \in 1 .. i : Served(r, s, q[j])
    <3>1. ASSUME NEW j \in 1 .. i - 1 PROVE Served(r, s, q[j])
      <4>1. Served(z, s, q[j])
        BY <1>8 DEF LoopOK, z
      <4>2. /\ q[j] \in Linked(r.waiting_queue) <=> q[j] \in Linked(z.waiting_queue)
            /\ r.sleep_time[q[j]] = z.sleep_time[q[j]]
        BY <2>5, <2>6 DEF OneServed
      <4> QED
        BY <4>1, <4>2 DEF Served
    <3>2. \A j \in 1 .. i : j \in 1 .. i - 1 \/ j = i
      BY <2>1
    <3> QED
      BY <2>8, <3>1, <3>2 DEF t
  <2>10. ASSUME NEW j \in i + 1 .. Len(q) PROVE Waits(r, s, q[j])
    <3>1. Waits(z, s, q[j])
      BY <1>8, <2>7 DEF LoopOK, z
    <3>2. /\ q[j] \in Linked(r.waiting_queue) <=> q[j] \in Linked(z.waiting_queue)
          /\ r.state[q[j]] = z.state[q[j]]
          /\ r.sleep_time[q[j]] = z.sleep_time[q[j]]
      BY <2>5, <2>7 DEF OneServed
    <3> QED
      BY <3>1, <3>2 DEF Waits
  <2>11. InFront(s.ready_threads, r.ready_threads)
    <3>1. z.ready_threads \in Seq(Threads) /\ r.ready_threads \in Seq(Threads)
      BY <2>3 DEF Core, SchedState
    <3>2. InFront(s.ready_threads, z.ready_threads)
      BY <1>8 DEF LoopOK, z
    <3>3. InFront(z.ready_threads, r.ready_threads)
      BY <2>5 DEF OneServed
    <3> QED
      BY <1>1, <3>1, <3>2, <3>3, FrontFront, Zenon
  <2> QED
    BY <2>9, <2>10, <2>11 DEF LoopOK, r
<1> DEFINE S == {i \in Nat : i <= Len(q) /\ ~LoopOK(f[i], s, q, i)}
<1>9. S = {}
  <2> SUFFICES ASSUME S # {} PROVE FALSE
    OBVIOUS
  <2>1. PICK m \in S : \A k \in S : m <= k
    BY LeastNat, Zenon
  <2>2. m \in 1 .. Len(q)
    BY <1>1, <1>7
  <2>3. m - 1 \in Nat /\ m - 1 <= Len(q) /\ m - 1 \notin S
    BY <1>1, <2>1, <2>2
  <2>4. LoopOK(f[m - 1], s, q, m - 1)
    BY <2>3
  <2> QED
    BY <1>8, <2>2, <2>4
<1>10. LoopOK(f[Len(q)], s, q, Len(q))
  BY <1>1, <1>9
<1>11. \A t \in Linked(q) : Served(f[Len(q)], s, t)
  BY <1>6, <1>10 DEF LoopOK
<1> QED
  BY <1>2, <1>10, <1>11 DEF LoopOK, q

(* The whole timer interrupt.                                              *)
LEMMA TickServes ==
  ASSUME NEW L, NEW s, L \subseteq Threads, Settled(s, L, Threads)
  PROVE  LET r == unlock_scheduler(check_slice(wake_sleepers(
                    lock_scheduler([s EXCEPT !.elapsed = s.elapsed + 1]))))
         IN  /\ \A t \in Linked(s.waiting_queue) : Served(r, s, t)
             /\ Shifted(s.ready_threads, r.ready_threads)
<1> DEFINE e == [s EXCEPT !.elapsed = s.elapsed + 1]
           l == lock_scheduler(e)
           w == wake_sleepers(l)
           k == check_slice(w)
           r == unlock_scheduler(k)
<1>1. /\ s \in SchedState /\ Core(s, L, Threads) /\ s.elapsed \in Nat
      /\ s.ready_threads \in Seq(Threads)
  BY DEF Settled, Core, SchedState
<1>2. e \in SchedState
  <2>1. s.elapsed + 1 \in Nat
    BY <1>1
  <2> QED
    BY <1>1, <2>1, Zenon DEF SchedState
<1>3. SameQueues(e, s) /\ SameRest(e, s) /\ Depth(e, 0) /\ e.sleep_time = s.sleep_time
  BY <1>1 DEF SchedState, SameQueues, SameRest, Depth, Settled
<1> HIDE DEF e
<1>4. Core(e, L, Threads) /\ CurrOut(e)
  BY <1>1, <1>2, <1>3, SameCore DEF Settled
<1>5. /\ Core(l, L, Threads) /\ CurrOut(l) /\ Depth(l, 1)
      /\ SameQueues(l, e) /\ l.sleep_time = e.sleep_time
  BY <1>3, <1>4, Lock
<1> HIDE DEF l
<1>6. /\ \A t \in Linked(l.waiting_queue) : Served(w, l, t)
      /\ InFront(l.ready_threads, w.ready_threads)
  BY <1>5, LoopServes
<1>7. Core(w, L, Threads) /\ Depth(w, 1)
  BY <1>5, WakeSleepers
<1> HIDE DEF w
<1>8. /\ k \in SchedState /\ SameSleep(k, w) /\ k.ready_threads = w.ready_threads
      /\ w.ready_threads \in Seq(Threads)
  <2>1. w \in SchedState /\ w.task_switch_counter # 0
    BY <1>7 DEF Core, Depth
  <2>2. w.ready_threads \in Seq(Threads)
    BY <2>1 DEF SchedState
  <2> QED
    BY <2>1, <2>2, CheckSliceFrame
<1> HIDE DEF k
<1>9. Reordered(r, k)
  BY <1>8, UnlockFrame
<1> HIDE DEF r
<1>10. /\ l.waiting_queue = s.waiting_queue /\ l.state = s.state
       /\ l.sleep_time = s.sleep_time /\ l.ready_threads = s.ready_threads
  BY <1>3, <1>5 DEF SameQueues
<1>11. ASSUME NEW t \in Linked(s.waiting_queue) PROVE Served(r, s, t)
  <2>1. Served(w, l, t)
    BY <1>6, <1>10
  <2> QED
    BY <1>8, <1>9, <1>10, <2>1 DEF Served, Expires, Reordered, SameSleep
<1>12. r.ready_threads \in Seq(Threads) /\ Shifted(w.ready_threads, r.ready_threads)
  BY <1>8, <1>9 DEF Reordered, SchedState
<1>13. Shifted(s.ready_threads, r.ready_threads)
  BY <1>1, <1>6, <1>8, <1>10, <1>12, FrontThenShifted
<1> QED
  BY <1>11, <1>13 DEF r, k, w, l, e

(* Every tick serves every sleeper, whoever else is woken by it.           *)
THEOREM SleepersServed == BlockingSpec => TicksWakeSleepers
<1> DEFINE P == \A t \in Linked(sched.waiting_queue) :
                  LET due == sched.state[t] = "Sleep" /\ sched.sleep_time[t] <= 1
                  IN  /\ t \in Linked(sched'.waiting_queue) <=> ~due
                      /\ sched.state[t] = "Sleep" /\ ~due
                           => sched'.sleep_time[t] = sched.sleep_time[t] - 1
<1>1. ASSUME IInv, Tick PROVE P
  <2>1. sched' = unlock_scheduler(check_slice(wake_sleepers(
                   lock_scheduler([sched EXCEPT !.elapsed = sched.elapsed + 1]))))
    BY <1>1 DEF Tick, pit_irq_handler
  <2>2. live \subseteq Threads /\ Settled(sched, live, Threads)
    BY <1>1 DEF IInv
  <2>3. \A t \in Linked(sched.waiting_queue) : Served(sched', sched, t)
    BY <2>1, <2>2, TickServes
  <2> QED
    BY <2>3, Zenon DEF Served, Expires
<1>2. IInv => [Tick => P]_vars
  BY <1>1
<1> QED
  BY <1>2, Invariance, PTL DEF TicksWakeSleepers

(* The other calls.  Each changes the record under the lock, behind        *)
(* whoever is ready, and then lets go of it.                               *)
LEMMA ParkFrame ==
  ASSUME NEW s, NEW L, L \subseteq Threads, Settled(s, L, Threads), s.curr_thread # Idle
  PROVE  /\ \A milli \in SleepTimes : Shifted(s.ready_threads, sleep(s, milli).ready_threads)
         /\ Shifted(s.ready_threads, block(s).ready_threads)
<1> DEFINE l == lock_scheduler(s)
           c == l.curr_thread
           q == Append(l.waiting_queue, c)
<1>1. Core(l, L, Threads) /\ SameQueues(l, s) /\ Depth(l, 1)
  BY Lock DEF Settled
<1>2. /\ l \in SchedState /\ c \in AllThreads /\ c \in Threads
      /\ l.task_switch_counter = 1 /\ l.ready_threads = s.ready_threads
  BY <1>1 DEF Core, SchedState, AllThreads, SameQueues, Depth
<1>3. \A milli : sleep(s, milli) =
        unlock_scheduler(schedule([l EXCEPT !.sleep_time = [l.sleep_time EXCEPT ![c] = milli],
                                            !.state = [l.state EXCEPT ![c] = "Sleep"],
                                            !.waiting_queue = q]))
  BY DEF sleep
<1>4. block(s) =
        unlock_scheduler(schedule([l EXCEPT !.state = [l.state EXCEPT ![c] = "Blocked"],
                                            !.waiting_queue = q]))
  BY DEF block
<1> HIDE DEF l
<1>5. /\ q \in Seq(Threads) /\ l.state \in [AllThreads -> ThreadState]
      /\ l.sleep_time \in [AllThreads -> 0 .. Word - 1]
  BY <1>2 DEF SchedState
<1>6. /\ [l.state EXCEPT ![c] = "Sleep"] \in [AllThreads -> ThreadState]
      /\ [l.state EXCEPT ![c] = "Blocked"] \in [AllThreads -> ThreadState]
  <2>1. "Sleep" \in ThreadState /\ "Blocked" \in ThreadState
    BY DEF ThreadState
  <2> QED
    BY <1>5, <2>1, Zenon
<1> HIDE DEF q
<1>7. ASSUME NEW milli \in SleepTimes
      PROVE  Shifted(s.ready_threads, sleep(s, milli).ready_threads)
  <2> DEFINE g == [l.sleep_time EXCEPT ![c] = milli]
             f == [l.state EXCEPT ![c] = "Sleep"]
             m == [l EXCEPT !.sleep_time = g, !.state = f, !.waiting_queue = q]
  <2>1. g \in [AllThreads -> 0 .. Word - 1]
    <3>1. milli \in 0 .. Word - 1
      BY TimesAssumption
    <3> QED
      BY <1>5, <3>1, Zenon
  <2>2. sleep(s, milli) = unlock_scheduler(schedule(m)) /\ f \in [AllThreads -> ThreadState]
    BY <1>3, <1>6, Zenon
  <2> HIDE DEF f, g
  <2>3. m \in SchedState
    BY <1>2, <1>5, <2>1, <2>2, Zenon DEF SchedState
  <2>4. m.task_switch_counter = 1 /\ m.ready_threads = l.ready_threads
    BY <1>2 DEF SchedState
  <2> HIDE DEF m
  <2>5. Reordered(unlock_scheduler(schedule(m)), m)
    <3>1. m.task_switch_counter # 0
      BY <2>4
    <3> QED
      BY <2>3, <3>1, GiveUpFrame
  <2> QED
    BY <1>2, <2>2, <2>4, <2>5, Zenon DEF Reordered
<1>8. Shifted(s.ready_threads, block(s).ready_threads)
  <2> DEFINE f == [l.state EXCEPT ![c] = "Blocked"]
             m == [l EXCEPT !.state = f, !.waiting_queue = q]
  <2>1. block(s) = unlock_scheduler(schedule(m)) /\ f \in [AllThreads -> ThreadState]
    BY <1>4, <1>6, Zenon
  <2> HIDE DEF f
  <2>2. m \in SchedState
    BY <1>2, <1>5, <2>1, Zenon DEF SchedState
  <2>3. m.task_switch_counter = 1 /\ m.ready_threads = l.ready_threads
    BY <1>2 DEF SchedState
  <2> HIDE DEF m
  <2>4. Reordered(unlock_scheduler(schedule(m)), m)
    <3>1. m.task_switch_counter # 0
      BY <2>3
    <3> QED
      BY <2>2, <3>1, GiveUpFrame
  <2> QED
    BY <1>2, <2>1, <2>3, <2>4, Zenon DEF Reordered
<1> QED
  BY <1>7, <1>8

LEMMA YieldFrame ==
  ASSUME NEW s, NEW L, L \subseteq Threads, Settled(s, L, Threads), s.curr_thread # Idle
  PROVE  Shifted(s.ready_threads, yield(s).ready_threads)
<1> DEFINE l == lock_scheduler(s)
           c == l.curr_thread
           f == [l.state EXCEPT ![c] = "Ready"]
           g == [l.scheduled_time EXCEPT ![c] = DEFAULT_SCHEDULE_TIME_MS]
           q == Append(l.ready_threads, c)
           m == [l EXCEPT !.state = f, !.scheduled_time = g, !.ready_threads = q]
           r == unlock_scheduler(schedule(m))
<1>1. Core(l, L, Threads) /\ SameQueues(l, s) /\ Depth(l, 1)
  BY Lock DEF Settled
<1>2. yield(s) = r
  BY DEF yield
<1>3. /\ l \in SchedState /\ c \in AllThreads /\ c \in Threads
      /\ l.task_switch_counter = 1 /\ l.ready_threads = s.ready_threads
  BY <1>1 DEF Core, SchedState, AllThreads, SameQueues, Depth
<1> HIDE DEF l
<1>4. /\ l.ready_threads \in Seq(Threads) /\ l.state \in [AllThreads -> ThreadState]
      /\ l.scheduled_time \in [AllThreads -> 0 .. Word - 1]
  BY <1>3 DEF SchedState
<1>5. f \in [AllThreads -> ThreadState] /\ g \in [AllThreads -> 0 .. Word - 1]
  <2>1. "Ready" \in ThreadState /\ DEFAULT_SCHEDULE_TIME_MS \in 0 .. Word - 1
    BY TimesAssumption DEF ThreadState
  <2> QED
    BY <1>4, <2>1, Zenon
<1>6. q \in Seq(Threads) /\ InFront(l.ready_threads, q)
  BY <1>3, <1>4, FrontAppend, Zenon
<1> HIDE DEF f, g, q
<1>7. m \in SchedState
  BY <1>3, <1>5, <1>6, Zenon DEF SchedState
<1>8. m.task_switch_counter = 1 /\ m.ready_threads = q
  BY <1>3 DEF SchedState
<1> HIDE DEF m
<1>9. Reordered(r, m)
  <2>1. m.task_switch_counter # 0
    BY <1>8
  <2> QED
    BY <1>7, <2>1, GiveUpFrame
<1> HIDE DEF r
<1>10. r.ready_threads \in Seq(Threads) /\ Shifted(q, r.ready_threads)
  BY <1>8, <1>9 DEF Reordered, SchedState
<1>11. Shifted(l.ready_threads, r.ready_threads)
  BY <1>4, <1>6, <1>10, FrontThenShifted
<1> QED
  BY <1>2, <1>3, <1>11

LEMMA UnblockShifts ==
  ASSUME NEW s, NEW L, L \subseteq Threads, Settled(s, L, Threads),
         NEW task \in Linked(s.waiting_queue)
  PROVE  Shifted(s.ready_threads, unblock(s, task).ready_threads)
<1> DEFINE l == lock_scheduler(s)
           b == unblock_body(l, task)
           r == unlock_scheduler(b)
<1>1. Core(l, L, Threads) /\ SameQueues(l, s)
  BY Lock DEF Settled
<1>2. unblock(s, task) = r
  BY DEF unblock, unblock_body
<1>3. l \in SchedState /\ NoDup(l.waiting_queue) /\ task \in Threads
  BY <1>1 DEF Core, QueuesOK, KnownOK, SameQueues
<1> HIDE DEF l
<1>4. b \in SchedState /\ WakesOnly(b, l, task)
  BY <1>3, UnblockBodyFrame
<1> HIDE DEF b
<1>5. Reordered(r, b)
  BY <1>4, UnlockFrame
<1> HIDE DEF r
<1>6. /\ l.ready_threads \in Seq(Threads) /\ b.ready_threads \in Seq(Threads)
      /\ r.ready_threads \in Seq(Threads)
  BY <1>3, <1>4, <1>5 DEF Reordered, SchedState
<1>7. Shifted(l.ready_threads, r.ready_threads)
  BY <1>4, <1>5, <1>6, FrontThenShifted DEF WakesOnly, Reordered
<1> QED
  BY <1>1, <1>2, <1>7 DEF SameQueues

LEMMA SpawnShifts ==
  ASSUME NEW s \in SchedState, NEW t \in Threads, NEW p \in Procs
  PROVE  Shifted(s.ready_threads,
                 add_ready_threads([s EXCEPT !.m_process[t] = p], t).ready_threads)
<1> DEFINE g == [s.m_process EXCEPT ![t] = p]
           n == [s EXCEPT !.m_process = g]
           r == add_ready_threads(n, t)
<1>1. g \in [AllThreads -> Procs]
  BY Zenon DEF SchedState
<1> HIDE DEF g
<1>2. n \in SchedState
  BY <1>1, Zenon DEF SchedState
<1>3. n.ready_threads = s.ready_threads /\ s.ready_threads \in Seq(Threads)
  BY DEF SchedState
<1> HIDE DEF n
<1>4. r.ready_threads = Append(n.ready_threads, t)
  BY <1>2, AddReadyFields, Zenon
<1> HIDE DEF r
<1>5. Shifted(s.ready_threads, r.ready_threads)
  BY <1>3, <1>4, FrontAppend, FrontShifted, Zenon
<1> QED
  BY <1>5 DEF r, n, g

(* Every call of the scheduler.                                            *)
LEMMA NextShifts == IInv /\ BlockingNext => Shifted(sched.ready_threads, sched'.ready_threads)
<1> SUFFICES ASSUME IInv, BlockingNext
             PROVE  Shifted(sched.ready_threads, sched'.ready_threads)
  OBVIOUS
<1>1. live \subseteq Threads /\ Settled(sched, live, Threads) /\ sched \in SchedState
  BY DEF IInv, Settled, Core
<1>2. CASE \E t \in Threads, p \in Procs : Spawn(t, p)
  BY <1>1, <1>2, SpawnShifts DEF Spawn
<1>3. ASSUME NEW t \in Threads, NEW ms \in Budgets, UpdateScheduledTime(t, ms)
      PROVE  Shifted(sched.ready_threads, sched'.ready_threads)
  <2>1. sched' = [sched EXCEPT !.scheduled_time = [sched.scheduled_time EXCEPT ![t] = ms]]
    BY <1>3 DEF UpdateScheduledTime
  <2>2. sched'.ready_threads = sched.ready_threads /\ sched.ready_threads \in Seq(Threads)
    BY <1>1, <2>1 DEF SchedState
  <2> QED
    BY <2>2, FrontSelf, FrontShifted
<1>4. CASE Tick
  <2>1. sched' = unlock_scheduler(check_slice(wake_sleepers(
                   lock_scheduler([sched EXCEPT !.elapsed = sched.elapsed + 1]))))
    BY <1>4 DEF Tick, pit_irq_handler
  <2> QED
    BY <1>1, <2>1, TickServes
<1>5. CASE \E milli \in SleepTimes : Sleep(milli)
  BY <1>1, <1>5, ParkFrame DEF Sleep
<1>6. CASE Block
  BY <1>1, <1>6, ParkFrame DEF Block
<1>7. CASE Yield
  BY <1>1, <1>7, YieldFrame DEF Yield
<1>8. CASE \E t \in Threads : Unblock(t)
  BY <1>1, <1>8, UnblockShifts DEF Unblock
<1> QED
  BY <1>2, <1>3, <1>4, <1>5, <1>6, <1>7, <1>8 DEF BlockingNext, KernelNext

(* Round robin, with every primitive of the scheduler ...                  *)
THEOREM RoundRobin == BlockingSpec => ReadyIsFifo
<1> DEFINE P == \E k \in 0 .. 1 :
                  LET old == sched.ready_threads
                      new == sched'.ready_threads
                  IN  /\ k <= Len(old)
                      /\ Len(old) - k <= Len(new)
                      /\ \A i \in 1 .. Len(old) - k : new[i] = old[i + k]
<1>1. IInv /\ [BlockingNext]_vars => [P]_vars
  BY NextShifts, Zenon DEF Shifted
<1> QED
  BY <1>1, Invariance, PTL DEF BlockingSpec, ReadyIsFifo

(* ... and in the kernel as it schedules today.                            *)
THEOREM KernelRoundRobin == DKernelSpec => ReadyIsFifo
<1> DEFINE P == \E k \in 0 .. 1 :
                  LET old == sched.ready_threads
                      new == sched'.ready_threads
                  IN  /\ k <= Len(old)
                      /\ Len(old) - k <= Len(new)
                      /\ \A i \in 1 .. Len(old) - k : new[i] = old[i + k]
<1>1. CInv /\ [DKernelNext]_dvars => [P]_vars
  <2> SUFFICES ASSUME CInv, [DKernelNext]_dvars PROVE [P]_vars
    OBVIOUS
  <2>1. [KernelNext]_vars
    BY SchedulerSteps DEF dvars
  <2>2. CASE KernelNext
    <3>1. Shifted(sched.ready_threads, sched'.ready_threads)
      BY <2>2, NextShifts DEF CInv, KInv, BlockingNext
    <3> QED
      BY <3>1, Zenon DEF Shifted
  <2> QED
    BY <2>1, <2>2
<1> QED
  BY <1>1, KernelInvariance, PTL DEF DKernelSpec, ReadyIsFifo
-----------------------------------------------------------------------------
(* The queues across an exit: what it does to the threads of the other     *)
(* processes.                                                              *)

LEMMA OrderSelf ==
  ASSUME NEW q, NEW S
  PROVE  SameOrder(q, q, S)
  BY DEF SameOrder

LEMMA OrderTrans ==
  ASSUME NEW p, NEW q, NEW r, NEW S, SameOrder(p, q, S), SameOrder(q, r, S)
  PROVE  SameOrder(p, r, S)
  BY DEF SameOrder

(* Adding, popping or removing a thread that is not looked at.             *)
LEMMA OrderAppend ==
  ASSUME NEW q \in Seq(Threads), NEW c \in Threads, NEW S, c \notin S
  PROVE  SameOrder(q, Append(q, c), S)
<1> DEFINE r == Append(q, c)
<1>1. /\ Len(q) \in Nat /\ DOMAIN q = 1 .. Len(q) /\ DOMAIN r = 1 .. Len(q) + 1
      /\ r[Len(q) + 1] = c /\ \A i \in 1 .. Len(q) : r[i] = q[i]
  OBVIOUS
<1> HIDE DEF r
<1>2. \A i \in DOMAIN q : i \in DOMAIN r /\ r[i] = q[i]
  BY <1>1
<1>3. \A i \in DOMAIN r : r[i] \in S => i \in DOMAIN q /\ q[i] = r[i]
  BY <1>1
<1>4. S \cap Linked(q) = S \cap Linked(r)
  BY <1>2, <1>3, Zenon DEF Linked
<1>5. ASSUME NEW a \in S, NEW b \in S
      PROVE  Before(q, a, b) <=> Before(r, a, b)
  BY <1>2, <1>3, Zenon DEF Before
<1> QED
  BY <1>4, <1>5 DEF SameOrder, r

LEMMA OrderTail ==
  ASSUME NEW q \in Seq(Threads), q # <<>>, NEW S, Head(q) \notin S
  PROVE  SameOrder(q, Tail(q), S)
<1> DEFINE r == Tail(q)
<1>1. /\ Len(q) \in Nat \ {0} /\ DOMAIN q = 1 .. Len(q) /\ DOMAIN r = 1 .. Len(q) - 1
      /\ q[1] \notin S /\ \A i \in 1 .. Len(q) - 1 : r[i] = q[i + 1]
  OBVIOUS
<1> HIDE DEF r
<1>2. \A i \in DOMAIN r : i + 1 \in DOMAIN q /\ q[i + 1] = r[i] /\ i \in Int
  BY <1>1
<1>3. \A i \in DOMAIN q : q[i] \in S => i - 1 \in DOMAIN r /\ r[i - 1] = q[i] /\ i \in Int
  <2> SUFFICES ASSUME NEW i \in DOMAIN q, q[i] \in S
               PROVE  i - 1 \in DOMAIN r /\ r[i - 1] = q[i] /\ i \in Int
    OBVIOUS
  <2>1. i \in 1 .. Len(q) /\ i # 1
    BY <1>1
  <2>2. i - 1 \in 1 .. Len(q) - 1 /\ (i - 1) + 1 = i
    BY <1>1, <2>1
  <2> QED
    BY <1>1, <2>1, <2>2
<1>4. S \cap Linked(q) = S \cap Linked(r)
  BY <1>2, <1>3, Zenon DEF Linked
<1>5. ASSUME NEW a \in S, NEW b \in S
      PROVE  Before(q, a, b) <=> Before(r, a, b)
  <2>1. ASSUME NEW i \in DOMAIN q, NEW j \in DOMAIN q, i < j, q[i] = a, q[j] = b
        PROVE  Before(r, a, b)
    <3>1. i - 1 \in DOMAIN r /\ r[i - 1] = a /\ j - 1 \in DOMAIN r /\ r[j - 1] = b
      BY <1>3, <2>1
    <3>2. i - 1 < j - 1
      BY <1>3, <2>1
    <3> QED
      BY <3>1, <3>2 DEF Before
  <2>2. ASSUME NEW i \in DOMAIN r, NEW j \in DOMAIN r, i < j, r[i] = a, r[j] = b
        PROVE  Before(q, a, b)
    <3>1. i + 1 \in DOMAIN q /\ q[i + 1] = a /\ j + 1 \in DOMAIN q /\ q[j + 1] = b
      BY <1>2, <2>2
    <3>2. i + 1 < j + 1
      BY <1>2, <2>2
    <3> QED
      BY <3>1, <3>2 DEF Before
  <2> QED
    BY <2>1, <2>2 DEF Before
<1> QED
  BY <1>4, <1>5 DEF SameOrder, r

LEMMA OrderRemove ==
  ASSUME NEW q \in Seq(Threads), NEW t, NEW S, t \notin S
  PROVE  SameOrder(q, Remove(q, t), S)
<1> DEFINE r == Remove(q, t)
           pos == CHOOSE i \in DOMAIN q : q[i] = t
           up(i)   == IF i < pos THEN i ELSE i + 1
           down(i) == IF i < pos THEN i ELSE i - 1
<1>1. CASE t \notin Linked(q)
  BY <1>1, OrderSelf DEF Remove
<1>2. CASE t \in Linked(q)
  <2>1. pos \in DOMAIN q /\ q[pos] = t
    BY <1>2 DEF Linked
  <2>2. r = [i \in 1 .. Len(q) - 1 |-> IF i < pos THEN q[i] ELSE q[i + 1]]
    BY <1>2 DEF Remove
  <2>3. DOMAIN q = 1 .. Len(q) /\ Len(q) \in Nat
    OBVIOUS
  <2> HIDE DEF pos, r
  <2>4. DOMAIN r = 1 .. Len(q) - 1 /\ \A i \in DOMAIN r : r[i] = q[up(i)]
    BY <2>2
  <2>5. \A i \in DOMAIN r : up(i) \in DOMAIN q /\ q[up(i)] = r[i]
    BY <2>1, <2>3, <2>4
  <2>6. \A i, j \in DOMAIN r : i < j => up(i) < up(j)
    BY <2>1, <2>3, <2>4
  <2>7. \A i \in DOMAIN q : q[i] \in S => down(i) \in DOMAIN r /\ r[down(i)] = q[i]
    <3> SUFFICES ASSUME NEW i \in DOMAIN q, q[i] \in S
                 PROVE  down(i) \in DOMAIN r /\ r[down(i)] = q[i]
      OBVIOUS
    <3>1. i # pos
      BY <2>1
    <3>2. down(i) \in DOMAIN r /\ up(down(i)) = i
      BY <2>1, <2>3, <2>4, <3>1
    <3> QED
      BY <2>4, <3>2
  <2>8. \A i, j \in DOMAIN q : i < j /\ i # pos /\ j # pos => down(i) < down(j)
    BY <2>1, <2>3
  <2>9. \A i \in DOMAIN q : q[i] \in S => i # pos
    BY <2>1
  <2> HIDE DEF up, down
  <2>10. S \cap Linked(q) = S \cap Linked(r)
    BY <2>5, <2>7, Zenon DEF Linked
  <2>11. ASSUME NEW a \in S, NEW b \in S
         PROVE  Before(q, a, b) <=> Before(r, a, b)
    <3>1. ASSUME NEW i \in DOMAIN q, NEW j \in DOMAIN q, i < j, q[i] = a, q[j] = b
          PROVE  Before(r, a, b)
      <4>1. down(i) \in DOMAIN r /\ down(j) \in DOMAIN r
            /\ r[down(i)] = a /\ r[down(j)] = b /\ down(i) < down(j)
        BY <2>7, <2>8, <2>9, <3>1
      <4> QED
        BY <4>1, Zenon DEF Before
    <3>2. ASSUME NEW i \in DOMAIN r, NEW j \in DOMAIN r, i < j, r[i] = a, r[j] = b
          PROVE  Before(q, a, b)
      <4>1. up(i) \in DOMAIN q /\ up(j) \in DOMAIN q
            /\ q[up(i)] = a /\ q[up(j)] = b /\ up(i) < up(j)
        BY <2>5, <2>6, <3>2
      <4> QED
        BY <4>1, Zenon DEF Before
    <3> QED
      BY <3>1, <3>2, Zenon DEF Before
  <2> QED
    BY <2>10, <2>11 DEF SameOrder, r
<1> QED
  BY <1>1, <1>2

(* schedule() with the lock free hands the CPU to the head, if there is    *)
(* one, and the threads that are not switched keep their order.            *)
LEMMA ScheduleOrder ==
  ASSUME NEW s \in SchedState, s.task_switch_counter = 0, NEW S, s.curr_thread \notin S
  PROVE  LET r == schedule(s)
         IN  /\ r.curr_thread = Idle \/ r.curr_thread = Head(s.ready_threads)
             /\ SameOrder(s.ready_threads, r.ready_threads, S \ {r.curr_thread})
<1> DEFINE r == schedule(s)
           W == S \ {r.curr_thread}
<1>1. s.ready_threads \in Seq(Threads) /\ s.curr_thread \notin W
  BY DEF SchedState
<1>2. CASE s.ready_threads = <<>>
  <2>1. r = switch_task(s, Idle)
    BY <1>2 DEF schedule
  <2>2. SwitchAdds(r, s) /\ r.curr_thread = Idle
    BY <2>1, SwitchFrame DEF AllThreads
  <2> HIDE DEF r, W
  <2>3. SameOrder(s.ready_threads, r.ready_threads, W)
    BY <1>1, <2>2, OrderSelf, OrderAppend DEF SwitchAdds
  <2> QED
    BY <2>2, <2>3 DEF r, W
<1>3. CASE s.ready_threads # <<>>
  <2> DEFINE u    == charge_quantum(s)
             next == Head(u.ready_threads)
             f    == [u.state EXCEPT ![next] = "Running"]
             d    == [u EXCEPT !.ready_threads = Tail(u.ready_threads), !.state = f]
  <2>1. Charged(u, s)
    BY ChargeFields
  <2>2. r = switch_task(d, next)
    BY <1>3 DEF schedule, dispatch_head
  <2> HIDE DEF u
  <2>3. /\ u \in SchedState /\ u.ready_threads = s.ready_threads
        /\ u.curr_thread = s.curr_thread
    BY <2>1 DEF Charged
  <2>4. /\ next \in Threads /\ Tail(u.ready_threads) \in Seq(Threads)
        /\ next = Head(s.ready_threads)
    BY <1>1, <1>3, <2>3
  <2> HIDE DEF next
  <2>5. f \in [AllThreads -> ThreadState]
    BY <2>3, Zenon DEF SchedState, ThreadState
  <2> HIDE DEF f
  <2>6. d \in SchedState
    BY <2>3, <2>4, <2>5, QueueTyped, Zenon
  <2>7. d.ready_threads = Tail(u.ready_threads) /\ d.curr_thread = u.curr_thread
    BY <2>3 DEF SchedState
  <2> HIDE DEF d
  <2>8. SwitchAdds(r, d) /\ r.curr_thread = next
    BY <2>2, <2>4, <2>6, SwitchFrame DEF AllThreads
  <2>9. Head(s.ready_threads) \notin W
    BY <2>4, <2>8
  <2> HIDE DEF r, W
  <2>10. SameOrder(s.ready_threads, Tail(s.ready_threads), W)
    BY <1>1, <1>3, <2>9, OrderTail
  <2>11. SameOrder(Tail(s.ready_threads), r.ready_threads, W)
    <3>1. /\ d.ready_threads = Tail(s.ready_threads) /\ d.ready_threads \in Seq(Threads)
          /\ d.curr_thread \notin W
      BY <1>1, <2>3, <2>4, <2>7
    <3>2. \/ r.ready_threads = d.ready_threads
          \/ /\ d.curr_thread \in Threads
             /\ r.ready_threads = Append(d.ready_threads, d.curr_thread)
      BY <2>8 DEF SwitchAdds
    <3>3. SameOrder(d.ready_threads, r.ready_threads, W)
      BY <3>1, <3>2, OrderSelf, OrderAppend
    <3> QED
      BY <3>1, <3>3
  <2>12. SameOrder(s.ready_threads, r.ready_threads, W)
    BY <2>10, <2>11, OrderTrans
  <2> QED
    BY <2>4, <2>8, <2>12 DEF r, W
<1> QED
  BY <1>2, <1>3

(* The threads of the processes other than p.                              *)
Others(s, p) == {t \in Threads : s.m_process[t] # p}

(* One turn of a loop of the exit, and a whole loop: nobody else moves,    *)
(* and the threads of p that are visited are gone from waiting_queue.      *)
LEMMA DropOneOrder ==
  ASSUME NEW z, NEW s, NEW t \in Threads, NEW p, Dropped(z, s)
  PROVE  LET r == drop_one(z, t, p)
         IN  /\ SameOrder(z.waiting_queue, r.waiting_queue, Others(s, p))
             /\ Linked(r.waiting_queue) \subseteq Linked(z.waiting_queue)
             /\ t \notin Others(s, p) => t \notin Linked(r.waiting_queue)
<1> DEFINE r == drop_one(z, t, p)
           S == Others(s, p)
           w == Remove(z.waiting_queue, t)
<1>1. /\ z \in SchedState /\ z.waiting_queue \in Seq(Threads) /\ NoDup(z.waiting_queue)
      /\ z.m_process = s.m_process
  BY DEF Dropped, SchedState, SameRest
<1>2. CASE z.m_process[t] = p
  <2>1. t \notin S
    BY <1>1, <1>2 DEF Others
  <2>2. r = [z EXCEPT !.waiting_queue = w]
    BY <1>2 DEF drop_one
  <2>3. Linked(w) = Linked(z.waiting_queue) \ {t}
    BY <1>1, RemoveFacts
  <2> HIDE DEF S
  <2>4. SameOrder(z.waiting_queue, w, S)
    BY <1>1, <2>1, OrderRemove
  <2> HIDE DEF w
  <2>5. r.waiting_queue = w
    BY <1>1, <2>2 DEF SchedState
  <2> QED
    BY <2>3, <2>4, <2>5 DEF S
<1>3. CASE z.m_process[t] # p
  <2>1. t \in S /\ r = z
    BY <1>1, <1>3 DEF Others, drop_one
  <2> QED
    BY <2>1, OrderSelf
<1> QED
  BY <1>2, <1>3

DropOK(z, s, q, p, i) ==
  /\ Dropped(z, s)
  /\ SameOrder(s.waiting_queue, z.waiting_queue, Others(s, p))
  /\ \A j \in 1 .. i : q[j] \notin Others(s, p) => q[j] \notin Linked(z.waiting_queue)

LEMMA DropLoopOrder ==
  ASSUME NEW s, NEW q \in Seq(Threads), NEW p, Dropped(s, s)
  PROVE  DropOK(drop(s, q, p), s, q, p, Len(q))
<1> DEFINE f == CHOOSE f : Drops(f, s, q, p, Len(q))
<1>1. Len(q) \in Nat /\ \A i \in 1 .. Len(q) : q[i] \in Threads
  OBVIOUS
<1>2. Drops(f, s, q, p, Len(q))
  BY <1>1, DropsExist
<1>3. drop(s, q, p) = f[Len(q)]
  BY DEF drop, Drops
<1> HIDE DEF f
<1>4. f[0] = s
  BY <1>1, <1>2 DEF Drops
<1>5. \A i \in 1 .. Len(q) : f[i] = drop_one(f[i - 1], q[i], p)
  BY <1>1, <1>2 DEF Drops
<1>6. DropOK(f[0], s, q, p, 0)
  BY <1>4, OrderSelf DEF DropOK
<1>7. ASSUME NEW i \in 1 .. Len(q), DropOK(f[i - 1], s, q, p, i - 1)
      PROVE  DropOK(f[i], s, q, p, i)
  <2> DEFINE z == f[i - 1]
             r == f[i]
             S == Others(s, p)
  <2>1. r = drop_one(z, q[i], p) /\ q[i] \in Threads /\ Dropped(z, s)
    BY <1>1, <1>5, <1>7 DEF DropOK
  <2>2. Dropped(r, s)
    BY <2>1, DropOne
  <2>3. /\ SameOrder(z.waiting_queue, r.waiting_queue, S)
        /\ Linked(r.waiting_queue) \subseteq Linked(z.waiting_queue)
        /\ q[i] \notin S => q[i] \notin Linked(r.waiting_queue)
    BY <2>1, DropOneOrder
  <2>4. /\ SameOrder(s.waiting_queue, z.waiting_queue, S)
        /\ \A j \in 1 .. i - 1 : q[j] \notin S => q[j] \notin Linked(z.waiting_queue)
    BY <1>7 DEF DropOK
  <2> HIDE DEF z, r, S
  <2>5. SameOrder(s.waiting_queue, r.waiting_queue, S)
    BY <2>3, <2>4, OrderTrans
  <2>6. \A j \in 1 .. i : j \in 1 .. i - 1 \/ j = i
    BY <1>1
  <2>7. \A j \in 1 .. i : q[j] \notin S => q[j] \notin Linked(r.waiting_queue)
    BY <2>3, <2>4, <2>6
  <2> QED
    BY <2>2, <2>5, <2>7 DEF DropOK, r, S
<1> DEFINE B == {i \in Nat : i <= Len(q) /\ ~DropOK(f[i], s, q, p, i)}
<1>8. B = {}
  <2> SUFFICES ASSUME B # {} PROVE FALSE
    OBVIOUS
  <2>1. PICK m \in B : \A k \in B : m <= k
    BY LeastNat, Zenon
  <2>2. m \in 1 .. Len(q)
    BY <1>1, <1>6
  <2>3. m - 1 \in Nat /\ m - 1 <= Len(q) /\ m - 1 \notin B
    BY <1>1, <2>1, <2>2
  <2>4. DropOK(f[m - 1], s, q, p, m - 1)
    BY <2>3
  <2> QED
    BY <1>7, <2>2, <2>4
<1> QED
  BY <1>1, <1>3, <1>8

(* What exit(-1) does to the queues.                                       *)
Spared(r, s, S) ==
  /\ SameOrder(s.waiting_queue, r.waiting_queue, S)
  /\ SameOrder(s.ready_threads, r.ready_threads, S \ {r.curr_thread})
  /\ r.curr_thread \in S => r.curr_thread = Head(s.ready_threads)

LEMMA ExitOrder ==
  ASSUME NEW T, NEW L, NEW s, Settled(s, L, T)
  PROVE  LET r == remove_dead_process_threads(s)
             S == Others(s, s.m_process[s.curr_thread])
         IN  Spared(r, s, S) /\ Linked(r.waiting_queue) \subseteq S
<1> DEFINE p == s.m_process[s.curr_thread]
           S == Others(s, p)
           v == drop_waiting(s, p)
           x == drop_ready(v, p)
           r == schedule(x)
<1>1. /\ s \in SchedState /\ s.waiting_queue \in Seq(Threads) /\ NoDup(s.waiting_queue)
      /\ s.task_switch_counter = 0
  BY DEF Settled, Core, QueuesOK, SchedState, Depth
<1>2. remove_dead_process_threads(s) = r
  BY DEF remove_dead_process_threads
<1>3. Dropped(s, s)
  BY <1>1 DEF Dropped, SameRest, SameLocks
<1>4. DropOK(v, s, s.waiting_queue, p, Len(s.waiting_queue))
  BY <1>1, <1>3, DropLoopOrder DEF drop_waiting
<1> HIDE DEF v
<1>5. Dropped(v, s) /\ v \in SchedState /\ v.ready_threads \in Seq(Threads)
  BY <1>4 DEF DropOK, Dropped, SchedState
<1>6. Dropped(v, v)
  BY <1>5 DEF Dropped, SameRest, SameLocks
<1>7. DropOK(x, v, v.ready_threads, p, Len(v.ready_threads))
  BY <1>5, <1>6, DropLoopOrder DEF drop_ready
<1> HIDE DEF x
<1>8. Others(v, p) = S
  BY <1>5 DEF Others, Dropped, SameRest
<1>9. Linked(v.waiting_queue) \subseteq S
  <2> SUFFICES ASSUME NEW t \in Linked(v.waiting_queue), t \notin S PROVE FALSE
    OBVIOUS
  <2>1. t \in Linked(s.waiting_queue)
    BY <1>5 DEF Dropped
  <2>2. PICK j \in 1 .. Len(s.waiting_queue) : t = s.waiting_queue[j]
    BY <1>1, <2>1 DEF Linked
  <2> QED
    BY <1>4, <2>2 DEF DropOK
<1>10. SameOrder(s.waiting_queue, x.waiting_queue, S)
  BY <1>4, <1>7, <1>8, OrderTrans DEF DropOK
<1>11. /\ x \in SchedState /\ x.task_switch_counter = 0 /\ x.curr_thread = s.curr_thread
       /\ x.ready_threads = s.ready_threads
       /\ Linked(x.waiting_queue) \subseteq S
  BY <1>1, <1>5, <1>7, <1>9 DEF DropOK, Dropped, SameLocks
<1>12. s.curr_thread \notin S /\ Idle \notin S
  BY ThreadsAssumption DEF Others
<1>13. r.waiting_queue = x.waiting_queue
  BY <1>11, ScheduleFrame DEF Reordered, SameSleep
<1>14. /\ r.curr_thread = Idle \/ r.curr_thread = Head(x.ready_threads)
       /\ SameOrder(x.ready_threads, r.ready_threads, S \ {r.curr_thread})
  <2> HIDE DEF S, p
  <2> QED
    BY <1>11, <1>12, ScheduleOrder
<1> HIDE DEF r, S
<1>15. Spared(r, s, S)
  BY <1>10, <1>11, <1>12, <1>13, <1>14 DEF Spared
<1> QED
  BY <1>2, <1>11, <1>13, <1>15 DEF S

(* An exit that does nothing spares everybody.                             *)
LEMMA SameSpares ==
  ASSUME NEW s, NEW S, s.curr_thread \notin S
  PROVE  Spared(s, s, S)
  BY OrderSelf DEF Spared

(* The threads of the other processes keep their place in both queues      *)
(* when a process exits or is ended by a fault.                            *)
THEOREM OthersSpared == PSpec => ExitSparesOthers
<1> DEFINE A == (\E stats \in Statuses : ExitCall(stats)) \/ GpFault
           P == LET p      == sched.m_process[sched.curr_thread]
                    others == {t \in Threads : sched.m_process[t] # p}
                    next   == sched'.curr_thread
                IN  /\ SameOrder(sched.waiting_queue, sched'.waiting_queue, others)
                    /\ status'[p] = "Dead" /\ status[p] # "Dead" =>
                         Linked(sched'.waiting_queue) \subseteq others
                    /\ SameOrder(sched.ready_threads, sched'.ready_threads, others \ {next})
                    /\ next \in others => next = Head(sched.ready_threads)
<1>1. ASSUME PInv, A PROVE P
  <2> DEFINE p == sched.m_process[sched.curr_thread]
             S == Others(sched, p)
  <2>1. PICK T : Settled(sched, live \cap T, T)
    BY <1>1 DEF PInv, Tracked, ExitCall, GpFault, Free
  <2>2. sched.curr_thread \notin S
    BY DEF Others
  <2>3. PICK stats : Exit(p, stats)
    BY <1>1 DEF ExitCall, GpFault
  <2>4. /\ Spared(sched', sched, S)
        /\ status'[p] = "Dead" /\ status[p] # "Dead" => Linked(sched'.waiting_queue) \subseteq S
    <3>1. CASE sched' = remove_dead_process_threads(sched)
      BY <2>1, <3>1, ExitOrder
    <3>2. CASE status' = status /\ sched' = sched
      <4> HIDE DEF S
      <4> QED
        BY <2>2, <3>2, SameSpares
    <3> QED
      BY <2>3, <3>1, <3>2 DEF Exit
  <2>5. S = {t \in Threads : sched.m_process[t] # p}
    BY DEF Others
  <2> HIDE DEF S
  <2> QED
    BY <2>4, <2>5 DEF Spared
<1>2. PInv => [A => P]_pvars
  BY <1>1
<1> QED
  BY <1>2, ProcessInvariant, PTL DEF ExitSparesOthers
=============================================================================
