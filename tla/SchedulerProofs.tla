-------------------------- MODULE SchedulerProofs --------------------------
(***************************************************************************)
(* Proofs about the modules Scheduler and Process.                         *)
(***************************************************************************)
EXTENDS Process, TLAPS, NaturalsInduction, WellFoundedInduction
-----------------------------------------------------------------------------
(* Queues.                                                                 *)

NoDup(q) == \A i, j \in DOMAIN q : q[i] = q[j] => i = j

(* Append links one more value.                                            *)
LEMMA AppendFacts ==
  ASSUME NEW T, NEW q \in Seq(T), NEW t \in T
  PROVE  /\ Append(q, t) \in Seq(T)
         /\ Linked(Append(q, t)) = Linked(q) \cup {t}
         /\ NoDup(q) /\ t \notin Linked(q) => NoDup(Append(q, t))
<1>1. Append(q, t) \in Seq(T)
  OBVIOUS
<1>2. Linked(Append(q, t)) = Linked(q) \cup {t}
  <2>1. /\ DOMAIN Append(q, t) = DOMAIN q \cup {Len(q) + 1}
        /\ \A i \in DOMAIN q : Append(q, t)[i] = q[i]
        /\ Append(q, t)[Len(q) + 1] = t
    OBVIOUS
  <2> QED
    BY <2>1 DEF Linked
<1>3. NoDup(q) /\ t \notin Linked(q) => NoDup(Append(q, t))
  BY DEF Linked, NoDup
<1> QED
  BY <1>1, <1>2, <1>3

(* Popping the head unlinks it.                                            *)
LEMMA TailFacts ==
  ASSUME NEW T, NEW q \in Seq(T), q # <<>>, NoDup(q)
  PROVE  /\ Head(q) \in T
         /\ Head(q) \in Linked(q)
         /\ Tail(q) \in Seq(T)
         /\ NoDup(Tail(q))
         /\ Linked(Tail(q)) = Linked(q) \ {Head(q)}
<1>1. Head(q) \in T /\ Tail(q) \in Seq(T) /\ Head(q) = q[1] /\ 1 \in DOMAIN q
  OBVIOUS
<1>2. \A i \in DOMAIN Tail(q) : i + 1 \in DOMAIN q /\ Tail(q)[i] = q[i + 1]
  OBVIOUS
<1>3. \A i \in DOMAIN q \ {1} : i - 1 \in DOMAIN Tail(q) /\ Tail(q)[i - 1] = q[i]
  OBVIOUS
<1>4. NoDup(Tail(q))
  BY <1>2 DEF NoDup
<1>5. Linked(Tail(q)) \subseteq Linked(q) \ {Head(q)}
  BY <1>1, <1>2 DEF NoDup, Linked
<1>6. Linked(q) \ {Head(q)} \subseteq Linked(Tail(q))
  BY <1>1, <1>3 DEF Linked
<1> QED
  BY <1>1, <1>4, <1>5, <1>6 DEF Linked

(* remove unlinks the value and nothing else.                              *)
LEMMA RemoveFacts ==
  ASSUME NEW T, NEW q \in Seq(T), NoDup(q), NEW t
  PROVE  /\ Remove(q, t) \in Seq(T)
         /\ NoDup(Remove(q, t))
         /\ Linked(Remove(q, t)) = Linked(q) \ {t}
<1>1. CASE t \notin Linked(q)
  BY <1>1 DEF Remove
<1>2. CASE t \in Linked(q)
  <2> DEFINE pos == CHOOSE i \in DOMAIN q : q[i] = t
             r   == [i \in 1 .. Len(q) - 1 |-> IF i < pos THEN q[i] ELSE q[i + 1]]
  <2>1. pos \in DOMAIN q /\ q[pos] = t
    BY <1>2 DEF Linked
  <2>2. Remove(q, t) = r
    BY <1>2 DEF Remove
  <2>3. pos \in 1 .. Len(q) /\ Len(q) \in Nat
    BY <2>1
  <2>4. \A i \in 1 .. Len(q) - 1 : r[i] \in T
    BY <2>3
  <2>5. r \in Seq(T) /\ DOMAIN r = 1 .. Len(q) - 1
    BY <2>3, <2>4
  <2> HIDE DEF pos
  <2>6. NoDup(r)
    BY <2>3 DEF NoDup
  <2>7. t \notin Linked(r)
    BY <2>1, <2>3 DEF NoDup, Linked
  <2>8. Linked(r) \subseteq Linked(q)
    BY <2>3 DEF Linked
  <2>9. ASSUME NEW k \in DOMAIN q, q[k] # t
        PROVE  q[k] \in Linked(r)
    <3>1. CASE k < pos
      BY <3>1, <2>3 DEF Linked
    <3>2. CASE k > pos
      <4>1. k - 1 \in DOMAIN r /\ r[k - 1] = q[k]
        BY <3>2, <2>3
      <4> QED BY <4>1 DEF Linked
    <3> QED
      BY <2>1, <2>3, <2>9, <3>1, <3>2
  <2> QED
    BY <2>2, <2>5, <2>6, <2>7, <2>8, <2>9 DEF Linked
<1> QED
  BY <1>1, <1>2
-----------------------------------------------------------------------------
(* The parts of the inductive invariant, as predicates of a scheduler      *)
(* record, so that they can be stated between the nested calls.  L is what *)
(* the scheduler was handed and T what it has not lost track of: all of    *)
(* Threads until an exit.                                                  *)

QueuesOK(s, T) ==
  /\ NoDup(s.ready_threads)
  /\ NoDup(s.waiting_queue)
  /\ Linked(s.ready_threads) \cap Linked(s.waiting_queue) = {}
  /\ \A t \in T : t \in Linked(s.waiting_queue) <=> s.state[t] \in {"Blocked", "Sleep"}

(* Only threads the scheduler was given are queued or run.                 *)
KnownOK(s, L) ==
  /\ Linked(s.ready_threads) \subseteq L
  /\ Linked(s.waiting_queue) \subseteq L
  /\ s.curr_thread \in L \cup {Idle}

RegistersOK(s) ==
  /\ s.m_process[Idle] = KernelProc
  /\ s.curr_thread # Idle => /\ s.rsp0 = s.curr_thread
                             /\ s.syscall_kernel_rsp = s.curr_thread
  /\ s.m_process[s.curr_thread] # KernelProc
       => s.cr3 = s.m_process[s.curr_thread]

Core(s, L, T) ==
  s \in SchedState /\ QueuesOK(s, T) /\ KnownOK(s, L) /\ RegistersOK(s)

CurrOut(s) ==
  /\ s.curr_thread \notin Linked(s.ready_threads)
  /\ s.curr_thread \notin Linked(s.waiting_queue)

(* What a thread that gives up the CPU has arranged before the switch.     *)
Replaceable(s) ==
  /\ s.state[s.curr_thread] # "Running"
  /\ s.ready_threads # <<>> => Head(s.ready_threads) # s.curr_thread

Depth(s, n) == s.task_switch_counter = n /\ s.disable_counter = n

SameLocks(r, s) ==
  /\ r.task_switch_counter = s.task_switch_counter
  /\ r.disable_counter = s.disable_counter
  /\ r.task_switch_postponed = s.task_switch_postponed

(* The idle thread is never queued.                                        *)
LEMMA IdleNotQueued ==
  ASSUME NEW s \in SchedState
  PROVE  Idle \notin Linked(s.ready_threads) /\ Idle \notin Linked(s.waiting_queue)
  BY ThreadsAssumption DEF SchedState, Linked

(* The fields add_ready_threads leaves, for a thread in any state.         *)
LEMMA AddReadyFields ==
  ASSUME NEW s \in SchedState, NEW t \in Threads
  PROVE  LET r == add_ready_threads(s, t)
         IN  /\ r \in SchedState
             /\ r.ready_threads = Append(s.ready_threads, t)
             /\ r.state = [s.state EXCEPT ![t] = "Ready"]
             /\ r.waiting_queue = s.waiting_queue
             /\ r.sleep_time = s.sleep_time
             /\ r.curr_thread = s.curr_thread
             /\ r.time_quantum_past = FALSE
             /\ \/ r.scheduled_time = s.scheduled_time
                \/ r.scheduled_time =
                     [s.scheduled_time EXCEPT ![t] = DEFAULT_SCHEDULE_TIME_MS]
<1> DEFINE f == [s.state EXCEPT ![t] = "Ready"]
           q == Append(s.ready_threads, t)
           g == [s.scheduled_time EXCEPT ![t] = DEFAULT_SCHEDULE_TIME_MS]
           r == add_ready_threads(s, t)
<1>1. /\ q \in Seq(Threads) /\ f \in [AllThreads -> ThreadState]
      /\ g \in [AllThreads -> 0 .. Word - 1]
  <2>1. /\ t \in AllThreads /\ s.ready_threads \in Seq(Threads)
        /\ s.state \in [AllThreads -> ThreadState]
        /\ s.scheduled_time \in [AllThreads -> 0 .. Word - 1]
    BY Zenon DEF SchedState, AllThreads
  <2>2. "Ready" \in ThreadState /\ DEFAULT_SCHEDULE_TIME_MS \in 0 .. Word - 1
    BY TimesAssumption DEF ThreadState
  <2> QED
    BY <2>1, <2>2
<1>2. CASE s.time_quantum_past
  <2>1. r = [s EXCEPT !.state = f, !.ready_threads = q, !.time_quantum_past = FALSE]
    BY <1>2 DEF add_ready_threads
  <2> HIDE DEF f, q
  <2>2. [s EXCEPT !.state = f, !.ready_threads = q, !.time_quantum_past = FALSE]
          \in SchedState
    BY <1>1, Zenon DEF SchedState
  <2>3. /\ r.ready_threads = q /\ r.state = f /\ r.waiting_queue = s.waiting_queue
        /\ r.curr_thread = s.curr_thread /\ r.time_quantum_past = FALSE
        /\ r.scheduled_time = s.scheduled_time /\ r.sleep_time = s.sleep_time
    BY <2>1 DEF SchedState
  <2> QED
    BY <2>1, <2>2, <2>3 DEF f, q
<1>3. CASE ~s.time_quantum_past
  <2>1. r = [s EXCEPT !.state = f, !.scheduled_time = g, !.ready_threads = q]
    BY <1>3 DEF add_ready_threads
  <2> HIDE DEF f, q, g
  <2>2. [s EXCEPT !.state = f, !.scheduled_time = g, !.ready_threads = q] \in SchedState
    BY <1>1, Zenon DEF SchedState
  <2>3. /\ r.ready_threads = q /\ r.state = f /\ r.waiting_queue = s.waiting_queue
        /\ r.curr_thread = s.curr_thread /\ r.time_quantum_past = s.time_quantum_past
        /\ r.scheduled_time = g /\ r.sleep_time = s.sleep_time
    BY <2>1 DEF SchedState
  <2>4. s.time_quantum_past = FALSE
    BY <1>3 DEF SchedState
  <2> QED
    BY <2>1, <2>2, <2>3, <2>4 DEF f, q, g
<1> QED
  BY <1>2, <1>3, Zenon

(* add_ready_threads of a thread that is in no queue.                      *)
Added(r, s, t, L, T) ==
  /\ Core(r, L, T)
  /\ Linked(r.ready_threads) = Linked(s.ready_threads) \cup {t}
  /\ r.waiting_queue = s.waiting_queue
  /\ r.curr_thread = s.curr_thread
  /\ r.m_process = s.m_process
  /\ r.elapsed = s.elapsed
  /\ SameLocks(r, s)

LEMMA AddReady ==
  ASSUME NEW T, NEW L, NEW s, NEW t, T \subseteq Threads, L \subseteq T,
         Core(s, L, T), t \in L,
         t \notin Linked(s.ready_threads), t \notin Linked(s.waiting_queue)
  PROVE  Added(add_ready_threads(s, t), s, t, L, T)
<1> DEFINE r == add_ready_threads(s, t)
<1>1. s \in SchedState /\ t \in Threads /\ s.ready_threads \in Seq(Threads)
  BY DEF Core, SchedState
<1>2. r \in SchedState
  BY <1>1, AddReadyFields, Zenon
<1>3. r.ready_threads = Append(s.ready_threads, t)
  BY <1>1 DEF add_ready_threads, SchedState
<1>4. /\ r.waiting_queue = s.waiting_queue /\ r.curr_thread = s.curr_thread
      /\ r.m_process = s.m_process /\ r.elapsed = s.elapsed
      /\ r.rsp0 = s.rsp0 /\ r.syscall_kernel_rsp = s.syscall_kernel_rsp
      /\ r.cr3 = s.cr3
      /\ r.state = [s.state EXCEPT ![t] = "Ready"]
      /\ SameLocks(r, s)
  BY <1>1 DEF add_ready_threads, SchedState, SameLocks
<1>5. /\ Linked(r.ready_threads) = Linked(s.ready_threads) \cup {t}
      /\ NoDup(r.ready_threads)
  BY <1>1, <1>3, AppendFacts DEF Core, QueuesOK
<1>6. QueuesOK(r, T)
  BY <1>1, <1>4, <1>5 DEF Core, QueuesOK, SchedState, AllThreads
<1>7. KnownOK(r, L) /\ RegistersOK(r)
  BY <1>4, <1>5 DEF Core, KnownOK, RegistersOK
<1> QED
  BY <1>2, <1>4, <1>5, <1>6, <1>7 DEF Core, Added

(* The requeue in switch_task: curr_thread is queued when it is preempted. *)
LEMMA Requeue ==
  ASSUME NEW T, NEW L, NEW s, T \subseteq Threads, L \subseteq T, Core(s, L, T),
         NEW next \in L \cup {Idle},
         next \notin Linked(s.waiting_queue), next \notin Linked(s.ready_threads),
         next # s.curr_thread \/ next = Idle,
         s.state[s.curr_thread] = "Running"
           => s.curr_thread \notin Linked(s.ready_threads)
  PROVE  LET r == requeue_running(s, next)
         IN  /\ Core(r, L, T)
             /\ next \notin Linked(r.ready_threads)
             /\ r.waiting_queue = s.waiting_queue
             /\ r.curr_thread = s.curr_thread
             /\ r.m_process = s.m_process
             /\ SameLocks(r, s)
<1> DEFINE c == s.curr_thread
           a == add_ready_threads(s, c)
           r == requeue_running(s, next)
<1>1. CASE s.state[c] = "Running" /\ c # Idle
  <2>1. c \in L /\ c \in Threads /\ c # next
    BY <1>1 DEF Core, KnownOK
  <2>2. c \notin Linked(s.waiting_queue)
    BY <1>1, <2>1 DEF Core, QueuesOK
  <2>3. /\ Core(a, L, T)
        /\ Linked(a.ready_threads) = Linked(s.ready_threads) \cup {c}
        /\ a.waiting_queue = s.waiting_queue
        /\ a.curr_thread = c
        /\ a.m_process = s.m_process
        /\ SameLocks(a, s)
    <3>1. Added(a, s, c, L, T)
      BY <1>1, <2>1, <2>2, AddReady
    <3> QED
      BY <3>1 DEF Added
  <2> HIDE DEF a
  <2>4. r = [a EXCEPT !.state = [a.state EXCEPT ![next] = "Running"]]
    BY <1>1 DEF requeue_running, a
  <2>5. a \in SchedState /\ next \in AllThreads
    BY <2>3 DEF Core, AllThreads
  <2>6. r \in SchedState
    <3>1. [a.state EXCEPT ![next] = "Running"] \in [AllThreads -> ThreadState]
      BY <2>5 DEF SchedState, ThreadState
    <3>2. [a EXCEPT !.state = [a.state EXCEPT ![next] = "Running"]] \in SchedState
      BY <2>5, <3>1, Zenon DEF SchedState
    <3> QED
      BY <2>4, <3>2
  <2>7. /\ r.waiting_queue = a.waiting_queue /\ r.curr_thread = a.curr_thread
        /\ r.m_process = a.m_process /\ r.ready_threads = a.ready_threads
        /\ r.rsp0 = a.rsp0 /\ r.syscall_kernel_rsp = a.syscall_kernel_rsp
        /\ r.cr3 = a.cr3
        /\ r.state = [a.state EXCEPT ![next] = "Running"]
        /\ SameLocks(r, a)
    BY <2>4, <2>5 DEF SchedState, SameLocks
  <2>8. QueuesOK(r, T)
    <3>1. \A t \in Threads : t # next => r.state[t] = a.state[t]
      BY <2>5, <2>7 DEF SchedState, AllThreads
    <3>2. r.state[next] = "Running"
      BY <2>5, <2>7 DEF SchedState
    <3> QED
      BY <2>3, <2>7, <3>1, <3>2 DEF Core, QueuesOK
  <2>9. KnownOK(r, L) /\ RegistersOK(r)
    BY <2>3, <2>7 DEF Core, KnownOK, RegistersOK
  <2> QED
    BY <2>1, <2>3, <2>6, <2>7, <2>8, <2>9 DEF Core, SameLocks
<1>2. CASE ~(s.state[c] = "Running" /\ c # Idle)
  BY <1>2 DEF requeue_running, SameLocks
<1> QED
  BY <1>1, <1>2

(* The assignments at the end of switch_task keep the record's type.       *)
LEMMA SwitchTyped ==
  ASSUME NEW s \in SchedState, NEW n \in AllThreads, NEW p \in Procs
  PROVE  [s EXCEPT !.rsp0 = n, !.syscall_kernel_rsp = n, !.cr3 = p,
                   !.curr_thread = n, !.elapsed = 0] \in SchedState
<1> DEFINE a == [s EXCEPT !.rsp0 = n]
           b == [a EXCEPT !.syscall_kernel_rsp = n]
           c == [b EXCEPT !.cr3 = p]
           d == [c EXCEPT !.curr_thread = n]
<1>1. a \in SchedState
  BY Zenon DEF SchedState
<1> HIDE DEF a
<1>2. b \in SchedState
  BY <1>1, Zenon DEF SchedState
<1> HIDE DEF b
<1>3. c \in SchedState
  BY <1>2, Zenon DEF SchedState
<1> HIDE DEF c
<1>4. d \in SchedState
  BY <1>3, Zenon DEF SchedState
<1> HIDE DEF d
<1>5. [d EXCEPT !.elapsed = 0] \in SchedState
  <2>1. 0 \in Nat
    OBVIOUS
  <2> QED
    BY <1>4, <2>1, Zenon DEF SchedState
<1> QED
  BY <1>5, Zenon DEF a, b, c, d

(* After switch_task the new curr_thread is outside both queues, on its    *)
(* own kernel stack and, if it is not a kernel thread, its own page map.   *)
SwitchedTo(r, s, L, T) ==
  /\ Core(r, L, T)
  /\ CurrOut(r)
  /\ r.waiting_queue = s.waiting_queue
  /\ r.elapsed = 0
  /\ SameLocks(r, s)

LEMMA Switch ==
  ASSUME NEW T, NEW L, NEW s, NEW next, T \subseteq Threads, L \subseteq T, Core(s, L, T),
         next \in L \cup {Idle},
         next \notin Linked(s.waiting_queue), next \notin Linked(s.ready_threads),
         next # s.curr_thread \/ next = Idle,
         s.state[s.curr_thread] = "Running"
           => s.curr_thread \notin Linked(s.ready_threads)
  PROVE  SwitchedTo(switch_task(s, next), s, L, T)
<1> DEFINE q == requeue_running(s, next)
           r == switch_task(s, next)
<1>1. /\ Core(q, L, T)
      /\ next \notin Linked(q.ready_threads)
      /\ q.waiting_queue = s.waiting_queue
      /\ q.curr_thread = s.curr_thread
      /\ q.m_process = s.m_process
      /\ SameLocks(q, s)
  BY Requeue
<1> HIDE DEF q
<1>2. q \in SchedState /\ next \in AllThreads /\ load_cr3(q, next) \in Procs
  <2>1. q \in SchedState /\ next \in AllThreads
    BY <1>1 DEF Core, AllThreads
  <2>2. q.cr3 \in Procs /\ q.m_process \in [AllThreads -> Procs]
    BY <2>1 DEF SchedState
  <2> QED
    BY <2>1, <2>2 DEF load_cr3
<1>3. CASE next = Idle
  <2>1. r = [q EXCEPT !.curr_thread = Idle, !.elapsed = 0]
    BY <1>3 DEF switch_task, q
  <2>2. r \in SchedState
    <3>1. [q EXCEPT !.curr_thread = Idle, !.elapsed = 0] \in SchedState
      BY <1>2, <1>3, Zenon DEF SchedState
    <3> QED
      BY <2>1, <3>1
  <2>3. /\ r.waiting_queue = q.waiting_queue /\ r.curr_thread = Idle
        /\ r.m_process = q.m_process /\ r.ready_threads = q.ready_threads
        /\ r.state = q.state /\ r.elapsed = 0
        /\ SameLocks(r, q)
    BY <1>2, <2>1 DEF SchedState, SameLocks
  <2>4. QueuesOK(r, T) /\ KnownOK(r, L) /\ RegistersOK(r)
    BY <1>1, <2>3 DEF Core, QueuesOK, KnownOK, RegistersOK
  <2> QED
    BY <1>1, <1>3, <2>2, <2>3, <2>4 DEF SwitchedTo, Core, CurrOut, SameLocks
<1>4. CASE next # Idle
  <2>1. r = [q EXCEPT !.rsp0 = next, !.syscall_kernel_rsp = next,
                      !.cr3 = load_cr3(q, next), !.curr_thread = next,
                      !.elapsed = 0]
    BY <1>4 DEF switch_task, q
  <2>2. r \in SchedState
    <3>1. [q EXCEPT !.rsp0 = next, !.syscall_kernel_rsp = next,
                    !.cr3 = load_cr3(q, next), !.curr_thread = next,
                    !.elapsed = 0] \in SchedState
      BY <1>2, SwitchTyped, Zenon
    <3> QED
      BY <2>1, <3>1
  <2>3. /\ r.waiting_queue = q.waiting_queue /\ r.curr_thread = next
        /\ r.m_process = q.m_process /\ r.ready_threads = q.ready_threads
        /\ r.state = q.state /\ r.elapsed = 0
        /\ r.rsp0 = next /\ r.syscall_kernel_rsp = next
        /\ r.cr3 = load_cr3(q, next)
        /\ SameLocks(r, q)
    BY <1>2, <2>1 DEF SchedState, SameLocks
  <2>4. QueuesOK(r, T) /\ KnownOK(r, L)
    BY <1>1, <2>3 DEF Core, QueuesOK, KnownOK
  <2>5. RegistersOK(r)
    BY <1>1, <2>3 DEF Core, RegistersOK, load_cr3
  <2> QED
    BY <1>1, <2>2, <2>3, <2>4, <2>5 DEF SwitchedTo, Core, CurrOut, SameLocks
<1> QED
  BY <1>3, <1>4

(* So does a change of the ready queue and of the states.                  *)
LEMMA QueueTyped ==
  ASSUME NEW s \in SchedState, NEW q \in Seq(Threads),
         NEW f \in [AllThreads -> ThreadState]
  PROVE  [s EXCEPT !.ready_threads = q, !.state = f] \in SchedState
  BY Zenon DEF SchedState

(* Charging a quantum touches nothing but one slice.                       *)
Charged(r, s) ==
  /\ r \in SchedState
  /\ r.ready_threads = s.ready_threads
  /\ r.waiting_queue = s.waiting_queue
  /\ r.sleep_time = s.sleep_time
  /\ r.curr_thread = s.curr_thread
  /\ r.state = s.state
  /\ r.m_process = s.m_process /\ r.cr3 = s.cr3
  /\ r.rsp0 = s.rsp0 /\ r.syscall_kernel_rsp = s.syscall_kernel_rsp
  /\ SameLocks(r, s)

LEMMA ChargeFields ==
  ASSUME NEW s \in SchedState
  PROVE  Charged(charge_quantum(s), s)
<1> DEFINE c    == s.curr_thread
           left == (s.scheduled_time[c] - DEFAULT_TIME_QUANTUM) % Word
           new  == IF left = 0 THEN DEFAULT_SCHEDULE_TIME_MS ELSE left
           r    == charge_quantum(s)
<1>1. c \in AllThreads /\ s.scheduled_time[c] \in Int
  BY DEF SchedState
<1>2. CASE s.time_quantum_past
  <2>1. left \in 0 .. Word - 1
    <3>1. Word \in Nat /\ Word > 0 /\ s.scheduled_time[c] - DEFAULT_TIME_QUANTUM \in Int
      BY <1>1, TimesAssumption
    <3> QED
      BY <3>1
  <2>2. new \in 0 .. Word - 1
    BY <2>1, TimesAssumption
  <2> HIDE DEF left, new
  <2>3. r = [s EXCEPT !.scheduled_time = [s.scheduled_time EXCEPT ![c] = new]]
    BY <1>2 DEF charge_quantum, left, new
  <2>4. [s.scheduled_time EXCEPT ![c] = new] \in [AllThreads -> 0 .. Word - 1]
    BY <1>1, <2>2 DEF SchedState
  <2>5. r \in SchedState
    <3>1. [s EXCEPT !.scheduled_time = [s.scheduled_time EXCEPT ![c] = new]]
             \in SchedState
      BY <1>1, <2>4, Zenon DEF SchedState
    <3> QED
      BY <2>3, <3>1
  <2>6. /\ r.ready_threads = s.ready_threads /\ r.waiting_queue = s.waiting_queue
        /\ r.curr_thread = s.curr_thread /\ r.state = s.state
        /\ r.sleep_time = s.sleep_time
        /\ r.m_process = s.m_process /\ r.cr3 = s.cr3
        /\ r.rsp0 = s.rsp0 /\ r.syscall_kernel_rsp = s.syscall_kernel_rsp
        /\ SameLocks(r, s)
    BY <1>1, <2>3 DEF SchedState, SameLocks
  <2> HIDE DEF r
  <2> QED
    BY <2>5, <2>6 DEF Charged, r
<1>3. CASE ~s.time_quantum_past
  <2>1. r = s
    BY <1>3 DEF charge_quantum
  <2> HIDE DEF r
  <2> QED
    BY <2>1 DEF Charged, SameLocks, r
<1> QED
  BY <1>2, <1>3

LEMMA Charge ==
  ASSUME NEW T, NEW L, NEW s, Core(s, L, T)
  PROVE  LET r == charge_quantum(s)
         IN  /\ Core(r, L, T)
             /\ r.ready_threads = s.ready_threads
             /\ r.waiting_queue = s.waiting_queue
             /\ r.curr_thread = s.curr_thread
             /\ r.state = s.state
             /\ SameLocks(r, s)
<1> DEFINE r == charge_quantum(s)
<1>1. Charged(r, s)
  BY ChargeFields DEF Core
<1> HIDE DEF r
<1>2. QueuesOK(r, T) /\ KnownOK(r, L) /\ RegistersOK(r)
  BY <1>1 DEF Charged, Core, QueuesOK, KnownOK, RegistersOK
<1> QED
  BY <1>1, <1>2 DEF Charged, Core, r

(* The head of the ready queue leaves it, and is marked Running.           *)
LEMMA TakeHead ==
  ASSUME NEW T, NEW L, NEW s, T \subseteq Threads, L \subseteq T, Core(s, L, T),
         CurrOut(s) \/ Replaceable(s), s.ready_threads # <<>>
  PROVE  LET d == take_head(charge_quantum(s))
             n == Head(s.ready_threads)
         IN  /\ Core(d, L, T) /\ SameLocks(d, s)
             /\ n \in L \cup {Idle} /\ n # d.curr_thread
             /\ n \notin Linked(d.ready_threads)
             /\ n \notin Linked(d.waiting_queue)
             /\ d.state[d.curr_thread] = "Running"
                  => d.curr_thread \notin Linked(d.ready_threads)
<1> DEFINE u    == charge_quantum(s)
           next == Head(u.ready_threads)
           d    == [u EXCEPT !.ready_threads = Tail(u.ready_threads),
                             !.state = [u.state EXCEPT ![next] = "Running"]]
<1>1. /\ Core(u, L, T)
      /\ u.ready_threads = s.ready_threads
      /\ u.waiting_queue = s.waiting_queue
      /\ u.curr_thread = s.curr_thread
      /\ u.state = s.state
      /\ SameLocks(u, s)
  BY Charge
<1> HIDE DEF u
<1>2. /\ u \in SchedState /\ NoDup(u.ready_threads)
      /\ u.ready_threads \in Seq(Threads) /\ u.ready_threads # <<>>
  <2>1. u \in SchedState /\ NoDup(u.ready_threads)
    BY <1>1 DEF Core, QueuesOK
  <2>2. u.ready_threads \in Seq(Threads)
    BY <2>1 DEF SchedState
  <2> QED
    BY <1>1, <2>1, <2>2
<1>3. /\ next \in Threads /\ next \in Linked(u.ready_threads)
      /\ Tail(u.ready_threads) \in Seq(Threads) /\ NoDup(Tail(u.ready_threads))
      /\ Linked(Tail(u.ready_threads)) = Linked(u.ready_threads) \ {next}
  BY <1>2, TailFacts
<1>4. next \in L /\ next # u.curr_thread /\ next \notin Linked(u.waiting_queue)
  BY <1>1, <1>3 DEF Core, KnownOK, QueuesOK, CurrOut, Replaceable
<1> HIDE DEF next
<1>5. d \in SchedState
  <2>1. [u.state EXCEPT ![next] = "Running"] \in [AllThreads -> ThreadState]
    <3>1. u.state \in [AllThreads -> ThreadState]
      BY <1>2, Zenon DEF SchedState
    <3>2. "Running" \in ThreadState
      BY DEF ThreadState
    <3> QED
      BY <3>1, <3>2, Zenon
  <2> QED
    BY <1>2, <1>3, <2>1, QueueTyped, Zenon
<1>6. /\ d.ready_threads = Tail(u.ready_threads)
      /\ d.waiting_queue = u.waiting_queue /\ d.curr_thread = u.curr_thread
      /\ d.m_process = u.m_process /\ d.cr3 = u.cr3
      /\ d.rsp0 = u.rsp0 /\ d.syscall_kernel_rsp = u.syscall_kernel_rsp
      /\ d.state = [u.state EXCEPT ![next] = "Running"]
      /\ SameLocks(d, u)
  BY <1>2 DEF SchedState, SameLocks
<1>7. /\ \A t \in AllThreads : t # next => d.state[t] = u.state[t]
      /\ d.state[next] = "Running"
  BY <1>2, <1>3, <1>6 DEF SchedState, AllThreads
<1> HIDE DEF d
<1>8. Core(d, L, T)
  <2>1. QueuesOK(d, T)
    BY <1>1, <1>3, <1>4, <1>6, <1>7 DEF Core, QueuesOK, AllThreads
  <2>2. KnownOK(d, L) /\ RegistersOK(d)
    BY <1>1, <1>3, <1>6 DEF Core, KnownOK, RegistersOK
  <2> QED
    BY <1>5, <2>1, <2>2 DEF Core
<1>9. d.curr_thread \in AllThreads /\ d.state[d.curr_thread] = s.state[s.curr_thread]
  BY <1>1, <1>4, <1>5, <1>6, <1>7 DEF SchedState
<1>10. d.state[d.curr_thread] = "Running"
         => d.curr_thread \notin Linked(d.ready_threads)
  BY <1>1, <1>3, <1>6, <1>9 DEF CurrOut, Replaceable
<1>11. /\ next \in L \cup {Idle} /\ next # d.curr_thread
       /\ next \notin Linked(d.ready_threads)
       /\ next \notin Linked(d.waiting_queue)
  BY <1>3, <1>4, <1>6
<1>12. SameLocks(d, s)
  BY <1>1, <1>6 DEF SameLocks
<1>13. take_head(charge_quantum(s)) = d /\ Head(s.ready_threads) = next
  BY <1>1 DEF take_head, d, next, u
<1> QED
  BY <1>8, <1>10, <1>11, <1>12, <1>13

(* schedule() with the lock free picks a thread that is in no queue.       *)
LEMMA Reschedule ==
  ASSUME NEW T, NEW L, NEW s, T \subseteq Threads, L \subseteq T, Core(s, L, T),
         s.task_switch_counter = 0,
         CurrOut(s) \/ Replaceable(s)
  PROVE  LET r == schedule(s)
         IN  Core(r, L, T) /\ CurrOut(r) /\ r.elapsed = 0 /\ SameLocks(r, s)
<1> DEFINE r == schedule(s)
<1>1. s \in SchedState
  BY DEF Core
<1>2. CASE s.ready_threads = <<>>
  <2>1. r = switch_task(s, Idle)
    BY <1>2 DEF schedule
  <2>2. s.curr_thread \notin Linked(s.ready_threads)
    BY <1>2 DEF Linked
  <2>3. /\ Idle \in L \cup {Idle} /\ Idle \notin Linked(s.waiting_queue)
        /\ Idle \notin Linked(s.ready_threads)
    BY <1>1, IdleNotQueued
  <2>4. SwitchedTo(r, s, L, T)
    BY <2>1, <2>2, <2>3, Switch
  <2> QED
    BY <2>4 DEF SwitchedTo
<1>3. CASE s.ready_threads # <<>>
  <2> DEFINE d    == take_head(charge_quantum(s))
             next == Head(s.ready_threads)
  <2>1. /\ Core(d, L, T) /\ SameLocks(d, s)
        /\ next \in L \cup {Idle} /\ next # d.curr_thread
        /\ next \notin Linked(d.ready_threads)
        /\ next \notin Linked(d.waiting_queue)
        /\ d.state[d.curr_thread] = "Running"
             => d.curr_thread \notin Linked(d.ready_threads)
    BY <1>3, TakeHead
  <2>2. r = switch_task(d, next)
    <3>1. charge_quantum(s).ready_threads = s.ready_threads
      BY Charge
    <3> QED
      BY <1>3, <3>1 DEF schedule, dispatch_head, take_head
  <2> HIDE DEF d, next
  <2>3. SwitchedTo(switch_task(d, next), d, L, T)
    BY <2>1, Switch
  <2> QED
    BY <2>1, <2>2, <2>3 DEF SwitchedTo, SameLocks
<1> QED
  BY <1>2, <1>3

(* What holds under the lock: curr_thread may be queued only when a switch *)
(* is owed, and then it can be replaced.                                   *)
Locked(s, L, T) ==
  /\ Core(s, L, T)
  /\ CurrOut(s) \/ (s.task_switch_postponed /\ Replaceable(s))

(* The changes of the lock counters and of the flags touch nothing else.   *)
SameQueues(r, s) ==
  /\ r.ready_threads = s.ready_threads
  /\ r.waiting_queue = s.waiting_queue
  /\ r.state = s.state
  /\ r.curr_thread = s.curr_thread

SameRest(r, s) ==
  /\ r.m_process = s.m_process
  /\ r.cr3 = s.cr3
  /\ r.rsp0 = s.rsp0
  /\ r.syscall_kernel_rsp = s.syscall_kernel_rsp

(* The invariant depends on these fields only.                             *)
LEMMA SameCore ==
  ASSUME NEW T, NEW L, NEW s, Core(s, L, T), NEW r \in SchedState,
         SameQueues(r, s), SameRest(r, s)
  PROVE  /\ Core(r, L, T)
         /\ CurrOut(s) <=> CurrOut(r)
         /\ Replaceable(s) <=> Replaceable(r)
<1>1. QueuesOK(r, T) /\ KnownOK(r, L) /\ RegistersOK(r)
  BY DEF Core, QueuesOK, KnownOK, RegistersOK, SameQueues, SameRest
<1> QED
  BY <1>1 DEF Core, CurrOut, Replaceable, SameQueues

(* lock_scheduler on a free lock, and nested once.                         *)
LEMMA Lock ==
  ASSUME NEW T, NEW L, NEW s, Core(s, L, T), NEW n \in 0 .. 1, Depth(s, n)
  PROVE  LET r == lock_scheduler(s)
         IN  /\ Core(r, L, T)
             /\ CurrOut(s) <=> CurrOut(r)
             /\ SameQueues(r, s)
             /\ r.sleep_time = s.sleep_time
             /\ r.elapsed = s.elapsed
             /\ Depth(r, n + 1)
             /\ r.task_switch_postponed = s.task_switch_postponed
<1> DEFINE r == lock_scheduler(s)
           m == n + 1
<1>1. s \in SchedState /\ m \in 0 .. 255 /\ m % 256 = m
  BY DEF Core
<1>2. r = [s EXCEPT !.disable_counter = m, !.task_switch_counter = m]
  BY <1>1, Zenon DEF lock_scheduler, Depth
<1>3. [s EXCEPT !.disable_counter = m, !.task_switch_counter = m] \in SchedState
  BY <1>1, Zenon DEF SchedState
<1> HIDE DEF r, m
<1>4. /\ SameQueues(r, s) /\ SameRest(r, s) /\ r.sleep_time = s.sleep_time
      /\ r.elapsed = s.elapsed
      /\ r.task_switch_counter = m /\ r.disable_counter = m
      /\ r.task_switch_postponed = s.task_switch_postponed
  BY <1>1, <1>2 DEF SchedState, SameQueues, SameRest
<1>5. Core(r, L, T) /\ (CurrOut(s) <=> CurrOut(r))
  BY <1>2, <1>3, <1>4, SameCore
<1> QED
  BY <1>4, <1>5 DEF Depth, r, m

(* unlock_scheduler of a nested lock: no switch happens.                   *)
LEMMA UnlockNested ==
  ASSUME NEW T, NEW L, NEW s, Core(s, L, T), Depth(s, 2)
  PROVE  LET r == unlock_scheduler(s)
         IN  /\ Core(r, L, T)
             /\ CurrOut(s) <=> CurrOut(r)
             /\ SameQueues(r, s)
             /\ r.sleep_time = s.sleep_time
             /\ r.elapsed = s.elapsed
             /\ Depth(r, 1)
             /\ r.task_switch_postponed = s.task_switch_postponed
<1> DEFINE r == unlock_scheduler(s)
           u == [s EXCEPT !.task_switch_counter = 1]
           z == [u EXCEPT !.disable_counter = 1]
<1>1. s \in SchedState /\ 1 \in 0 .. 255 /\ (2 - 1) % 256 = 1
  BY DEF Core
<1>2. r = z
  <2>1. [s EXCEPT !.task_switch_counter = (s.task_switch_counter - 1) % 256] = u
    BY <1>1 DEF Depth
  <2>2. u.task_switch_counter = 1 /\ u.disable_counter = 2
    BY <1>1 DEF SchedState, Depth
  <2> HIDE DEF u
  <2>3. switch_if_owed(u) = u
    BY <2>2 DEF switch_if_owed
  <2> QED
    BY <1>1, <2>1, <2>2, <2>3 DEF unlock_scheduler
<1>3. z \in SchedState
  BY <1>1, Zenon DEF SchedState
<1>4. /\ SameQueues(z, s) /\ SameRest(z, s) /\ z.sleep_time = s.sleep_time
      /\ z.elapsed = s.elapsed
      /\ z.task_switch_counter = 1 /\ z.disable_counter = 1
      /\ z.task_switch_postponed = s.task_switch_postponed
  BY <1>1 DEF SchedState, SameQueues, SameRest
<1> HIDE DEF r, z
<1>5. Core(z, L, T) /\ (CurrOut(s) <=> CurrOut(z))
  BY <1>3, <1>4, SameCore
<1> QED
  BY <1>2, <1>4, <1>5 DEF Depth, r

(* The last unlock_scheduler does the switch that is owed.                 *)
LEMMA UnlockLast ==
  ASSUME NEW T, NEW L, NEW s, T \subseteq Threads, L \subseteq T, Locked(s, L, T), Depth(s, 1)
  PROVE  LET r == unlock_scheduler(s)
         IN  /\ Core(r, L, T)
             /\ CurrOut(r)
             /\ Depth(r, 0)
             /\ ~r.task_switch_postponed
             /\ r.elapsed = IF s.task_switch_postponed THEN 0 ELSE s.elapsed
<1> DEFINE r == unlock_scheduler(s)
           u == [s EXCEPT !.task_switch_counter = 0]
           v == [u EXCEPT !.task_switch_postponed = FALSE]
           w == switch_if_owed(u)
           z == [w EXCEPT !.disable_counter = 0]
<1>1. Core(s, L, T) /\ s \in SchedState /\ 0 \in 0 .. 255 /\ (1 - 1) % 256 = 0
  BY DEF Core, Locked
<1>2. u \in SchedState
  BY <1>1, Zenon DEF SchedState
<1>3. /\ SameQueues(u, s) /\ SameRest(u, s) /\ u.elapsed = s.elapsed
      /\ u.task_switch_counter = 0 /\ u.disable_counter = 1
      /\ u.task_switch_postponed = s.task_switch_postponed
  BY <1>1 DEF SchedState, SameQueues, SameRest, Depth
<1>4. r = [w EXCEPT !.disable_counter = (w.disable_counter - 1) % 256]
  BY <1>1 DEF unlock_scheduler, Depth
<1> HIDE DEF u
<1>5. /\ Core(u, L, T) /\ (CurrOut(s) <=> CurrOut(u))
      /\ (Replaceable(s) <=> Replaceable(u))
  BY <1>1, <1>2, <1>3, SameCore
<1>6. /\ Core(w, L, T) /\ CurrOut(w)
      /\ w.task_switch_counter = 0 /\ w.disable_counter = 1
      /\ ~w.task_switch_postponed
      /\ w.elapsed = IF s.task_switch_postponed THEN 0 ELSE s.elapsed
  <2>1. CASE s.task_switch_postponed
    <3>1. w = schedule(v)
      BY <1>3, <2>1 DEF switch_if_owed
    <3>2. v \in SchedState
      BY <1>2, Zenon DEF SchedState
    <3>3. /\ SameQueues(v, u) /\ SameRest(v, u)
          /\ v.task_switch_counter = u.task_switch_counter
          /\ v.disable_counter = u.disable_counter
          /\ v.task_switch_postponed = FALSE
      BY <1>2 DEF SchedState, SameQueues, SameRest
    <3> HIDE DEF v, w
    <3>4. /\ Core(v, L, T) /\ (CurrOut(u) <=> CurrOut(v))
          /\ (Replaceable(u) <=> Replaceable(v))
      BY <1>5, <3>2, <3>3, SameCore
    <3>5. CurrOut(v) \/ Replaceable(v)
      BY <1>5, <3>4 DEF Locked
    <3>6. Core(w, L, T) /\ CurrOut(w) /\ w.elapsed = 0 /\ SameLocks(w, v)
      BY <1>3, <3>1, <3>3, <3>4, <3>5, Reschedule
    <3> QED
      BY <1>3, <2>1, <3>3, <3>6 DEF SameLocks
  <2>2. CASE ~s.task_switch_postponed
    <3>1. w = u
      BY <1>3, <2>2 DEF switch_if_owed
    <3> QED
      BY <1>3, <1>5, <2>2, <3>1 DEF Locked
  <2> QED
    BY <2>1, <2>2
<1> HIDE DEF w
<1>7. r = z
  BY <1>1, <1>4, <1>6
<1>8. w \in SchedState /\ z \in SchedState
  <2>1. w \in SchedState
    BY <1>6 DEF Core
  <2>2. z \in SchedState
    BY <1>1, <2>1, Zenon DEF SchedState
  <2> QED
    BY <2>1, <2>2
<1>9. /\ SameQueues(z, w) /\ SameRest(z, w) /\ z.elapsed = w.elapsed
      /\ z.task_switch_counter = w.task_switch_counter /\ z.disable_counter = 0
      /\ z.task_switch_postponed = w.task_switch_postponed
  BY <1>8 DEF SchedState, SameQueues, SameRest
<1> HIDE DEF z
<1>10. Core(z, L, T) /\ (CurrOut(w) <=> CurrOut(z))
  BY <1>6, <1>8, <1>9, SameCore
<1> QED
  BY <1>6, <1>7, <1>9, <1>10 DEF Depth

(* unpark keeps the record's type.                                         *)
LEMMA UnparkTyped ==
  ASSUME NEW s \in SchedState, NEW q \in Seq(Threads),
         NEW g \in [AllThreads -> 0 .. Word - 1],
         NEW f \in [AllThreads -> ThreadState]
  PROVE  [s EXCEPT !.waiting_queue = q, !.sleep_time = g, !.state = f] \in SchedState
  BY Zenon DEF SchedState

(* The body of unblock, under the lock.                                    *)
Woken(r, s, task, L, T) ==
  /\ Core(r, L, T)
  /\ CurrOut(r)
  /\ SameLocks(r, s)
  /\ Linked(r.waiting_queue) = Linked(s.waiting_queue) \ {task}
  /\ r.elapsed \in {0, s.elapsed}

unblock_body(s, task) ==
  LET p == unpark(s, task)
  IN  IF p.ready_threads = <<>> /\ p.curr_thread = Idle
      THEN switch_task(p, task)
      ELSE [p EXCEPT !.ready_threads = Append(p.ready_threads, task)]

LEMMA UnblockBody ==
  ASSUME NEW T, NEW L, NEW s, NEW task, T \subseteq Threads, L \subseteq T,
         Core(s, L, T), CurrOut(s),
         task \in Linked(s.waiting_queue)
  PROVE  Woken(unblock_body(s, task), s, task, L, T)
<1> DEFINE p == unpark(s, task)
           a == [p EXCEPT !.ready_threads = Append(p.ready_threads, task)]
<1>1. /\ s \in SchedState /\ s.waiting_queue \in Seq(Threads)
      /\ NoDup(s.waiting_queue)
  BY DEF Core, QueuesOK, SchedState
<1>2. /\ task \in L /\ task \in Threads /\ task \in AllThreads
      /\ task # Idle /\ task # s.curr_thread
      /\ task \notin Linked(s.ready_threads)
  BY ThreadsAssumption DEF Core, KnownOK, QueuesOK, CurrOut, AllThreads
<1>3. /\ Remove(s.waiting_queue, task) \in Seq(Threads)
      /\ NoDup(Remove(s.waiting_queue, task))
      /\ Linked(Remove(s.waiting_queue, task)) = Linked(s.waiting_queue) \ {task}
  BY <1>1, RemoveFacts
<1>4. p = [s EXCEPT !.waiting_queue = Remove(s.waiting_queue, task),
                    !.sleep_time = [s.sleep_time EXCEPT ![task] = 0],
                    !.state = [s.state EXCEPT ![task] = "Ready"]]
  BY DEF unpark
<1>5. p \in SchedState
  <2>1. /\ [s.sleep_time EXCEPT ![task] = 0] \in [AllThreads -> 0 .. Word - 1]
        /\ [s.state EXCEPT ![task] = "Ready"] \in [AllThreads -> ThreadState]
    BY <1>1, <1>2, TimesAssumption DEF SchedState, ThreadState
  <2>2. [s EXCEPT !.waiting_queue = Remove(s.waiting_queue, task),
                  !.sleep_time = [s.sleep_time EXCEPT ![task] = 0],
                  !.state = [s.state EXCEPT ![task] = "Ready"]] \in SchedState
    BY <1>1, <1>3, <2>1, UnparkTyped, Zenon
  <2> QED
    BY <1>4, <2>2
<1>6. /\ p.ready_threads = s.ready_threads
      /\ p.waiting_queue = Remove(s.waiting_queue, task)
      /\ p.curr_thread = s.curr_thread /\ p.elapsed = s.elapsed
      /\ SameRest(p, s) /\ SameLocks(p, s)
      /\ p.state[task] = "Ready"
      /\ \A t \in AllThreads : t # task => p.state[t] = s.state[t]
  BY <1>1, <1>2, <1>4 DEF SchedState, SameRest, SameLocks
<1> HIDE DEF p
<1>7. Core(p, L, T)
  <2>1. QueuesOK(p, T)
    BY <1>3, <1>6 DEF Core, QueuesOK, AllThreads
  <2>2. KnownOK(p, L) /\ RegistersOK(p)
    BY <1>3, <1>6 DEF Core, KnownOK, RegistersOK, SameRest
  <2> QED
    BY <1>5, <2>1, <2>2 DEF Core
<1>8. CASE p.ready_threads = <<>> /\ p.curr_thread = Idle
  <2> DEFINE r == switch_task(p, task)
  <2>1. Idle \notin Linked(p.ready_threads)
    BY <1>5, IdleNotQueued
  <2>2. /\ task \notin Linked(p.waiting_queue) /\ task \notin Linked(p.ready_threads)
        /\ task # p.curr_thread /\ task \in L \cup {Idle}
    BY <1>2, <1>3, <1>6
  <2>3. /\ Core(r, L, T) /\ CurrOut(r) /\ r.waiting_queue = p.waiting_queue
        /\ r.elapsed = 0 /\ SameLocks(r, p)
    <3>1. p.curr_thread \notin Linked(p.ready_threads)
      BY <1>8, <2>1
    <3>2. SwitchedTo(r, p, L, T)
      BY <1>7, <2>2, <3>1, Switch
    <3> QED
      BY <3>2 DEF SwitchedTo
  <2> QED
    BY <1>3, <1>6, <1>8, <2>3 DEF Woken, unblock_body, SameLocks, p
<1>9. CASE ~(p.ready_threads = <<>> /\ p.curr_thread = Idle)
  <2>1. /\ p.ready_threads \in Seq(Threads) /\ NoDup(p.ready_threads)
        /\ task \notin Linked(p.ready_threads)
    BY <1>2, <1>5, <1>6, <1>7 DEF SchedState, Core, QueuesOK
  <2>2. /\ Append(p.ready_threads, task) \in Seq(Threads)
        /\ Linked(Append(p.ready_threads, task)) = Linked(p.ready_threads) \cup {task}
        /\ NoDup(Append(p.ready_threads, task))
    BY <1>2, <2>1, AppendFacts
  <2>3. a \in SchedState
    BY <1>5, <2>2, Zenon DEF SchedState
  <2>4. /\ a.ready_threads = Append(p.ready_threads, task)
        /\ a.waiting_queue = p.waiting_queue /\ a.state = p.state
        /\ a.curr_thread = p.curr_thread /\ a.elapsed = p.elapsed
        /\ SameRest(a, p) /\ SameLocks(a, p)
    BY <1>5 DEF SchedState, SameRest, SameLocks
  <2> HIDE DEF a
  <2>5. QueuesOK(a, T)
    <3>1. QueuesOK(p, T) /\ task \notin Linked(p.waiting_queue)
      BY <1>3, <1>6, <1>7 DEF Core
    <3>2. NoDup(a.ready_threads) /\ NoDup(a.waiting_queue)
      BY <2>2, <2>4, <3>1 DEF QueuesOK
    <3>3. Linked(a.ready_threads) \cap Linked(a.waiting_queue) = {}
      BY <2>2, <2>4, <3>1 DEF QueuesOK
    <3>4. \A t \in T : t \in Linked(a.waiting_queue) <=> a.state[t] \in {"Blocked", "Sleep"}
      BY <2>4, <3>1 DEF QueuesOK
    <3> QED
      BY <3>2, <3>3, <3>4 DEF QueuesOK
  <2>6. KnownOK(a, L) /\ RegistersOK(a)
    BY <1>2, <1>7, <2>2, <2>4 DEF Core, KnownOK, RegistersOK, SameRest
  <2>7. CurrOut(a)
    BY <1>2, <1>3, <1>6, <2>2, <2>4 DEF CurrOut
  <2> QED
    BY <1>3, <1>6, <1>9, <2>3, <2>4, <2>5, <2>6, <2>7 
       DEF Woken, unblock_body, Core, SameLocks, p, a
<1> QED
  BY <1>8, <1>9

(* unblock called from pit_irq_handler, which holds the lock.              *)
WokenNested(r, s, task, L, T) ==
  /\ Core(r, L, T)
  /\ CurrOut(r)
  /\ Depth(r, 1)
  /\ r.task_switch_postponed = s.task_switch_postponed
  /\ Linked(r.waiting_queue) = Linked(s.waiting_queue) \ {task}
  /\ r.elapsed \in {0, s.elapsed}

LEMMA UnblockNested ==
  ASSUME NEW T, NEW L, NEW s, NEW task, T \subseteq Threads, L \subseteq T,
         Core(s, L, T), CurrOut(s), Depth(s, 1),
         task \in Linked(s.waiting_queue)
  PROVE  WokenNested(unblock(s, task), s, task, L, T)
<1> DEFINE l == lock_scheduler(s)
           b == unblock_body(l, task)
           r == unlock_scheduler(b)
<1>1. /\ Core(l, L, T) /\ CurrOut(l) /\ SameQueues(l, s) /\ l.elapsed = s.elapsed
      /\ Depth(l, 2) /\ l.task_switch_postponed = s.task_switch_postponed
  BY Lock
<1>2. task \in Linked(l.waiting_queue)
  BY <1>1 DEF SameQueues
<1>3. unblock(s, task) = r
  BY DEF unblock, unblock_body
<1> HIDE DEF l
<1>4. /\ Core(b, L, T) /\ CurrOut(b) /\ SameLocks(b, l)
      /\ Linked(b.waiting_queue) = Linked(l.waiting_queue) \ {task}
      /\ b.elapsed \in {0, l.elapsed}
  <2>1. Woken(b, l, task, L, T)
    BY <1>1, <1>2, UnblockBody
  <2> QED
    BY <2>1 DEF Woken
<1> HIDE DEF b
<1>5. Depth(b, 2)
  BY <1>1, <1>4 DEF Depth, SameLocks
<1>6. /\ Core(r, L, T) /\ CurrOut(r) /\ SameQueues(r, b) /\ r.elapsed = b.elapsed
      /\ Depth(r, 1) /\ r.task_switch_postponed = b.task_switch_postponed
  BY <1>4, <1>5, UnlockNested
<1> HIDE DEF r
<1>7. r.task_switch_postponed = s.task_switch_postponed
  BY <1>1, <1>4, <1>6 DEF SameLocks
<1>8. /\ Linked(r.waiting_queue) = Linked(s.waiting_queue) \ {task}
      /\ r.elapsed \in {0, s.elapsed}
  BY <1>1, <1>4, <1>6 DEF SameQueues
<1> QED
  BY <1>3, <1>6, <1>7, <1>8 DEF WokenNested

(* One turn of the loop over waiting_queue.                                *)
TurnDone(r, s, t, L, T) ==
  /\ Core(r, L, T)
  /\ CurrOut(r)
  /\ Depth(r, 1)
  /\ r.task_switch_postponed = s.task_switch_postponed
  /\ Linked(s.waiting_queue) \ {t} \subseteq Linked(r.waiting_queue)
  /\ r.elapsed \in {0, s.elapsed}

LEMMA WakeOne ==
  ASSUME NEW T, NEW L, NEW s, NEW t, T \subseteq Threads, L \subseteq T,
         Core(s, L, T), CurrOut(s), Depth(s, 1), t \in Linked(s.waiting_queue)
  PROVE  TurnDone(wake_one(s, t), s, t, L, T)
<1> DEFINE left == IF s.sleep_time[t] > 0 THEN s.sleep_time[t] - 1 ELSE 0
           g    == [s.sleep_time EXCEPT ![t] = left]
           d    == [s EXCEPT !.sleep_time = g]
           r    == wake_one(s, t)
<1>1. s \in SchedState /\ t \in AllThreads
  BY DEF Core, KnownOK, AllThreads
<1>2. g \in [AllThreads -> 0 .. Word - 1]
  <2>1. s.sleep_time \in [AllThreads -> 0 .. Word - 1]
    BY <1>1 DEF SchedState
  <2>2. left \in 0 .. Word - 1
    BY <1>1, <2>1, TimesAssumption
  <2> HIDE DEF left
  <2> QED
    BY <2>1, <2>2, Zenon
<1>3. r = IF s.state[t] = "Blocked" THEN s ELSE IF left = 0 THEN unblock(d, t) ELSE d
  BY DEF wake_one
<1> HIDE DEF left, g, r
<1>4. d \in SchedState
  BY <1>1, <1>2, Zenon DEF SchedState
<1>5. /\ SameQueues(d, s) /\ SameRest(d, s) /\ d.elapsed = s.elapsed
      /\ d.task_switch_postponed = s.task_switch_postponed
      /\ Depth(d, 1)
  BY <1>1 DEF SchedState, SameQueues, SameRest, Depth
<1> HIDE DEF d
<1>6. Core(d, L, T) /\ CurrOut(d)
  BY <1>4, <1>5, SameCore
<1>7. t \in Linked(d.waiting_queue) /\ d.waiting_queue = s.waiting_queue
  BY <1>5 DEF SameQueues
<1>8. LET u == unblock(d, t)
      IN  /\ Core(u, L, T) /\ CurrOut(u) /\ Depth(u, 1)
          /\ u.task_switch_postponed = d.task_switch_postponed
          /\ Linked(u.waiting_queue) = Linked(d.waiting_queue) \ {t}
          /\ u.elapsed \in {0, d.elapsed}
  <2>1. WokenNested(unblock(d, t), d, t, L, T)
    BY <1>5, <1>6, <1>7, UnblockNested
  <2> QED
    BY <2>1 DEF WokenNested
<1>9. CASE s.state[t] = "Blocked"
  BY <1>3, <1>9 DEF TurnDone, r
<1>10. CASE s.state[t] # "Blocked" /\ left = 0
  <2>1. r = unblock(d, t)
    BY <1>3, <1>10
  <2> QED
    BY <1>5, <1>7, <1>8, <2>1 DEF TurnDone, r
<1>11. CASE s.state[t] # "Blocked" /\ left # 0
  <2>1. r = d
    BY <1>3, <1>11
  <2> QED
    BY <1>5, <1>6, <1>7, <2>1 DEF TurnDone, r
<1> QED
  BY <1>9, <1>10, <1>11
-----------------------------------------------------------------------------
(* The loop of pit_irq_handler.  Induction on the position in the queue is *)
(* done by a least counterexample.                                         *)

Below == {p \in Nat \X Nat : p[1] < p[2]}

(* A set of naturals that is not empty has a least element.                *)
LEMMA LeastNat ==
  ASSUME NEW S \in SUBSET Nat, S # {}
  PROVE  \E m \in S : \A k \in S : m <= k
<1>1. IsWellFoundedOn(Below, Nat)
  BY NatLessThanWellFounded DEF OpToRel, Below
<1>2. PICK m \in S : \A k \in S : <<k, m>> \notin Below
  BY <1>1, WFMin, Zenon
<1>3. \A k \in S : k < m => <<k, m>> \in Below
  BY DEF Below
<1>4. \A k \in S : k \in Nat /\ m \in Nat /\ ~(k < m)
  BY <1>2, <1>3, Zenon
<1>5. \A k \in S : m <= k
  BY <1>4
<1> QED
  BY <1>5

(* f holds the scheduler state after each of the first n turns.            *)
Turns(f, s, q, n) ==
  f = [i \in 0 .. n |-> IF i = 0 THEN s ELSE wake_one(f[i - 1], q[i])]

(* The recursive function in wake_sleepers exists.                         *)
LEMMA TurnsExist ==
  ASSUME NEW s, NEW q, NEW len \in Nat
  PROVE  \E f : Turns(f, s, q, len)
<1> DEFINE S == {n \in Nat : ~ \E f : Turns(f, s, q, n)}
<1> SUFFICES ASSUME S # {} PROVE FALSE
  OBVIOUS
<1>1. PICK m \in S : \A k \in S : m <= k
  BY LeastNat, Zenon
<1>2. m \in Nat /\ ~ \E f : Turns(f, s, q, m)
  OBVIOUS
<1>3. m # 0
  <2> DEFINE f == [i \in 0 .. 0 |-> s]
  <2>1. Turns(f, s, q, 0)
    BY DEF Turns
  <2> QED
    BY <1>2, <2>1
<1>4. m - 1 \in Nat /\ m - 1 \notin S
  BY <1>1, <1>2, <1>3
<1>5. PICK f : Turns(f, s, q, m - 1)
  BY <1>4
<1> DEFINE g == [i \in 0 .. m |-> IF i = 0 THEN s ELSE wake_one(f[i - 1], q[i])]
<1>6. \A i \in 0 .. m : i # 0 => f[i - 1] = g[i - 1]
  <2> SUFFICES ASSUME NEW i \in 0 .. m, i # 0 PROVE f[i - 1] = g[i - 1]
    BY Zenon
  <2>1. i - 1 \in 0 .. m - 1 /\ i - 1 \in 0 .. m
    BY <1>2
  <2>2. f[i - 1] = IF i - 1 = 0 THEN s ELSE wake_one(f[i - 1 - 1], q[i - 1])
    BY <1>5, <2>1 DEF Turns
  <2> QED
    BY <2>1, <2>2
<1>7. g = [i \in 0 .. m |-> IF i = 0 THEN s ELSE wake_one(g[i - 1], q[i])]
  BY <1>6, Zenon
<1> HIDE DEF g
<1>8. Turns(g, s, q, m)
  BY <1>7 DEF Turns
<1> QED
  BY <1>2, <1>8

(* What each turn keeps: the threads the loop has yet to visit are still   *)
(* in waiting_queue.                                                       *)
TurnOK(z, s, L, T, q, i) ==
  /\ Core(z, L, T)
  /\ CurrOut(z)
  /\ Depth(z, 1)
  /\ z.task_switch_postponed = s.task_switch_postponed
  /\ z.elapsed \in {0, s.elapsed}
  /\ \A j \in i + 1 .. Len(q) : q[j] \in Linked(z.waiting_queue)

(* The function wake_sleepers computes, turn by turn.                      *)
TurnsOf(s) == CHOOSE f : Turns(f, s, s.waiting_queue, Len(s.waiting_queue))

LEMMA TurnByTurn ==
  ASSUME NEW s, Len(s.waiting_queue) \in Nat
  PROVE  /\ wake_sleepers(s) = TurnsOf(s)[Len(s.waiting_queue)]
         /\ TurnsOf(s)[0] = s
         /\ \A i \in 1 .. Len(s.waiting_queue) :
              TurnsOf(s)[i] = wake_one(TurnsOf(s)[i - 1], s.waiting_queue[i])
<1> DEFINE q == s.waiting_queue
           f == TurnsOf(s)
<1>1. wake_sleepers(s) = f[Len(q)]
  BY DEF wake_sleepers, TurnsOf, Turns
<1>2. Turns(f, s, q, Len(q))
  BY TurnsExist DEF TurnsOf
<1> HIDE DEF f
<1>3. f[0] = s /\ \A i \in 1 .. Len(q) : f[i] = wake_one(f[i - 1], q[i])
  BY <1>2 DEF Turns
<1> QED
  BY <1>1, <1>3 DEF f

(* The whole loop keeps the invariant.                                     *)
LEMMA TurnsKeep ==
  ASSUME NEW T, NEW L, NEW s, T \subseteq Threads, L \subseteq T,
         Core(s, L, T), CurrOut(s), Depth(s, 1)
  PROVE  \A i \in 0 .. Len(s.waiting_queue) :
           TurnOK(TurnsOf(s)[i], s, L, T, s.waiting_queue, i)
<1> DEFINE q == s.waiting_queue
           f == TurnsOf(s)
<1>1. q \in Seq(Threads) /\ Len(q) \in Nat /\ NoDup(q)
  BY DEF Core, SchedState, QueuesOK
<1>4. f[0] = s
  BY <1>1, TurnByTurn
<1>5. \A i \in 1 .. Len(q) : f[i] = wake_one(f[i - 1], q[i])
  BY <1>1, TurnByTurn
<1> HIDE DEF f
<1>6. TurnOK(f[0], s, L, T, q, 0)
  BY <1>1, <1>4 DEF TurnOK, Linked
<1>7. ASSUME NEW i \in 1 .. Len(q), TurnOK(f[i - 1], s, L, T, q, i - 1)
      PROVE  TurnOK(f[i], s, L, T, q, i)
  <2> DEFINE z == f[i - 1]
             r == wake_one(z, q[i])
  <2>1. f[i] = r /\ i \in Nat
    BY <1>1, <1>5
  <2>2. \A j \in i .. Len(q) : q[j] \in Linked(z.waiting_queue)
    BY <1>1, <1>7 DEF TurnOK
  <2>3. q[i] \in Linked(z.waiting_queue)
    BY <1>1, <2>2
  <2>4. /\ Core(r, L, T) /\ CurrOut(r) /\ Depth(r, 1)
        /\ r.task_switch_postponed = z.task_switch_postponed
        /\ Linked(z.waiting_queue) \ {q[i]} \subseteq Linked(r.waiting_queue)
        /\ r.elapsed \in {0, z.elapsed}
    <3>1. Core(z, L, T) /\ CurrOut(z) /\ Depth(z, 1)
      BY <1>7 DEF TurnOK
    <3>2. TurnDone(r, z, q[i], L, T)
      BY <2>3, <3>1, WakeOne
    <3> QED
      BY <3>2 DEF TurnDone
  <2>5. \A j \in i + 1 .. Len(q) : j \in i .. Len(q) /\ q[j] # q[i]
    BY <1>1 DEF NoDup
  <2> HIDE DEF r
  <2>6. \A j \in i + 1 .. Len(q) : q[j] \in Linked(r.waiting_queue)
    BY <2>2, <2>4, <2>5
  <2>7. /\ r.task_switch_postponed = s.task_switch_postponed
        /\ r.elapsed \in {0, s.elapsed}
    BY <1>7, <2>4 DEF TurnOK
  <2> QED
    BY <2>1, <2>4, <2>6, <2>7 DEF TurnOK
<1> DEFINE S == {i \in Nat : i <= Len(q) /\ ~TurnOK(f[i], s, L, T, q, i)}
<1>8. S = {}
  <2> SUFFICES ASSUME S # {} PROVE FALSE
    OBVIOUS
  <2>1. PICK m \in S : \A k \in S : m <= k
    BY LeastNat, Zenon
  <2>2. m \in 1 .. Len(q)
    BY <1>1, <1>6
  <2>3. m - 1 \in Nat /\ m - 1 <= Len(q) /\ m - 1 \notin S
    BY <1>1, <2>1, <2>2
  <2>4. TurnOK(f[m - 1], s, L, T, q, m - 1)
    BY <2>3
  <2> QED
    BY <1>7, <2>2, <2>4
<1> QED
  BY <1>1, <1>8 DEF f

LEMMA WakeSleepers ==
  ASSUME NEW T, NEW L, NEW s, T \subseteq Threads, L \subseteq T,
         Core(s, L, T), CurrOut(s), Depth(s, 1)
  PROVE  LET r == wake_sleepers(s)
         IN  /\ Core(r, L, T)
             /\ CurrOut(r)
             /\ Depth(r, 1)
             /\ r.task_switch_postponed = s.task_switch_postponed
             /\ r.elapsed \in {0, s.elapsed}
<1> DEFINE q == s.waiting_queue
<1>1. q \in Seq(Threads) /\ Len(q) \in Nat
  BY DEF Core, SchedState
<1>2. Len(q) \in 0 .. Len(q)
  BY <1>1
<1>3. TurnOK(TurnsOf(s)[Len(q)], s, L, T, q, Len(q))
  BY <1>2, TurnsKeep
<1> QED
  BY <1>1, <1>3, TurnByTurn DEF TurnOK
-----------------------------------------------------------------------------
(* The entry points, called with the lock free.                            *)

(* What holds between two calls.                                           *)
Settled(s, L, T) ==
  /\ Core(s, L, T)
  /\ CurrOut(s)
  /\ Depth(s, 0)
  /\ ~s.task_switch_postponed
  /\ s.elapsed < DEFAULT_TIME_QUANTUM

(* schedule() under the lock only notes that a switch is owed.             *)
LEMMA Postpone ==
  ASSUME NEW T, NEW L, NEW s, Core(s, L, T), Depth(s, 1)
  PROVE  LET r == schedule(s)
         IN  /\ Core(r, L, T)
             /\ CurrOut(s) <=> CurrOut(r)
             /\ Replaceable(s) <=> Replaceable(r)
             /\ Depth(r, 1)
             /\ r.task_switch_postponed
             /\ r.elapsed = s.elapsed
<1> DEFINE r == schedule(s)
           z == [s EXCEPT !.task_switch_postponed = TRUE]
<1>1. s \in SchedState
  BY DEF Core
<1>2. r = z
  BY DEF schedule, Depth
<1>3. z \in SchedState
  BY <1>1, Zenon DEF SchedState
<1>4. /\ SameQueues(z, s) /\ SameRest(z, s) /\ Depth(z, 1) /\ z.elapsed = s.elapsed
      /\ z.task_switch_postponed = TRUE
  BY <1>1 DEF SchedState, SameQueues, SameRest, Depth
<1> HIDE DEF z
<1>5. /\ Core(z, L, T) /\ (CurrOut(s) <=> CurrOut(z))
      /\ (Replaceable(s) <=> Replaceable(z))
  BY <1>3, <1>4, SameCore
<1> QED
  BY <1>2, <1>4, <1>5

(* The end of sleep, yield and block.                                      *)
LEMMA GiveUp ==
  ASSUME NEW T, NEW L, NEW s, T \subseteq Threads, L \subseteq T,
         Core(s, L, T), Replaceable(s), Depth(s, 1)
  PROVE  Settled(unlock_scheduler(schedule(s)), L, T)
<1> DEFINE p == schedule(s)
           r == unlock_scheduler(p)
<1>1. Core(p, L, T) /\ Replaceable(p) /\ Depth(p, 1) /\ p.task_switch_postponed
  BY Postpone
<1>2. Locked(p, L, T)
  BY <1>1 DEF Locked
<1> HIDE DEF p
<1>3. /\ Core(r, L, T) /\ CurrOut(r) /\ Depth(r, 0) /\ ~r.task_switch_postponed
      /\ r.elapsed = IF p.task_switch_postponed THEN 0 ELSE p.elapsed
  BY <1>1, <1>2, UnlockLast
<1> HIDE DEF r
<1>4. r.elapsed < DEFAULT_TIME_QUANTUM
  BY <1>1, <1>3, TimesAssumption
<1> QED
  BY <1>3, <1>4 DEF Settled, r, p

(* curr_thread parks itself in waiting_queue: sleep and block.             *)
ParkedFrom(m, s, st) ==
  /\ m \in SchedState
  /\ m.waiting_queue = Append(s.waiting_queue, s.curr_thread)
  /\ m.state = [s.state EXCEPT ![s.curr_thread] = st]
  /\ m.ready_threads = s.ready_threads /\ m.curr_thread = s.curr_thread
  /\ Depth(m, 1) /\ SameRest(m, s)

LEMMA Park ==
  ASSUME NEW T, NEW L, NEW s, NEW st, NEW m, T \subseteq Threads, L \subseteq T,
         Core(s, L, T), CurrOut(s), Depth(s, 1),
         s.curr_thread # Idle, st \in {"Sleep", "Blocked"}, ParkedFrom(m, s, st)
  PROVE  Settled(unlock_scheduler(schedule(m)), L, T)
<1> DEFINE c == s.curr_thread
<1> USE DEF ParkedFrom
<1>1. /\ s \in SchedState /\ c \in L /\ c \in Threads /\ c \in AllThreads
      /\ s.waiting_queue \in Seq(Threads) /\ s.ready_threads \in Seq(Threads)
  BY Zenon DEF Core, KnownOK, SchedState, AllThreads
<1>2. /\ Linked(m.waiting_queue) = Linked(s.waiting_queue) \cup {c}
      /\ NoDup(m.waiting_queue)
  <2> HIDE DEF ParkedFrom
  <2>1. NoDup(s.waiting_queue) /\ c \notin Linked(s.waiting_queue)
    BY DEF Core, QueuesOK, CurrOut
  <2>2. m.waiting_queue = Append(s.waiting_queue, c)
    BY DEF ParkedFrom
  <2> HIDE DEF c
  <2>3. /\ Linked(Append(s.waiting_queue, c)) = Linked(s.waiting_queue) \cup {c}
        /\ NoDup(Append(s.waiting_queue, c))
    BY <1>1, <2>1, AppendFacts
  <2> QED
    BY <2>2, <2>3
<1>3. /\ m.state[c] = st
      /\ \A t \in Threads : t # c => m.state[t] = s.state[t]
  BY <1>1 DEF SchedState, AllThreads
<1>4. QueuesOK(m, T)
  <2>1. m.ready_threads = s.ready_threads /\ c \notin Linked(s.ready_threads)
    BY DEF CurrOut
  <2>2. QueuesOK(s, T) /\ \A t \in T : t \in Threads
    BY DEF Core
  <2> HIDE DEF c, ParkedFrom
  <2>3. NoDup(m.ready_threads) /\ Linked(m.ready_threads) \cap Linked(m.waiting_queue) = {}
    BY <1>2, <2>1, <2>2 DEF QueuesOK
  <2>4. \A t \in T : t \in Linked(m.waiting_queue) <=> m.state[t] \in {"Blocked", "Sleep"}
    BY <1>2, <1>3, <2>2, Zenon DEF QueuesOK
  <2> QED
    BY <1>2, <2>3, <2>4 DEF QueuesOK
<1>5. KnownOK(m, L) /\ RegistersOK(m)
  BY <1>1, <1>2 DEF Core, KnownOK, RegistersOK, SameRest
<1>6. Replaceable(m)
  <2>1. s.ready_threads # <<>> => Head(s.ready_threads) \in Linked(s.ready_threads)
    BY <1>1, TailFacts DEF Core, QueuesOK
  <2> QED
    BY <1>3, <2>1 DEF Replaceable, CurrOut
<1> QED
  BY <1>4, <1>5, <1>6, GiveUp DEF Core

(* sleep keeps the invariant.                                              *)
LEMMA SleepStep ==
  ASSUME NEW T, NEW L, NEW s, T \subseteq Threads, L \subseteq T,
         Settled(s, L, T), s.curr_thread # Idle,
         NEW milli \in SleepTimes
  PROVE  Settled(sleep(s, milli), L, T)
<1> DEFINE l == lock_scheduler(s)
           c == l.curr_thread
           g == [l.sleep_time EXCEPT ![c] = milli]
           f == [l.state EXCEPT ![c] = "Sleep"]
           m == [l EXCEPT !.sleep_time = g, !.state = f,
                          !.waiting_queue = Append(l.waiting_queue, c)]
<1>1. /\ Core(l, L, T) /\ CurrOut(l) /\ SameQueues(l, s) /\ Depth(l, 1)
  BY Lock DEF Settled
<1>2. sleep(s, milli) = unlock_scheduler(schedule(m))
  BY DEF sleep
<1>3. c # Idle
  BY <1>1 DEF SameQueues
<1> HIDE DEF l
<1>4. l \in SchedState /\ c \in AllThreads /\ c \in Threads
  BY <1>1, <1>3 DEF Core, SchedState, AllThreads
<1>5. /\ g \in [AllThreads -> 0 .. Word - 1] /\ f \in [AllThreads -> ThreadState]
      /\ Append(l.waiting_queue, c) \in Seq(Threads)
  BY <1>4, TimesAssumption DEF SchedState, ThreadState
<1> HIDE DEF g
<1>6. m \in SchedState
  BY <1>4, <1>5, Zenon DEF SchedState
<1>7. /\ m.waiting_queue = Append(l.waiting_queue, c) /\ m.state = f
      /\ m.ready_threads = l.ready_threads /\ m.curr_thread = l.curr_thread
      /\ Depth(m, 1) /\ SameRest(m, l)
  BY <1>1, <1>4 DEF SchedState, Depth, SameRest
<1> HIDE DEF m
<1>8. ParkedFrom(m, l, "Sleep")
  BY <1>6, <1>7 DEF ParkedFrom
<1> QED
  BY <1>1, <1>2, <1>3, <1>8, Park

(* block keeps the invariant.                                              *)
LEMMA BlockStep ==
  ASSUME NEW T, NEW L, NEW s, T \subseteq Threads, L \subseteq T,
         Settled(s, L, T), s.curr_thread # Idle
  PROVE  Settled(block(s), L, T)
<1> DEFINE l == lock_scheduler(s)
           c == l.curr_thread
           f == [l.state EXCEPT ![c] = "Blocked"]
           m == [l EXCEPT !.state = f,
                          !.waiting_queue = Append(l.waiting_queue, c)]
<1>1. /\ Core(l, L, T) /\ CurrOut(l) /\ SameQueues(l, s) /\ Depth(l, 1)
  BY Lock DEF Settled
<1>2. block(s) = unlock_scheduler(schedule(m))
  BY DEF block
<1>3. c # Idle
  BY <1>1 DEF SameQueues
<1> HIDE DEF l
<1>4. l \in SchedState /\ c \in AllThreads /\ c \in Threads
  BY <1>1, <1>3 DEF Core, SchedState, AllThreads
<1>5. /\ f \in [AllThreads -> ThreadState]
      /\ Append(l.waiting_queue, c) \in Seq(Threads)
  BY <1>4 DEF SchedState, ThreadState
<1>6. m \in SchedState
  BY <1>4, <1>5, Zenon DEF SchedState
<1>7. /\ m.waiting_queue = Append(l.waiting_queue, c) /\ m.state = f
      /\ m.ready_threads = l.ready_threads /\ m.curr_thread = l.curr_thread
      /\ Depth(m, 1) /\ SameRest(m, l)
  BY <1>1, <1>4 DEF SchedState, Depth, SameRest
<1> HIDE DEF m
<1>8. ParkedFrom(m, l, "Blocked")
  BY <1>6, <1>7 DEF ParkedFrom
<1> QED
  BY <1>1, <1>2, <1>3, <1>8, Park

(* A yield while another thread is ready.                                  *)
LEMMA YieldStep ==
  ASSUME NEW T, NEW L, NEW s, T \subseteq Threads, L \subseteq T,
         Settled(s, L, T), s.curr_thread # Idle,
         s.ready_threads # <<>>
  PROVE  Settled(yield(s), L, T)
<1> DEFINE l == lock_scheduler(s)
           c == l.curr_thread
           f == [l.state EXCEPT ![c] = "Ready"]
           g == [l.scheduled_time EXCEPT ![c] = DEFAULT_SCHEDULE_TIME_MS]
           m == [l EXCEPT !.state = f, !.scheduled_time = g,
                          !.ready_threads = Append(l.ready_threads, c)]
<1>1. /\ Core(l, L, T) /\ CurrOut(l) /\ SameQueues(l, s) /\ Depth(l, 1)
  BY Lock DEF Settled
<1>2. yield(s) = unlock_scheduler(schedule(m))
  BY DEF yield
<1>3. c # Idle /\ l.ready_threads # <<>>
  BY <1>1 DEF SameQueues
<1> HIDE DEF l
<1>4. /\ l \in SchedState /\ c \in AllThreads /\ c \in Threads /\ c \in L
      /\ l.ready_threads \in Seq(Threads)
  BY <1>1, <1>3, SMTT(20) DEF Core, SchedState, KnownOK, AllThreads
<1>5. /\ f \in [AllThreads -> ThreadState] /\ g \in [AllThreads -> 0 .. Word - 1]
      /\ f[c] = "Ready" /\ \A t \in AllThreads : t # c => f[t] = l.state[t]
  BY <1>4, TimesAssumption DEF SchedState, ThreadState
<1>6. /\ Append(l.ready_threads, c) \in Seq(Threads)
      /\ Linked(Append(l.ready_threads, c)) = Linked(l.ready_threads) \cup {c}
      /\ NoDup(Append(l.ready_threads, c))
  <2>1. NoDup(l.ready_threads) /\ c \notin Linked(l.ready_threads)
    BY <1>1 DEF Core, QueuesOK, CurrOut
  <2> QED
    BY <1>4, <2>1, AppendFacts
<1> HIDE DEF f, g
<1>7. m \in SchedState
  BY <1>4, <1>5, <1>6, Zenon DEF SchedState
<1>8. /\ m.waiting_queue = l.waiting_queue /\ m.state = f
      /\ m.ready_threads = Append(l.ready_threads, c) /\ m.curr_thread = c
      /\ Depth(m, 1) /\ SameRest(m, l)
  BY <1>1, <1>4 DEF SchedState, Depth, SameRest
<1> HIDE DEF m
<1>9. QueuesOK(m, T)
  <2>1. /\ NoDup(l.waiting_queue) /\ c \notin Linked(l.waiting_queue)
        /\ Linked(l.ready_threads) \cap Linked(l.waiting_queue) = {}
        /\ \A t \in T : t \in Linked(l.waiting_queue)
                           <=> l.state[t] \in {"Blocked", "Sleep"}
    BY <1>1 DEF Core, QueuesOK, CurrOut
  <2>2. Linked(m.ready_threads) \cap Linked(m.waiting_queue) = {}
    BY <1>6, <1>8, <2>1
  <2>3. \A t \in T : t \in Linked(m.waiting_queue)
                        <=> m.state[t] \in {"Blocked", "Sleep"}
    BY <1>5, <1>8, <2>1 DEF AllThreads
  <2> QED
    BY <1>6, <1>8, <2>1, <2>2, <2>3 DEF QueuesOK
<1>10. KnownOK(m, L) /\ RegistersOK(m)
  BY <1>1, <1>4, <1>6, <1>8 DEF Core, KnownOK, RegistersOK, SameRest
<1>11. Replaceable(m)
  <2>1. Head(l.ready_threads) \in Linked(l.ready_threads)
    BY <1>1, <1>3, <1>4, TailFacts DEF Core, QueuesOK
  <2>2. Head(Append(l.ready_threads, c)) = Head(l.ready_threads)
    BY <1>3, <1>4
  <2> QED
    BY <1>1, <1>5, <1>8, <2>1, <2>2 DEF Replaceable, CurrOut
<1> QED
  BY <1>2, <1>7, <1>8, <1>9, <1>10, <1>11, GiveUp DEF Core

(* unblock of a waiting thread keeps the invariant.                        *)
LEMMA UnblockStep ==
  ASSUME NEW T, NEW L, NEW s, T \subseteq Threads, L \subseteq T, Settled(s, L, T),
         NEW task \in Linked(s.waiting_queue)
  PROVE  Settled(unblock(s, task), L, T)
<1> DEFINE l == lock_scheduler(s)
           b == unblock_body(l, task)
           r == unlock_scheduler(b)
<1>1. /\ Core(l, L, T) /\ CurrOut(l) /\ SameQueues(l, s) /\ l.elapsed = s.elapsed
      /\ Depth(l, 1) /\ l.task_switch_postponed = s.task_switch_postponed
  BY Lock DEF Settled
<1>2. task \in Linked(l.waiting_queue)
  BY <1>1 DEF SameQueues
<1>3. unblock(s, task) = r
  BY DEF unblock, unblock_body
<1> HIDE DEF l
<1>4. /\ Core(b, L, T) /\ CurrOut(b) /\ SameLocks(b, l) /\ b.elapsed \in {0, l.elapsed}
  <2>1. Woken(b, l, task, L, T)
    BY <1>1, <1>2, UnblockBody
  <2> QED
    BY <2>1 DEF Woken
<1> HIDE DEF b
<1>5. /\ Depth(b, 1) /\ Locked(b, L, T)
      /\ b.task_switch_postponed = s.task_switch_postponed
  <2>1. Locked(b, L, T)
    BY <1>4, Zenon DEF Locked
  <2>2. Depth(b, 1) /\ b.task_switch_postponed = s.task_switch_postponed
    BY <1>1, <1>4 DEF Depth, SameLocks
  <2> QED
    BY <2>1, <2>2
<1>6. /\ Core(r, L, T) /\ CurrOut(r) /\ Depth(r, 0) /\ ~r.task_switch_postponed
      /\ r.elapsed = IF b.task_switch_postponed THEN 0 ELSE b.elapsed
  BY <1>5, UnlockLast
<1> HIDE DEF r
<1>7. r.elapsed < DEFAULT_TIME_QUANTUM
  BY <1>1, <1>4, <1>5, <1>6, TimesAssumption DEF Settled
<1> QED
  BY <1>3, <1>6, <1>7 DEF Settled

(* check_slice asks for a switch no later than at the quantum.             *)
LEMMA CheckSlice ==
  ASSUME NEW T, NEW L, NEW s, Core(s, L, T), CurrOut(s), Depth(s, 1),
         s.elapsed <= DEFAULT_TIME_QUANTUM
  PROVE  LET r == check_slice(s)
         IN  /\ Core(r, L, T) /\ CurrOut(r) /\ Depth(r, 1)
             /\ r.elapsed = s.elapsed
             /\ r.task_switch_postponed \/ s.elapsed < DEFAULT_TIME_QUANTUM
<1> DEFINE r == check_slice(s)
           q == [s EXCEPT !.time_quantum_past = TRUE]
<1>1. s \in SchedState /\ s.elapsed \in Nat
  BY DEF Core, SchedState
<1>2. CASE s.elapsed >= s.scheduled_time[s.curr_thread]
  <2>1. r = schedule(s)
    BY <1>2 DEF check_slice
  <2> QED
    BY <2>1, Postpone
<1>3. CASE /\ ~(s.elapsed >= s.scheduled_time[s.curr_thread])
           /\ s.elapsed = DEFAULT_TIME_QUANTUM
  <2>1. r = schedule(q)
    BY <1>3 DEF check_slice
  <2>2. q \in SchedState
    BY <1>1, Zenon DEF SchedState
  <2>3. SameQueues(q, s) /\ SameRest(q, s) /\ Depth(q, 1) /\ q.elapsed = s.elapsed
    BY <1>1 DEF SchedState, SameQueues, SameRest, Depth
  <2> HIDE DEF q
  <2>4. Core(q, L, T) /\ CurrOut(q)
    BY <2>2, <2>3, SameCore
  <2> QED
    BY <2>1, <2>3, <2>4, Postpone
<1>4. CASE /\ ~(s.elapsed >= s.scheduled_time[s.curr_thread])
           /\ s.elapsed # DEFAULT_TIME_QUANTUM
  <2>1. r = s
    BY <1>4 DEF check_slice
  <2>2. s.elapsed < DEFAULT_TIME_QUANTUM
    BY <1>1, <1>4, TimesAssumption
  <2> QED
    BY <2>1, <2>2
<1> QED
  BY <1>2, <1>3, <1>4

(* The timer interrupt keeps the invariant.                                *)
LEMMA TickStep ==
  ASSUME NEW T, NEW L, NEW s, T \subseteq Threads, L \subseteq T, Settled(s, L, T)
  PROVE  Settled(unlock_scheduler(check_slice(wake_sleepers(
                   lock_scheduler([s EXCEPT !.elapsed = s.elapsed + 1])))), L, T)
<1> DEFINE e == [s EXCEPT !.elapsed = s.elapsed + 1]
           l == lock_scheduler(e)
           w == wake_sleepers(l)
           k == check_slice(w)
           r == unlock_scheduler(k)
<1>1. s \in SchedState /\ Core(s, L, T) /\ s.elapsed \in Nat
  BY DEF Settled, Core, SchedState
<1>3. e \in SchedState
  <2>1. s.elapsed + 1 \in Nat
    BY <1>1
  <2> QED
    BY <1>1, <2>1, Zenon DEF SchedState
<1>4. /\ SameQueues(e, s) /\ SameRest(e, s) /\ Depth(e, 0)
      /\ e.elapsed = s.elapsed + 1
      /\ e.task_switch_postponed = s.task_switch_postponed
  BY <1>1 DEF SchedState, SameQueues, SameRest, Depth, Settled
<1> HIDE DEF e
<1>5. Core(e, L, T) /\ CurrOut(e)
  BY <1>1, <1>3, <1>4, SameCore DEF Settled
<1>6. Core(l, L, T) /\ CurrOut(l) /\ Depth(l, 1) /\ l.elapsed = e.elapsed
  BY <1>4, <1>5, Lock
<1> HIDE DEF l
<1>7. Core(w, L, T) /\ CurrOut(w) /\ Depth(w, 1) /\ w.elapsed \in {0, l.elapsed}
  BY <1>6, WakeSleepers
<1> HIDE DEF w
<1>8. w.elapsed <= DEFAULT_TIME_QUANTUM
  BY <1>1, <1>4, <1>6, <1>7, TimesAssumption DEF Settled
<1>9. /\ Core(k, L, T) /\ CurrOut(k) /\ Depth(k, 1) /\ k.elapsed = w.elapsed
      /\ k.task_switch_postponed \/ w.elapsed < DEFAULT_TIME_QUANTUM
  BY <1>7, <1>8, CheckSlice
<1> HIDE DEF k
<1>10. Locked(k, L, T)
  BY <1>9, Zenon DEF Locked
<1>11. /\ Core(r, L, T) /\ CurrOut(r) /\ Depth(r, 0) /\ ~r.task_switch_postponed
       /\ r.elapsed = IF k.task_switch_postponed THEN 0 ELSE k.elapsed
  BY <1>9, <1>10, UnlockLast
<1> HIDE DEF r
<1>12. r.elapsed < DEFAULT_TIME_QUANTUM
  BY <1>9, <1>11, TimesAssumption
<1> USE DEF e, l, w, k, r
<1>13. Settled(r, L, T)
  BY <1>11, <1>12 DEF Settled
<1> QED
  BY <1>13

(* add_ready_threads of a new thread keeps the invariant.                  *)
LEMMA SpawnStep ==
  ASSUME NEW T, NEW L, NEW s, T \subseteq Threads, L \subseteq T, Settled(s, L, T),
         NEW t \in T, t \notin L, NEW p \in Procs
  PROVE  Settled(add_ready_threads([s EXCEPT !.m_process[t] = p], t), L \cup {t}, T)
<1> DEFINE K == L \cup {t}
           g == [s.m_process EXCEPT ![t] = p]
           n == [s EXCEPT !.m_process = g]
           r == add_ready_threads(n, t)
<1>1. s \in SchedState /\ Core(s, L, T) /\ K \subseteq T
  BY DEF Settled, Core
<1>2. g \in [AllThreads -> Procs] /\ \A x \in AllThreads : x # t => g[x] = s.m_process[x]
  BY <1>1, Zenon DEF SchedState
<1> HIDE DEF g
<1>3. n \in SchedState
  BY <1>1, <1>2, Zenon DEF SchedState
<1>4. /\ SameQueues(n, s) /\ n.m_process = g /\ n.cr3 = s.cr3 /\ n.rsp0 = s.rsp0
      /\ n.syscall_kernel_rsp = s.syscall_kernel_rsp
      /\ SameLocks(n, s) /\ n.elapsed = s.elapsed
  BY <1>1 DEF SchedState, SameQueues, SameLocks
<1> HIDE DEF n
<1>5. /\ t # Idle /\ t # s.curr_thread /\ s.curr_thread \in AllThreads
      /\ Idle \in AllThreads
      /\ t \notin Linked(s.ready_threads) /\ t \notin Linked(s.waiting_queue)
  BY <1>1, ThreadsAssumption DEF Core, KnownOK, AllThreads
<1>6. QueuesOK(n, T) /\ KnownOK(n, K)
  BY <1>1, <1>4 DEF Core, QueuesOK, KnownOK, SameQueues
<1>7. RegistersOK(n)
  <2>1. g[Idle] = s.m_process[Idle] /\ g[s.curr_thread] = s.m_process[s.curr_thread]
    BY <1>2, <1>5
  <2> QED
    BY <1>1, <1>4, <2>1 DEF Core, RegistersOK, SameQueues
<1>8. Core(n, K, T) /\ t \in K
  BY <1>3, <1>6, <1>7 DEF Core
<1>9. t \notin Linked(n.ready_threads) /\ t \notin Linked(n.waiting_queue)
  BY <1>4, <1>5 DEF SameQueues
<1> HIDE DEF K
<1>10. /\ Core(r, K, T)
       /\ Linked(r.ready_threads) = Linked(n.ready_threads) \cup {t}
       /\ r.waiting_queue = n.waiting_queue
       /\ r.curr_thread = n.curr_thread
       /\ r.elapsed = n.elapsed
       /\ SameLocks(r, n)
  <2>1. Added(r, n, t, K, T)
    BY <1>1, <1>8, <1>9, AddReady
  <2> QED
    BY <2>1 DEF Added
<1> HIDE DEF r
<1>11. CurrOut(r)
  BY <1>4, <1>5, <1>10 DEF CurrOut, SameQueues, Settled
<1>12. Depth(r, 0) /\ ~r.task_switch_postponed
  BY <1>4, <1>10 DEF Depth, SameLocks, Settled
<1>13. r.elapsed < DEFAULT_TIME_QUANTUM
  BY <1>4, <1>10 DEF Settled
<1> QED
  BY <1>10, <1>11, <1>12, <1>13 DEF Settled, r, n, K, g

(* update_scheduled_time keeps the invariant.                              *)
LEMMA UpdateStep ==
  ASSUME NEW T, NEW L, NEW s, T \subseteq Threads, L \subseteq T, Settled(s, L, T),
         NEW t \in Threads, NEW ms \in Budgets
  PROVE  Settled([s EXCEPT !.scheduled_time[t] = ms], L, T)
<1> DEFINE g == [s.scheduled_time EXCEPT ![t] = ms]
           r == [s EXCEPT !.scheduled_time = g]
<1>1. s \in SchedState /\ Core(s, L, T)
  BY DEF Settled, Core
<1>2. g \in [AllThreads -> 0 .. Word - 1]
  BY <1>1, TimesAssumption, Zenon DEF SchedState
<1> HIDE DEF g
<1>3. r \in SchedState
  BY <1>1, <1>2, Zenon DEF SchedState
<1>4. /\ SameQueues(r, s) /\ SameRest(r, s) /\ SameLocks(r, s)
      /\ r.elapsed = s.elapsed
  BY <1>1 DEF SchedState, SameQueues, SameRest, SameLocks
<1> HIDE DEF r
<1>5. Core(r, L, T) /\ CurrOut(r)
  BY <1>1, <1>3, <1>4, SameCore DEF Settled
<1>6. Depth(r, 0) /\ ~r.task_switch_postponed /\ r.elapsed < DEFAULT_TIME_QUANTUM
  BY <1>4 DEF Depth, SameLocks, Settled
<1> QED
  BY <1>5, <1>6 DEF Settled, r, g
-----------------------------------------------------------------------------
(* The inductive invariant and what follows from it.                       *)

IInv == live \subseteq Threads /\ Settled(sched, live, Threads)

(* The constructor establishes it.                                         *)
LEMMA InitIInv == Init => IInv
<1> SUFFICES ASSUME Init PROVE IInv
  OBVIOUS
<1>1. live \subseteq Threads
  BY DEF Init
<1>2. sched \in SchedState
  <2>1. Idle \in AllThreads /\ 0 \in 0 .. 255 /\ 0 \in Nat /\ <<>> \in Seq(Threads)
    BY DEF AllThreads
  <2>2. [t \in AllThreads |-> IF t = Idle THEN "Running" ELSE "Ready"]
          \in [AllThreads -> ThreadState]
    BY DEF ThreadState
  <2>3. /\ [t \in AllThreads |-> 0] \in [AllThreads -> 0 .. Word - 1]
        /\ [t \in AllThreads |-> DEFAULT_SCHEDULE_TIME_MS] \in [AllThreads -> 0 .. Word - 1]
    BY TimesAssumption
  <2>4. KernelProc \in Procs /\ [t \in AllThreads |-> KernelProc] \in [AllThreads -> Procs]
    BY ThreadsAssumption
  <2> QED
    BY <2>1, <2>2, <2>3, <2>4 DEF Init, SchedState
<1>3. /\ sched.ready_threads = <<>> /\ sched.waiting_queue = <<>>
      /\ sched.curr_thread = Idle /\ sched.m_process[Idle] = KernelProc
      /\ \A t \in Threads : sched.state[t] = "Ready"
      /\ sched.task_switch_counter = 0 /\ sched.disable_counter = 0
      /\ sched.task_switch_postponed = FALSE /\ sched.elapsed = 0
  BY ThreadsAssumption DEF Init, AllThreads
<1>4. Linked(<<>>) = {} /\ NoDup(<<>>)
  BY DEF Linked, NoDup
<1>5. QueuesOK(sched, Threads) /\ KnownOK(sched, live) /\ RegistersOK(sched) /\ CurrOut(sched)
  BY <1>3, <1>4 DEF QueuesOK, KnownOK, RegistersOK, CurrOut
<1>6. /\ Depth(sched, 0) /\ ~sched.task_switch_postponed
      /\ sched.elapsed < DEFAULT_TIME_QUANTUM
  BY <1>3, TimesAssumption DEF Depth
<1> QED
  BY <1>1, <1>2, <1>5, <1>6 DEF IInv, Settled, Core

(* Every step keeps it.                                                    *)
LEMMA NextIInv == IInv /\ [BlockingNext]_vars => IInv'
<1> SUFFICES ASSUME IInv, [BlockingNext]_vars PROVE IInv'
  OBVIOUS
<1> USE DEF IInv
<1>1. CASE \E t \in Threads, p \in Procs : Spawn(t, p)
  <2>1. PICK t \in Threads, p \in Procs : Spawn(t, p)
    BY <1>1
  <2>2. /\ t \notin live /\ live' = live \cup {t}
        /\ sched' = add_ready_threads([sched EXCEPT !.m_process[t] = p], t)
    BY <2>1 DEF Spawn
  <2>3. Settled(sched', live', Threads)
    BY <2>2, SpawnStep
  <2> QED
    BY <2>2, <2>3
<1>2. CASE \E t \in Threads, ms \in Budgets : UpdateScheduledTime(t, ms)
  BY <1>2, UpdateStep DEF UpdateScheduledTime
<1>3. CASE Tick
  <2>1. /\ live' = live
        /\ sched' = unlock_scheduler(check_slice(wake_sleepers(
                      lock_scheduler([sched EXCEPT !.elapsed = sched.elapsed + 1]))))
    BY <1>3 DEF Tick, pit_irq_handler
  <2> QED
    BY <2>1, TickStep
<1>4. CASE \E milli \in SleepTimes : Sleep(milli)
  BY <1>4, SleepStep DEF Sleep
<1>5. CASE Block
  BY <1>5, BlockStep DEF Block
<1>6. CASE sched.ready_threads # <<>> /\ Yield
  BY <1>6, YieldStep DEF Yield
<1>7. CASE \E t \in Threads : Unblock(t)
  BY <1>7, UnblockStep DEF Unblock
<1>8. CASE UNCHANGED vars
  BY <1>8 DEF vars
<1> QED
  BY <1>1, <1>2, <1>3, <1>4, <1>5, <1>6, <1>7, <1>8 DEF BlockingNext, KernelNext

(* Every state the blocking interface can reach satisfies the invariant.   *)
THEOREM Invariance == BlockingSpec => []IInv
  BY InitIInv, NextIInv, PTL DEF BlockingSpec

(* Every field of the scheduler keeps its type; in particular g_idle is in *)
(* no queue.                                                               *)
THEOREM TypeCorrect == BlockingSpec => []TypeOK
<1>1. IInv => TypeOK
  BY DEF IInv, Settled, Core, TypeOK
<1> QED
  BY <1>1, Invariance, PTL

(* Queues without duplicates that share no thread link none twice.         *)
LEMMA QueuesLink ==
  ASSUME NEW T, sched \in SchedState, QueuesOK(sched, T)
  PROVE  LinkedOnce
<1> DEFINE a == sched.ready_threads
           b == sched.waiting_queue
<1>1. /\ a \in Seq(Threads) /\ b \in Seq(Threads) /\ NoDup(a) /\ NoDup(b)
      /\ Linked(a) \cap Linked(b) = {}
  BY DEF QueuesOK, SchedState
<1> HIDE DEF a, b
<1>2. \A i \in DOMAIN (a \o b) :
        \/ i \in DOMAIN a /\ (a \o b)[i] = a[i]
        \/ i - Len(a) \in DOMAIN b /\ (a \o b)[i] = b[i - Len(a)]
  <2>1. /\ Len(a) \in Nat /\ DOMAIN a = 1 .. Len(a)
        /\ Len(b) \in Nat /\ DOMAIN b = 1 .. Len(b)
    BY <1>1
  <2>2. DOMAIN (a \o b) = 1 .. Len(a) + Len(b)
    BY <1>1
  <2>3. \A i \in 1 .. Len(a) + Len(b) :
          (a \o b)[i] = IF i <= Len(a) THEN a[i] ELSE b[i - Len(a)]
    BY <1>1
  <2> QED
    BY <2>1, <2>2, <2>3
<1>3. \A i \in DOMAIN a, j \in DOMAIN b : a[i] # b[j]
  BY <1>1 DEF Linked
<1>4. ASSUME NEW i \in DOMAIN (a \o b), NEW j \in DOMAIN (a \o b),
             (a \o b)[i] = (a \o b)[j]
      PROVE  i = j
  BY <1>1, <1>2, <1>3, <1>4 DEF NoDup
<1> QED
  BY <1>4, Zenon DEF LinkedOnce, a, b

(* No thread is linked twice through its hook.                             *)
THEOREM OneHook == BlockingSpec => []LinkedOnce
<1>1. IInv => LinkedOnce
  BY QueuesLink DEF IInv, Settled, Core
<1> QED
  BY <1>1, Invariance, PTL

(* The running thread is in neither queue.                                 *)
THEOREM RunningOutside == BlockingSpec => []CurrNotQueued
<1>1. IInv => CurrNotQueued
  BY DEF IInv, Settled, CurrOut, CurrNotQueued
<1> QED
  BY <1>1, Invariance, PTL

(* waiting_queue holds exactly the Blocked and Sleep threads.              *)
THEOREM Parked == BlockingSpec => []WaitingIffParked
<1>1. IInv => WaitingIffParked
  BY Zenon DEF IInv, Settled, Core, QueuesOK, WaitingIffParked
<1> QED
  BY <1>1, Invariance, PTL

(* The running thread has its own kernel stack, for interrupts and for     *)
(* syscalls.                                                               *)
THEOREM OwnStack == BlockingSpec => []StacksFollowCurr
<1>1. IInv => StacksFollowCurr
  BY DEF IInv, Settled, Core, RegistersOK, StacksFollowCurr
<1> QED
  BY <1>1, Invariance, PTL

(* A thread outside the kernel process runs on its own page map.           *)
THEOREM OwnPageMap == BlockingSpec => []UserThreadHasOwnCr3
<1>1. IInv => UserThreadHasOwnCr3
  BY DEF IInv, Settled, Core, RegistersOK, UserThreadHasOwnCr3
<1> QED
  BY <1>1, Invariance, PTL

(* No thread runs a whole quantum without a scheduling decision.           *)
THEOREM BoundedSlice == BlockingSpec => []SliceBounded
<1>1. IInv => SliceBounded
  BY DEF IInv, Settled, SliceBounded
<1> QED
  BY <1>1, Invariance, PTL

(* Every call releases what it locked.                                     *)
THEOREM LockReleased == BlockingSpec => []Unlocked
<1>1. IInv => Unlocked
  BY DEF IInv, Settled, Depth, Unlocked
<1> QED
  BY <1>1, Invariance, PTL

-----------------------------------------------------------------------------
(* exit.  The threads it takes out of waiting_queue keep their state, so   *)
(* they are no longer tracked: T is what is left of Threads.               *)

(* f holds the scheduler state after each of the first n turns.            *)
Drops(f, s, q, p, n) ==
  f = [i \in 0 .. n |-> IF i = 0 THEN s ELSE drop_one(f[i - 1], q[i], p)]

(* The recursive function in drop exists.                                  *)
LEMMA DropsExist ==
  ASSUME NEW s, NEW q, NEW p, NEW len \in Nat
  PROVE  \E f : Drops(f, s, q, p, len)
<1> DEFINE S == {n \in Nat : ~ \E f : Drops(f, s, q, p, n)}
<1> SUFFICES ASSUME S # {} PROVE FALSE
  OBVIOUS
<1>1. PICK m \in S : \A k \in S : m <= k
  BY LeastNat, Zenon
<1>2. m \in Nat /\ ~ \E f : Drops(f, s, q, p, m)
  OBVIOUS
<1>3. m # 0
  <2> DEFINE f == [i \in 0 .. 0 |-> s]
  <2>1. Drops(f, s, q, p, 0)
    BY DEF Drops
  <2> QED
    BY <1>2, <2>1
<1>4. m - 1 \in Nat /\ m - 1 \notin S
  BY <1>1, <1>2, <1>3
<1>5. PICK f : Drops(f, s, q, p, m - 1)
  BY <1>4
<1> DEFINE g == [i \in 0 .. m |-> IF i = 0 THEN s ELSE drop_one(f[i - 1], q[i], p)]
<1>6. \A i \in 0 .. m : i # 0 => f[i - 1] = g[i - 1]
  <2> SUFFICES ASSUME NEW i \in 0 .. m, i # 0 PROVE f[i - 1] = g[i - 1]
    BY Zenon
  <2>1. i - 1 \in 0 .. m - 1 /\ i - 1 \in 0 .. m
    BY <1>2
  <2>2. f[i - 1] = IF i - 1 = 0 THEN s ELSE drop_one(f[i - 1 - 1], q[i - 1], p)
    BY <1>5, <2>1 DEF Drops
  <2> QED
    BY <2>1, <2>2
<1>7. g = [i \in 0 .. m |-> IF i = 0 THEN s ELSE drop_one(g[i - 1], q[i], p)]
  BY <1>6, Zenon
<1> HIDE DEF g
<1>8. Drops(g, s, q, p, m)
  BY <1>7 DEF Drops
<1> QED
  BY <1>2, <1>8

(* What a turn keeps: only waiting_queue changes, and only loses threads.  *)
Dropped(r, s) ==
  /\ r \in SchedState /\ NoDup(r.waiting_queue)
  /\ Linked(r.waiting_queue) \subseteq Linked(s.waiting_queue)
  /\ r.ready_threads = s.ready_threads /\ r.state = s.state /\ r.curr_thread = s.curr_thread
  /\ SameRest(r, s) /\ SameLocks(r, s)

LEMMA DropOne ==
  ASSUME NEW r, NEW s, NEW t, NEW p, Dropped(r, s)
  PROVE  Dropped(drop_one(r, t, p), s)
<1> DEFINE w == Remove(r.waiting_queue, t)
           z == [r EXCEPT !.waiting_queue = w]
<1>1. r \in SchedState /\ r.waiting_queue \in Seq(Threads) /\ NoDup(r.waiting_queue)
  BY DEF Dropped, SchedState
<1>2. /\ w \in Seq(Threads) /\ NoDup(w)
      /\ Linked(w) = Linked(r.waiting_queue) \ {t}
  BY <1>1, RemoveFacts
<1> HIDE DEF w
<1>3. z \in SchedState
  BY <1>1, <1>2, Zenon DEF SchedState
<1>4. /\ z.waiting_queue = w /\ z.ready_threads = r.ready_threads /\ z.state = r.state
      /\ z.curr_thread = r.curr_thread /\ SameRest(z, r) /\ SameLocks(z, r)
  BY <1>1 DEF SchedState, SameRest, SameLocks
<1> HIDE DEF z
<1>5. Dropped(z, s)
  BY <1>2, <1>3, <1>4 DEF Dropped, SameRest, SameLocks
<1> QED
  BY <1>5 DEF drop_one, z, w

LEMMA DropLoop ==
  ASSUME NEW r, NEW s, NEW q \in Seq(Threads), NEW p, Dropped(r, s)
  PROVE  Dropped(drop(r, q, p), s)
<1> DEFINE f == CHOOSE f : Drops(f, r, q, p, Len(q))
<1>1. Len(q) \in Nat
  OBVIOUS
<1>2. Drops(f, r, q, p, Len(q))
  BY <1>1, DropsExist
<1>3. drop(r, q, p) = f[Len(q)]
  BY DEF drop, Drops
<1> HIDE DEF f
<1>4. f[0] = r
  BY <1>1, <1>2 DEF Drops
<1>5. \A i \in 1 .. Len(q) : f[i] = drop_one(f[i - 1], q[i], p)
  BY <1>1, <1>2 DEF Drops
<1> DEFINE S == {i \in Nat : i <= Len(q) /\ ~Dropped(f[i], s)}
<1>6. S = {}
  <2> SUFFICES ASSUME S # {} PROVE FALSE
    OBVIOUS
  <2>1. PICK m \in S : \A k \in S : m <= k
    BY LeastNat, Zenon
  <2>2. m \in 1 .. Len(q)
    BY <1>1, <1>4
  <2>3. m - 1 \in Nat /\ m - 1 <= Len(q) /\ m - 1 \notin S
    BY <1>1, <2>1, <2>2
  <2>4. Dropped(f[m - 1], s)
    BY <2>3
  <2>5. Dropped(f[m], s)
    BY <1>5, <2>2, <2>4, DropOne
  <2> QED
    BY <2>5
<1> QED
  BY <1>1, <1>3, <1>6

(* Both loops.                                                             *)
LEMMA DropBoth ==
  ASSUME NEW T, NEW L, NEW s, NEW p, Core(s, L, T)
  PROVE  Dropped(drop_ready(drop_waiting(s, p), p), s)
<1>1. /\ s \in SchedState /\ s.waiting_queue \in Seq(Threads) /\ NoDup(s.waiting_queue)
  BY DEF Core, QueuesOK, SchedState
<1>2. Dropped(s, s)
  BY <1>1 DEF Dropped, SameRest, SameLocks
<1> DEFINE r == drop_waiting(s, p)
<1>3. Dropped(r, s)
  BY <1>1, <1>2, DropLoop DEF drop_waiting
<1> HIDE DEF r
<1>4. r.ready_threads \in Seq(Threads)
  BY <1>3 DEF Dropped, SchedState
<1>5. Dropped(drop_ready(r, p), s)
  BY <1>3, <1>4, DropLoop DEF drop_ready
<1> QED
  BY <1>5 DEF r

(* What is left of the tracked threads when waiting_queue has lost some.   *)
Left(T, r, s) == T \ (Linked(s.waiting_queue) \ Linked(r.waiting_queue))

LEMMA DropKeeps ==
  ASSUME NEW T, NEW L, NEW s, NEW r, L \subseteq T, Core(s, L, T), CurrOut(s), Dropped(r, s)
  PROVE  Core(r, L \cap Left(T, r, s), Left(T, r, s)) /\ CurrOut(r)
<1> DEFINE U == Left(T, r, s)
<1>1. /\ r \in SchedState /\ NoDup(r.waiting_queue)
      /\ Linked(r.waiting_queue) \subseteq Linked(s.waiting_queue)
      /\ r.ready_threads = s.ready_threads /\ r.state = s.state
      /\ r.curr_thread = s.curr_thread /\ SameRest(r, s)
  BY DEF Dropped
<1>2. /\ QueuesOK(s, T) /\ KnownOK(s, L) /\ RegistersOK(s)
      /\ s.curr_thread \notin Linked(s.waiting_queue)
  BY DEF Core, CurrOut
<1>3. QueuesOK(r, U)
  <2>1. \A t \in U : t \in T /\ (t \in Linked(r.waiting_queue) <=> t \in Linked(s.waiting_queue))
    BY <1>1 DEF Left
  <2> HIDE DEF U
  <2> QED
    BY <1>1, <1>2, <2>1 DEF QueuesOK
<1>4. KnownOK(r, L \cap U)
  BY <1>1, <1>2 DEF KnownOK, QueuesOK, Left
<1>5. RegistersOK(r)
  BY <1>1, <1>2 DEF RegistersOK, SameRest
<1>6. CurrOut(r)
  BY <1>1 DEF CurrOut
<1> QED
  BY <1>1, <1>3, <1>4, <1>5, <1>6 DEF Core

(* schedule() with the lock free.                                          *)
LEMMA ScheduleStep ==
  ASSUME NEW T, NEW L, NEW s, T \subseteq Threads, L \subseteq T, Core(s, L, T), CurrOut(s),
         Depth(s, 0), ~s.task_switch_postponed
  PROVE  Settled(schedule(s), L, T)
<1>1. LET r == schedule(s)
      IN  Core(r, L, T) /\ CurrOut(r) /\ r.elapsed = 0 /\ SameLocks(r, s)
  BY Reschedule DEF Depth
<1> QED
  BY <1>1, TimesAssumption DEF Settled, Depth, SameLocks

(* exit(-1): some of the tracked threads are given up.                     *)
LEMMA ExitStep ==
  ASSUME NEW T, NEW L, NEW s, T \subseteq Threads, L \subseteq T, Settled(s, L, T)
  PROVE  \E U : /\ U \subseteq T /\ T \ U \subseteq L
                /\ Settled(remove_dead_process_threads(s), L \cap U, U)
<1> DEFINE p == s.m_process[s.curr_thread]
           r == drop_ready(drop_waiting(s, p), p)
           U == Left(T, r, s)
<1>1. Core(s, L, T) /\ CurrOut(s) /\ Depth(s, 0) /\ ~s.task_switch_postponed
  BY DEF Settled
<1>2. Dropped(r, s)
  BY <1>1, DropBoth
<1>3. remove_dead_process_threads(s) = schedule(r)
  BY DEF remove_dead_process_threads
<1> HIDE DEF r
<1>4. Core(r, L \cap U, U) /\ CurrOut(r)
  BY <1>1, <1>2, DropKeeps
<1>5. Depth(r, 0) /\ ~r.task_switch_postponed
  BY <1>1, <1>2 DEF Dropped, SameLocks, Depth
<1>6. U \subseteq T /\ T \ U \subseteq L
  BY <1>1 DEF Left, Core, KnownOK
<1> HIDE DEF U
<1>7. Settled(schedule(r), L \cap U, U)
  BY <1>4, <1>5, <1>6, ScheduleStep
<1> QED
  BY <1>3, <1>6, <1>7, Zenon

(* What the steps of a #GP handler's schedule() find: the thread it picked *)
(* is in no queue, whichever stores are still to come.                     *)
Chosen(s, n, L) ==
  /\ n \in L \cup {Idle}
  /\ n \notin Linked(s.ready_threads) /\ n \notin Linked(s.waiting_queue)

PickedOK(s, n, L, T) ==
  /\ Core(s, L, T) /\ Chosen(s, n, L)
  /\ n # s.curr_thread \/ n = Idle
  /\ s.state[s.curr_thread] = "Running" => s.curr_thread \notin Linked(s.ready_threads)

QueuedOK(s, n, L, T) == Core(s, L, T) /\ Chosen(s, n, L)

(* From the first store to a stack pointer on, they are those of n.        *)
MovedOK(s, n, L, T) ==
  /\ s \in SchedState /\ QueuesOK(s, T) /\ KnownOK(s, L) /\ Chosen(s, n, L)
  /\ n # Idle
  /\ s.m_process[Idle] = KernelProc
  /\ s.rsp0 = n /\ s.syscall_kernel_rsp = n

OnPageMapOf(s, t) == s.m_process[t] # KernelProc => s.cr3 = s.m_process[t]

SwitchOK(s, a, n, L, T) ==
  /\ a \in {"picked", "queued", "stacked", "mapped"}
  /\ Depth(s, 0) /\ ~s.task_switch_postponed
  /\ a = "picked" => PickedOK(s, n, L, T)
  /\ a = "queued" => QueuedOK(s, n, L, T)
  /\ a = "stacked" => MovedOK(s, n, L, T) /\ OnPageMapOf(s, s.curr_thread)
  /\ a = "mapped" => MovedOK(s, n, L, T) /\ OnPageMapOf(s, n)

LEMMA PickStep ==
  ASSUME NEW T, NEW L, NEW s, T \subseteq Threads, L \subseteq T, Settled(s, L, T)
  PROVE  /\ s.ready_threads = <<>> => SwitchOK(s, "picked", Idle, L, T)
         /\ s.ready_threads # <<>> =>
              SwitchOK(take_head(charge_quantum(s)), "picked", Head(s.ready_threads), L, T)
<1>1. s \in SchedState /\ Core(s, L, T) /\ CurrOut(s) /\ Depth(s, 0) /\ ~s.task_switch_postponed
  BY DEF Settled, Core
<1>2. CASE s.ready_threads = <<>>
  <2>1. Chosen(s, Idle, L)
    BY <1>1, IdleNotQueued DEF Chosen
  <2>2. PickedOK(s, Idle, L, T)
    BY <1>1, <2>1 DEF PickedOK, CurrOut
  <2> QED
    BY <1>1, <1>2, <2>2 DEF SwitchOK
<1>3. CASE s.ready_threads # <<>>
  <2> DEFINE d == take_head(charge_quantum(s))
             n == Head(s.ready_threads)
  <2>1. /\ Core(d, L, T) /\ SameLocks(d, s)
        /\ n \in L \cup {Idle} /\ n # d.curr_thread
        /\ n \notin Linked(d.ready_threads)
        /\ n \notin Linked(d.waiting_queue)
        /\ d.state[d.curr_thread] = "Running"
             => d.curr_thread \notin Linked(d.ready_threads)
    BY <1>1, <1>3, TakeHead
  <2> HIDE DEF d, n
  <2>2. PickedOK(d, n, L, T)
    BY <2>1 DEF PickedOK, Chosen
  <2>3. Depth(d, 0) /\ ~d.task_switch_postponed
    BY <1>1, <2>1 DEF SameLocks, Depth
  <2>4. SwitchOK(d, "picked", n, L, T)
    BY <2>2, <2>3 DEF SwitchOK
  <2> QED
    BY <1>3, <2>4 DEF d, n
<1> QED
  BY <1>2, <1>3

LEMMA RequeueStep ==
  ASSUME NEW T, NEW L, NEW s, NEW n, T \subseteq Threads, L \subseteq T,
         SwitchOK(s, "picked", n, L, T)
  PROVE  SwitchOK(requeue_running(s, n), "queued", n, L, T)
<1> DEFINE r == requeue_running(s, n)
<1>1. PickedOK(s, n, L, T) /\ Depth(s, 0) /\ ~s.task_switch_postponed
  BY DEF SwitchOK
<1>2. /\ Core(r, L, T) /\ n \notin Linked(r.ready_threads)
      /\ r.waiting_queue = s.waiting_queue /\ SameLocks(r, s)
  BY <1>1, Requeue DEF PickedOK, Chosen
<1> HIDE DEF r
<1>3. QueuedOK(r, n, L, T)
  BY <1>1, <1>2 DEF QueuedOK, PickedOK, Chosen
<1>4. Depth(r, 0) /\ ~r.task_switch_postponed
  BY <1>1, <1>2 DEF SameLocks, Depth
<1>5. SwitchOK(r, "queued", n, L, T)
  BY <1>3, <1>4 DEF SwitchOK
<1> QED
  BY <1>5 DEF r

LEMMA StacksStep ==
  ASSUME NEW T, NEW L, NEW s, NEW n, T \subseteq Threads, L \subseteq T, n # Idle,
         SwitchOK(s, "queued", n, L, T)
  PROVE  SwitchOK([s EXCEPT !.rsp0 = n, !.syscall_kernel_rsp = n], "stacked", n, L, T)
<1> DEFINE r == [s EXCEPT !.rsp0 = n, !.syscall_kernel_rsp = n]
<1>1. /\ s \in SchedState /\ QueuesOK(s, T) /\ KnownOK(s, L) /\ RegistersOK(s) /\ Chosen(s, n, L)
      /\ Depth(s, 0) /\ ~s.task_switch_postponed
  BY DEF SwitchOK, QueuedOK, Core
<1>2. n \in AllThreads
  BY <1>1 DEF Chosen, AllThreads
<1>3. r \in SchedState
  <2> DEFINE a == [s EXCEPT !.rsp0 = n]
  <2>1. a \in SchedState
    BY <1>1, <1>2, Zenon DEF SchedState
  <2>2. [a EXCEPT !.syscall_kernel_rsp = n] \in SchedState
    BY <1>2, <2>1, Zenon DEF SchedState
  <2> QED
    BY <2>2, Zenon
<1>4. /\ SameQueues(r, s) /\ SameLocks(r, s)
      /\ r.m_process = s.m_process /\ r.cr3 = s.cr3
      /\ r.rsp0 = n /\ r.syscall_kernel_rsp = n
  BY <1>1 DEF SchedState, SameQueues, SameLocks
<1> HIDE DEF r
<1>5. QueuesOK(r, T) /\ KnownOK(r, L) /\ Chosen(r, n, L)
  BY <1>1, <1>4 DEF QueuesOK, KnownOK, Chosen, SameQueues
<1>6. MovedOK(r, n, L, T) /\ OnPageMapOf(r, r.curr_thread)
  BY <1>1, <1>3, <1>4, <1>5 DEF MovedOK, OnPageMapOf, RegistersOK, SameQueues
<1>7. SwitchOK(r, "stacked", n, L, T)
  BY <1>1, <1>4, <1>6 DEF SwitchOK, SameLocks, Depth
<1> QED
  BY <1>7 DEF r

LEMMA LoadCr3Step ==
  ASSUME NEW T, NEW L, NEW s, NEW n, T \subseteq Threads, L \subseteq T,
         SwitchOK(s, "stacked", n, L, T)
  PROVE  SwitchOK([s EXCEPT !.cr3 = load_cr3(s, n)], "mapped", n, L, T)
<1> DEFINE c == load_cr3(s, n)
           r == [s EXCEPT !.cr3 = c]
<1>1. MovedOK(s, n, L, T) /\ OnPageMapOf(s, s.curr_thread) /\ Depth(s, 0) /\ ~s.task_switch_postponed
  BY DEF SwitchOK
<1>2. s \in SchedState /\ n \in AllThreads
  BY <1>1 DEF MovedOK, Chosen, AllThreads
<1>3. c \in Procs /\ (s.m_process[n] # KernelProc => c = s.m_process[n])
  <2>1. s.cr3 \in Procs /\ s.m_process[n] \in Procs
    BY <1>2 DEF SchedState
  <2> QED
    BY <1>1, <2>1 DEF load_cr3, OnPageMapOf
<1> HIDE DEF c
<1>4. r \in SchedState
  BY <1>2, <1>3, Zenon DEF SchedState
<1>5. /\ SameQueues(r, s) /\ SameLocks(r, s) /\ r.m_process = s.m_process /\ r.cr3 = c
      /\ r.rsp0 = s.rsp0 /\ r.syscall_kernel_rsp = s.syscall_kernel_rsp
  BY <1>2 DEF SchedState, SameQueues, SameLocks
<1> HIDE DEF r
<1>6. QueuesOK(r, T) /\ KnownOK(r, L) /\ Chosen(r, n, L)
  BY <1>1, <1>5 DEF MovedOK, QueuesOK, KnownOK, Chosen, SameQueues
<1>7. MovedOK(r, n, L, T) /\ OnPageMapOf(r, n)
  BY <1>1, <1>3, <1>4, <1>5, <1>6 DEF MovedOK, OnPageMapOf
<1>8. SwitchOK(r, "mapped", n, L, T)
  BY <1>1, <1>5, <1>7 DEF SwitchOK, SameLocks, Depth
<1> QED
  BY <1>8 DEF r, c

LEMMA LastStep ==
  ASSUME NEW T, NEW L, NEW s, NEW n, T \subseteq Threads, L \subseteq T,
         SwitchOK(s, IF n = Idle THEN "queued" ELSE "mapped", n, L, T)
  PROVE  Settled([s EXCEPT !.curr_thread = n, !.elapsed = 0], L, T)
<1> DEFINE r == [s EXCEPT !.curr_thread = n, !.elapsed = 0]
<1>1. /\ s \in SchedState /\ QueuesOK(s, T) /\ KnownOK(s, L) /\ Chosen(s, n, L)
      /\ Depth(s, 0) /\ ~s.task_switch_postponed
      /\ s.m_process[Idle] = KernelProc
      /\ n # Idle => s.rsp0 = n /\ s.syscall_kernel_rsp = n /\ OnPageMapOf(s, n)
  BY DEF SwitchOK, QueuedOK, MovedOK, Core, RegistersOK
<1>2. n \in AllThreads
  BY <1>1 DEF Chosen, AllThreads
<1>3. r \in SchedState
  <2> DEFINE a == [s EXCEPT !.curr_thread = n]
  <2>1. a \in SchedState
    BY <1>1, <1>2, Zenon DEF SchedState
  <2>2. 0 \in Nat
    OBVIOUS
  <2>3. [a EXCEPT !.elapsed = 0] \in SchedState
    BY <2>1, <2>2, Zenon DEF SchedState
  <2> QED
    BY <2>3, Zenon
<1>4. /\ r.ready_threads = s.ready_threads /\ r.waiting_queue = s.waiting_queue
      /\ r.state = s.state /\ r.curr_thread = n /\ r.elapsed = 0
      /\ SameRest(r, s) /\ SameLocks(r, s)
  BY <1>1 DEF SchedState, SameRest, SameLocks
<1> HIDE DEF r
<1>5. QueuesOK(r, T) /\ KnownOK(r, L) /\ CurrOut(r)
  BY <1>1, <1>4 DEF QueuesOK, KnownOK, Chosen, CurrOut
<1>6. RegistersOK(r)
  BY <1>1, <1>4 DEF RegistersOK, OnPageMapOf, SameRest
<1>7. Depth(r, 0) /\ ~r.task_switch_postponed /\ r.elapsed < DEFAULT_TIME_QUANTUM
  BY <1>1, <1>4, TimesAssumption DEF SameLocks, Depth
<1>8. Settled(r, L, T)
  BY <1>3, <1>5, <1>6, <1>7 DEF Settled, Core
<1> QED
  BY <1>8 DEF r

(* A tick that only counts changes nothing the steps rest on.              *)
LEMMA CountStep ==
  ASSUME NEW T, NEW L, NEW s, NEW n, NEW a, SwitchOK(s, a, n, L, T)
  PROVE  SwitchOK(counted(s), a, n, L, T)
<1> DEFINE f == [t \in AllThreads |->
                   IF t \in Linked(s.waiting_queue) /\ s.state[t] # "Blocked"
                                                    /\ s.sleep_time[t] > 0
                   THEN s.sleep_time[t] - 1 ELSE s.sleep_time[t]]
           e == s.elapsed + 1
           r == [s EXCEPT !.elapsed = e, !.sleep_time = f]
<1>1. s \in SchedState
  BY DEF SwitchOK, PickedOK, QueuedOK, MovedOK, Core
<1>2. e \in Nat
  BY <1>1 DEF SchedState
<1>3. f \in [AllThreads -> 0 .. Word - 1]
  <2>1. s.sleep_time \in [AllThreads -> 0 .. Word - 1]
    BY <1>1, Zenon DEF SchedState
  <2>2. \A t \in AllThreads : s.sleep_time[t] \in 0 .. Word - 1
    BY <2>1
  <2> QED
    BY <2>2, TimesAssumption
<1>4. r = counted(s)
  BY DEF counted
<1> HIDE DEF e, f
<1>5. r \in SchedState
  <2> DEFINE b == [s EXCEPT !.elapsed = e]
  <2>1. b \in SchedState
    BY <1>1, <1>2, Zenon DEF SchedState
  <2>2. [b EXCEPT !.sleep_time = f] \in SchedState
    BY <1>3, <2>1, Zenon DEF SchedState
  <2> QED
    BY <2>2, Zenon
<1>6. SameQueues(r, s) /\ SameRest(r, s) /\ SameLocks(r, s)
  BY <1>1 DEF SchedState, SameQueues, SameRest, SameLocks
<1> HIDE DEF r
<1>7. Core(s, L, T) => Core(r, L, T)
  BY <1>5, <1>6, SameCore
<1>8. Chosen(s, n, L) => Chosen(r, n, L)
  BY <1>6 DEF Chosen, SameQueues
<1>9. PickedOK(s, n, L, T) => PickedOK(r, n, L, T)
  BY <1>6, <1>7, <1>8 DEF PickedOK, SameQueues
<1>10. MovedOK(s, n, L, T) => MovedOK(r, n, L, T)
  <2>1. (QueuesOK(s, T) => QueuesOK(r, T)) /\ (KnownOK(s, L) => KnownOK(r, L))
    BY <1>6 DEF QueuesOK, KnownOK, SameQueues
  <2> QED
    BY <1>5, <1>6, <1>8, <2>1 DEF MovedOK, SameRest
<1>11. /\ OnPageMapOf(s, s.curr_thread) => OnPageMapOf(r, r.curr_thread)
       /\ OnPageMapOf(s, n) => OnPageMapOf(r, n)
  BY <1>6 DEF OnPageMapOf, SameQueues, SameRest
<1>12. Depth(s, 0) /\ ~s.task_switch_postponed => Depth(r, 0) /\ ~r.task_switch_postponed
  BY <1>6 DEF SameLocks, Depth
<1>13. SwitchOK(r, a, n, L, T)
  BY <1>7, <1>8, <1>9, <1>10, <1>11, <1>12 DEF SwitchOK, QueuedOK
<1> QED
  BY <1>4, <1>13

(* The invariant of the kernel with processes: some threads, all of them   *)
(* handed to the scheduler before, may have been given up.                 *)
Tracked(T) ==
  /\ T \subseteq Threads /\ Threads \ T \subseteq live
  /\ IF at = "none" THEN Settled(sched, live \cap T, T)
                    ELSE SwitchOK(sched, at, next_thread, live \cap T, T)

PInv == live \subseteq Threads /\ (~torn => \E T : Tracked(T))

LEMMA InitPInv == PInit => PInv
<1> SUFFICES ASSUME PInit PROVE PInv
  OBVIOUS
<1>1. IInv
  BY InitIInv DEF PInit
<1>2. live \cap Threads = live
  BY <1>1 DEF IInv
<1>3. Tracked(Threads)
  BY <1>1, <1>2 DEF IInv, Tracked, PInit
<1> QED
  BY <1>1, <1>3 DEF IInv, PInv

(* An exit keeps it.                                                       *)
LEMMA ExitPInv ==
  ASSUME PInv, Free, live' = live, at' = at,
         sched' = remove_dead_process_threads(sched) \/ sched' = sched
  PROVE  PInv'
<1>1. PICK T : Tracked(T)
  BY DEF PInv, Free
<1> DEFINE L == live \cap T
<1>2. /\ T \subseteq Threads /\ Threads \ T \subseteq live /\ L \subseteq T /\ Settled(sched, L, T)
      /\ at' = "none" /\ live \subseteq Threads
  BY <1>1 DEF Tracked, Free, PInv
<1>3. CASE sched' = remove_dead_process_threads(sched)
  <2>1. PICK U : /\ U \subseteq T /\ T \ U \subseteq L
                 /\ Settled(remove_dead_process_threads(sched), L \cap U, U)
    <3>1. T \subseteq Threads /\ L \subseteq T /\ Settled(sched, L, T)
      BY <1>2
    <3> HIDE DEF L
    <3> QED
      BY <3>1, ExitStep
  <2>2. L \cap U = live \cap U /\ Threads \ U \subseteq live /\ U \subseteq Threads
    BY <1>2, <2>1
  <2>3. Settled(sched', live' \cap U, U)
    BY <1>3, <2>1, <2>2
  <2> QED
    BY <1>2, <2>2, <2>3, Zenon DEF Tracked, PInv
<1>4. CASE sched' = sched
  BY <1>2, <1>4, Zenon DEF Tracked, PInv
<1> QED
  BY <1>3, <1>4

(* So do the steps of a #GP handler's schedule(), and the ticks among them *)
(* that do not end what is followed.                                       *)
LEMMA GpPInv ==
  ASSUME PInv,
         \/ GpSchedule \/ GpRequeue \/ GpStacks \/ GpLoadCr3 \/ GpSwitch \/ GpTick
  PROVE  PInv'
<1>1. live' = live /\ live \subseteq Threads /\ ~torn
  BY DEF PInv, GpSchedule, GpRequeue, GpStacks, GpLoadCr3, GpSwitch, GpTick, GpStep, Free
<1>2. PICK T : Tracked(T)
  BY <1>1 DEF PInv
<1> DEFINE L == live \cap T
           n == next_thread
<1>3. /\ T \subseteq Threads /\ Threads \ T \subseteq live /\ L \subseteq T
      /\ at = "none" => Settled(sched, L, T)
      /\ at # "none" => SwitchOK(sched, at, n, L, T)
  BY <1>2 DEF Tracked
<1>4. ASSUME at' # "none", SwitchOK(sched', at', next_thread', L, T) PROVE PInv'
  <2>1. Tracked(T)'
    BY <1>1, <1>3, <1>4, Zenon DEF Tracked
  <2> QED
    BY <1>1, <2>1 DEF PInv
<1>5. CASE GpSchedule
  <2>1. /\ at = "none" /\ sched.task_switch_counter = 0
        /\ at' = "picked"
        /\ \/ sched.ready_threads = <<>> /\ next_thread' = Idle /\ sched' = sched
           \/ /\ sched.ready_threads # <<>> /\ next_thread' = Head(sched.ready_threads)
              /\ sched' = take_head(charge_quantum(sched))
    BY <1>3, <1>5 DEF GpSchedule, Free, Settled, Depth
  <2>2. SwitchOK(sched', at', next_thread', L, T)
    BY <1>3, <2>1, PickStep
  <2> QED
    BY <1>4, <2>1, <2>2
<1>6. CASE GpRequeue
  <2>1. at = "picked" /\ at' = "queued" /\ next_thread' = n /\ sched' = requeue_running(sched, n)
    BY <1>6 DEF GpRequeue, GpStep
  <2>2. SwitchOK(sched', at', next_thread', L, T)
    BY <1>3, <2>1, RequeueStep
  <2> QED
    BY <1>4, <2>1, <2>2
<1>7. CASE GpStacks
  <2>1. /\ n # Idle /\ at = "queued" /\ at' = "stacked" /\ next_thread' = n
        /\ sched' = [sched EXCEPT !.rsp0 = n, !.syscall_kernel_rsp = n]
    BY <1>7 DEF GpStacks, GpStep
  <2>2. SwitchOK(sched', at', next_thread', L, T)
    BY <1>3, <2>1, StacksStep
  <2> QED
    BY <1>4, <2>1, <2>2
<1>8. CASE GpLoadCr3
  <2>1. /\ at = "stacked" /\ at' = "mapped" /\ next_thread' = n
        /\ sched' = [sched EXCEPT !.cr3 = load_cr3(sched, n)]
    BY <1>8 DEF GpLoadCr3, GpStep
  <2>2. SwitchOK(sched', at', next_thread', L, T)
    BY <1>3, <2>1, LoadCr3Step
  <2> QED
    BY <1>4, <2>1, <2>2
<1>9. CASE GpSwitch
  <2>1. /\ at = IF n = Idle THEN "queued" ELSE "mapped"
        /\ at' = "none" /\ sched' = [sched EXCEPT !.curr_thread = n, !.elapsed = 0]
    BY <1>9 DEF GpSwitch, GpStep
  <2>2. Settled(sched', L, T)
    BY <1>3, <2>1, LastStep
  <2>3. Tracked(T)'
    BY <1>1, <1>3, <2>1, <2>2, Zenon DEF Tracked
  <2> QED
    BY <1>1, <2>3 DEF PInv
<1>10. CASE GpTick
  <2>1. CASE torn'
    BY <1>1, <2>1 DEF PInv
  <2>2. CASE ~torn'
    <3>1. /\ at # "none" /\ at' = at /\ next_thread' = n /\ sched' = counted(sched)
      BY <1>10, <2>2 DEF GpTick
    <3>2. SwitchOK(sched', at', next_thread', L, T)
      BY <1>3, <3>1, CountStep
    <3> QED
      BY <1>4, <3>1, <3>2
  <2> QED
    BY <2>1, <2>2
<1> QED
  BY <1>5, <1>6, <1>7, <1>8, <1>9, <1>10

(* The calls and interrupts that find no handler in its schedule().        *)
Called ==
  \/ \E t \in Threads, p \in Procs : PSpawn(t, p)
  \/ PCall(Tick)
  \/ PCall(Block)
  \/ \E milli \in SleepTimes : PCall(Sleep(milli))
  \/ \E t \in Threads : PCall(Unblock(t))

LEMMA CalledPInv ==
  ASSUME PInv, Called
  PROVE  PInv'
<1>1. Free /\ at' = "none"
  BY DEF Called, PSpawn, PCall, Free, gvars
<1>0. PICK T : Tracked(T)
  BY <1>1 DEF PInv, Free
<1> DEFINE L == live \cap T
<1>2. /\ T \subseteq Threads /\ Threads \ T \subseteq live /\ L \subseteq T /\ Settled(sched, L, T)
      /\ live \subseteq Threads
  BY <1>0, <1>1 DEF Tracked, PInv, Free
<1>3. ASSUME live' = live, Settled(sched', L, T) PROVE PInv'
  BY <1>1, <1>2, <1>3, Zenon DEF Tracked, PInv
<1>4. CASE \E t \in Threads, p \in Procs : PSpawn(t, p)
  <2>1. PICK t \in Threads, p \in Procs : Spawn(t, p)
    BY <1>4 DEF PSpawn
  <2>2. /\ t \notin live /\ live' = live \cup {t}
        /\ sched' = add_ready_threads([sched EXCEPT !.m_process[t] = p], t)
    BY <2>1 DEF Spawn
  <2>3. t \in T /\ t \notin L
    BY <1>2, <2>2
  <2>4. Settled(sched', L \cup {t}, T)
    BY <1>2, <2>2, <2>3, SpawnStep
  <2>5. L \cup {t} = live' \cap T
    BY <2>2, <2>3
  <2>6. live' \subseteq Threads /\ Threads \ T \subseteq live'
    BY <1>2, <2>2
  <2> HIDE DEF L
  <2>7. Settled(sched', live' \cap T, T)
    BY <2>4, <2>5
  <2> QED
    BY <1>1, <1>2, <2>6, <2>7, Zenon DEF Tracked, PInv
<1>5. CASE PCall(Tick)
  <2>1. /\ live' = live
        /\ sched' = unlock_scheduler(check_slice(wake_sleepers(
                      lock_scheduler([sched EXCEPT !.elapsed = sched.elapsed + 1]))))
    BY <1>5 DEF PCall, Tick, pit_irq_handler
  <2>2. Settled(sched', L, T)
    BY <1>2, <2>1, TickStep
  <2> QED
    BY <1>3, <2>1, <2>2
<1>6. CASE PCall(Block)
  <2>1. live' = live /\ sched.curr_thread # Idle /\ sched' = block(sched)
    BY <1>6 DEF PCall, Block
  <2>2. Settled(sched', L, T)
    BY <1>2, <2>1, BlockStep
  <2> QED
    BY <1>3, <2>1, <2>2
<1>7. CASE \E milli \in SleepTimes : PCall(Sleep(milli))
  <2>1. PICK milli \in SleepTimes :
          live' = live /\ sched.curr_thread # Idle /\ sched' = sleep(sched, milli)
    BY <1>7 DEF PCall, Sleep
  <2>2. Settled(sched', L, T)
    BY <1>2, <2>1, SleepStep
  <2> QED
    BY <1>3, <2>1, <2>2
<1>8. CASE \E t \in Threads : PCall(Unblock(t))
  <2>1. PICK t \in Threads :
          live' = live /\ t \in Linked(sched.waiting_queue) /\ sched' = unblock(sched, t)
    BY <1>8 DEF PCall, Unblock
  <2>2. Settled(sched', L, T)
    BY <1>2, <2>1, UnblockStep
  <2> QED
    BY <1>3, <2>1, <2>2
<1> QED
  BY <1>4, <1>5, <1>6, <1>7, <1>8 DEF Called

LEMMA NextPInv == PInv /\ [PNext]_pvars => PInv'
<1> SUFFICES ASSUME PInv, [PNext]_pvars PROVE PInv'
  OBVIOUS
<1>1. CASE UNCHANGED pvars
  BY <1>1 DEF pvars, gvars, vars, PInv, Tracked
<1>2. CASE (\E stats \in Statuses : ExitCall(stats)) \/ GpFault
  <2>1. Free /\ live' = live /\ at' = at
    BY <1>2 DEF ExitCall, GpFault, gvars
  <2>2. sched' = remove_dead_process_threads(sched) \/ sched' = sched
    BY <1>2 DEF ExitCall, GpFault, Exit
  <2> QED
    BY <2>1, <2>2, ExitPInv
<1>3. CASE \/ GpSchedule \/ GpRequeue \/ GpStacks \/ GpLoadCr3 \/ GpSwitch \/ GpTick
  BY <1>3, GpPInv
<1>4. CASE Called
  BY <1>4, CalledPInv
<1> QED
  BY <1>1, <1>2, <1>3, <1>4 DEF PNext, Called

LEMMA ProcessInvariant == PSpec => []PInv
  BY InitPInv, NextPInv, PTL DEF PSpec

(* The queues stay sound across exit, by system call or by fault, although *)
(* it unlinks threads of the queue it walks and switches in the middle of  *)
(* the call, and although the fault's handler switches step by step, with  *)
(* ticks that count in between: no thread is linked twice, and the one     *)
(* that runs, or is about to, is in neither queue.                         *)
THEOREM QueuesAcrossExit == PSpec => []QueuesSurviveExit
<1>1. PInv => QueuesSurviveExit
  <2> DEFINE runs == IF at = "none" THEN sched.curr_thread ELSE next_thread
  <2> SUFFICES ASSUME PInv, ~torn
               PROVE  /\ LinkedOnce
                      /\ runs \notin Linked(sched.ready_threads)
                      /\ runs \notin Linked(sched.waiting_queue)
    BY DEF QueuesSurviveExit
  <2>1. PICK T : Tracked(T)
    BY DEF PInv
  <2>2. CASE at = "none"
    <3>1. Settled(sched, live \cap T, T)
      BY <2>1, <2>2 DEF Tracked
    <3>2. LinkedOnce
      BY <3>1, QueuesLink DEF Settled, Core
    <3> QED
      BY <2>2, <3>1, <3>2 DEF Settled, CurrOut
  <2>3. CASE at # "none"
    <3>1. SwitchOK(sched, at, next_thread, live \cap T, T)
      BY <2>1, <2>3 DEF Tracked
    <3>2. /\ sched \in SchedState /\ QueuesOK(sched, T)
          /\ Chosen(sched, next_thread, live \cap T)
      BY <3>1 DEF SwitchOK, PickedOK, QueuedOK, MovedOK, Core
    <3>3. LinkedOnce
      BY <3>2, QueuesLink
    <3> QED
      BY <2>3, <3>2, <3>3 DEF Chosen
  <2> QED
    BY <2>2, <2>3
<1> QED
  BY <1>1, ProcessInvariant, PTL

(* Across exit, too, the running thread has its own kernel stack and, if   *)
(* it belongs to a process, that process's page map, whenever no switch is *)
(* under way.                                                              *)
THEOREM RegistersAcrossExit == PSpec => [](Free => StacksFollowCurr /\ UserThreadHasOwnCr3)
<1>1. PInv => (Free => StacksFollowCurr /\ UserThreadHasOwnCr3)
  <2> SUFFICES ASSUME PInv, Free PROVE StacksFollowCurr /\ UserThreadHasOwnCr3
    OBVIOUS
  <2>1. PICK T : Settled(sched, live \cap T, T)
    BY DEF PInv, Tracked, Free
  <2> QED
    BY <2>1 DEF Settled, Core, RegistersOK, StacksFollowCurr, UserThreadHasOwnCr3
<1> QED
  BY <1>1, ProcessInvariant, PTL
=============================================================================
