# twokernel in TLA+

A verification project for twokernel, an x86-64 hobby kernel in C++. The modules
model the kernel's boot, scheduler, memory managers, loader, drivers, locks, entry
paths and library. TLC checks them on small instances. TLAPS proves the
invariants and step properties of the scheduler for any number of threads, those of the locks for any
number of CPUs, those of the allocators for any memory map, those of the boot
sequence and the entry paths for any threads and devices, those of the keyboard
driver for any keys and buffer, those of the loader for any program, the memory
functions for any size, and that the intrusive lists implement sequences.
`PROJECT.json` lists the runs, the mutants, the theorems, the hazards and the source
lines behind every definition.

Run a model with `tlc -config <file>.cfg <Module>` and check proofs with
`tlapm <Module>.tla`, where the module is `SchedulerProofs`, `DispatchProofs`,
`LibraryProofs`, `FreeListProofs`, `HeapProofs`, `ElfProofs`, `InterruptProofs` or
`CpuProofs`. The longest takes twenty minutes.

## The system

The kernel is booted by Limine with one CPU in use. Its parts are these.

| Part | Code (below `src/`) | Module |
|---|---|---|
| Scheduler | `kernel/arch/x86-64/proc/scheduler.cpp` | `Scheduler`, `MCScheduler`, `SchedulerProofs`, `DispatchProofs` |
| Context switch | `scheduler.cpp` (`pit_irq_handler`), `thread.cpp` | `Dispatch`, `MCDispatch`, `DispatchProofs` |
| Processes and exit | `process.cpp`, `scheduler.hpp`, `sys_list.hpp` | `Process`, `MCProcess`, `SchedulerProofs`, `DispatchProofs` |
| Intrusive list | `include/std/single_deque.hpp` | `Deques` (promise), `SingleDeque`, `MCLibrary`, `LibraryProofs` |
| Memory and string functions | `libc/string.cpp` | `StringOps`, `MCLibrary`, `LibraryProofs` |
| Log formatting | `kernel/util/kernel_logger.cpp` | `Logger`, `MCLibrary` |
| Page allocator | `kernel/memory/pmm.cpp` | `Pmm`, `FreeListProofs`, `HeapProofs` |
| Kernel heap | `kernel/memory/heap.cpp` | `Heap`, `MCHeap`, `HeapProofs` |
| Page tables | `kernel/memory/vmm.cpp` | `AddressSpaces` (promise), `Vmm`, `MCVmm` |
| ELF loader | `kernel/exe/elf_loader.cpp` | `ElfLoader`, `MCElfLoader`, `ElfProofs` |
| Keyboard, terminal input | `drivers/ps2.cpp`, `terminal_support.cpp` | `RingBuffer`, `Keyboard`, `InterruptProofs` |
| Locks and guards | `include/util/spinlocks.hpp`, `irq_gaurd.hpp` | `IrqLocks`, `InterruptProofs` |
| Boot, segments, interrupt controllers | `kmain.cpp`, `arch.cpp`, `gdt.cpp`, `irq.cpp` | `Boot`, `CpuProofs` |
| Interrupt, exception and system call entry | `isr.s`, `irq.cpp`, `exceptions.cpp`, `syscall.s`, `syscalls.cpp` | `CpuEntry`, `CpuProofs` |

The timer interrupt (IRQ 0) enters through `isr.s`, counts a millisecond and
calls `pit_irq_handler`. The handler saves the interrupted thread's registers,
wakes sleepers, and asks the scheduler for a switch when a slice or a quantum is
over. The switch is made when the scheduler's lock is released, and the registers
of the new current thread go back into the frame that `iretq` uses. IRQ 1 feeds
the keyboard's ring buffer, which the terminal thread drains. A process owns a
page map made by the virtual memory manager, which takes its frames from the page
allocator; the kernel heap takes pages from the same place. System calls enter
through `syscall.s` with interrupts off; `exit` takes threads out of the
scheduler's queues.

Four modules compose others. `Heap` extends `Pmm`, so that `kmalloc` and direct
users of the allocator interleave. `Dispatch` and `Process` extend `Scheduler`.
`CpuEntry` extends `Boot`, so that interrupts arrive while `kmain` is still at work.

## How the models correspond to the code

The code nests calls: `pit_irq_handler` calls `unblock`, which calls
`switch_task`, which calls `add_ready_threads`. A member function is therefore an
operator from a record (the object's fields) to a record, and an action installs
what the outermost call returns. Early returns are branches of the operator.
Names are the source's.

**Scheduler.** `sched` holds the fields of `Schedule` and of its threads, with
`tss.rsp0`, the stack pointer `syscall.S` uses, and CR3. An entry point is one
step, because each takes the scheduler's lock and so runs with interrupts off; the
one call of `schedule()` without the lock, in the fault handler, is in `Process`. `Spawn` is a new thread handed to
`add_ready_threads`, `Tick` is the whole timer interrupt, and `Sleep`, `Block`,
`Yield` and `Unblock` are the calls of that name. The counters are bytes and the
slices are `Word` wide, and both wrap as the unsigned types do. The queues are
sequences, which is exact while no thread is linked twice (`LinkedOnce`, proved);
the pointers implement the sequences then (`SingleDeque`, proved). Time is the
difference that the code computes, `elapsed`, and has no bound of its own.

There are two next-state relations. `KernelNext` is what the kernel does today:
threads are added, given slices and preempted. `BlockingNext` adds the primitives
that the scheduler offers and that the repository's tests exercise; its callers yield
only when another thread is ready. `YieldSpec` has the other yields, too.

**Dispatch** adds what the CPU really executes. A context is a thread and how far
it has come; `DTick` saves the frame, runs `Tick` and loads the frame of the new
current thread.

**Process** adds `exit`: the two loops that drop the threads of the process and
the `schedule()` in the middle of the call. `GpFault` is the handler of a general
protection fault, which calls `exit(-1)`; after that it calls `schedule()` itself,
without the lock and, behind a trap gate, with interrupts on. `exit` may have made
another thread current, which can fault in turn before the first handler gets to that
call, so `handlers` counts the calls that are still due. The call is taken store by
store: `GpSchedule` returns early or takes the next thread out of `ready_threads`,
`GpRequeue` puts the current thread there, `GpStacks` and `GpLoadCr3` set the stacks and
the page map, and `GpSwitch` sets `curr_thread`. `GpTick` is a tick between two of
these. When it wakes nobody and ends no slice, it counts and the switch goes on. When it
does more, or falls inside a list operation, it may queue a thread that is linked
already or leave the one taken out in no queue; the queues are then no sequences any more,
and the model sets `torn` and stops.

**SingleDeque** has the head, tail and hook pointers of several lists that share
one hook, and the iterator of a running loop. One turn of a loop is a step; its
body may unlink the node it stands on and push it on another list. `Nodes` bounds how
many values there are, and so how long a walk over the hooks can be.

**Pmm** keeps the free list inside the free pages, as the code does, so what an
owner writes to a page is what a stale read of that page would see. `alloc` is
two steps, because it reads its return value after it has released its lock.
**Heap** writes the header over the same bytes. `kmalloc` does not look at what `alloc`
returns: without memory (`KmallocFails`) it writes its header into page 0 and
returns the address behind it. No run of the allocator is there, so the call itself
changes nothing that the allocator or another block relies on. `Pmm::free` turns such a
block down while nothing is outstanding (`FreeNull`). Otherwise it puts page 0 on the
free list, and a long block reaches into the pages behind page 0; there the model sets
`astray` and stops (`UseNull`).

**Vmm** is the radix tree, with tables in frames. It sees the page allocator
through what that promises; which free frame is handed out does not matter to its
properties, and the model takes the lowest run. A free frame holds garbage that
looks like present entries. `AddressSpaces` is the promise: a function from pages
to frames and rights for each process, with the kernel's half the same in all.

**ElfLoader** steps through one program header at a time. Sums are taken modulo
`MOD`, as 64 bit sums are in the code. A segment that starts beyond
`USER_ADDR_END` makes the subtraction in the size check wrap, so it may have any size; its
pages go to the entries of the page map that `Vmm::map` computes from the low bits of
their addresses (`entry`), which are the same for addresses a whole page map apart.

**Keyboard** joins the controller's one byte buffer, the driver's state machine
with its retries, the ring buffer, and `read_and_echo` with its `sti; hlt`.

**StringOps** has one step per turn of a loop, on a memory in which the regions of
`memove` may overlap in any way. Callers give `memcpy` regions that do not overlap
and `strlen` strings that end. **Logger** is `vsnprintf`, one step per turn of the
loop over the format. Numbers are converted digit by digit from the lowest one, as
the code fills `tmp`, and an argument is chosen when `va_arg` reaches it.
**MCLibrary** puts the list, the memory functions and the logger in one run; a
behaviour uses one of them (`part`).

**IrqLocks** goes instruction by instruction, on several CPUs, with an interrupt
possible between any two.

**Boot** is `kmain` call by call: what each call makes ready, the descriptors and
the selectors in use, and the masks of the two interrupt controllers. The
controllers themselves are external. A check that fails ends in `hcf`,
and a system call MSR that does not read back as written ends in `klog_panic`.
**CpuEntry** starts with `Boot` and adds the ways into the kernel and out of it:
`swapgs`, interrupts that hit another one's way out, a tick that replaces the
frame, exceptions through trap gates, and system calls. `kmain`'s context becomes
the idle thread's at the first tick. `saved` keeps a thread's registers together
with the entries that were open below them.

The code can leave the path that `CpuEntry` describes, and the model then sets
`fate` to `astray` and follows it no further. `GsMatchesRing` says nothing of those
states and `RequestsServed` ends there. There are three ways.

* An exception's gate leaves interrupts on, so a tick may hit its stub before
  `swapgs` and switch to another thread with the program's GS base.
* `exit` may make another thread current while the CPU is still on the stack of the
  one that left. A tick inside of the fault handler then saves the frame under the
  wrong thread.
* `exit` may leave a thread ready whose registers point into a handler that has
  been left since; a later switch takes them up.

## The runs

| Run | What it checks |
|---|---|
| `sched_kernel` | Under preemption no thread is lost, exactly the current thread is Running, slices never wrap, the CPU runs the current thread from where it was, all other contexts are kept, and the ready queue is first in first out. |
| `sched_blocking` | With all primitives interleaved: one hook per thread, the current thread in no queue, waiting threads exactly those that are Blocked or asleep, the right kernel stack and page map, and each tick brings each sleeper one millisecond closer; every ready thread gets the CPU, and every sleep ends. |
| `sched_lone_yield` | A violation, see below. |
| `sched_lost_thread` | A violation, see below. |
| `library` | The list's pointers implement `Deques`. `memcpy`, `memset` and `memove` leave the whole region as it should be and nothing else changed, also where `memove` overwrites its own source. What `vsnprintf` writes for an argument reads back as that argument, and it never steps over the format's end. |
| `heap` | Pages are partitioned into free and owned runs, the count is exact, the late read in `alloc` reads the caller's own run, and a block's header names the run it came from; also after calls that found no memory. |
| `keyboard` | No key is lost, doubled, reordered or decoded wrongly before the buffer overflows, and the driver panics only when it is full; retries are bounded; every key is taken in the end. |
| `process` | The queues survive `exit`, from a system call or from several faults, and the steps of the handlers' own switches; other processes keep their places, and the exit leaves no thread of the process waiting. |
| `vmm` | A frame has one use, and the page tables implement `AddressSpaces`. |
| `elf` | `elf_load` reads inside the file only, maps pages outside the user half for segments that start beyond it only, and a program without such segments is in memory as linked. |
| `irq_locks` | One owner per lock, no handler on top of an owner, interrupts end up as they were. Deadlock is checked. |
| `cpu_entry` | From the boot loader's jump on: no interrupt comes before its handler, its device and the table are set up; the selectors in use describe what they are used for; the GS base is the right one wherever it matters; nothing gets between a switch and its frame; every interrupt request is served; and `kmain` comes to its loop, to `hcf` or to `klog_panic`. |

Deadlock is checked except where the system may stop: the machine halts
(`cpu_entry`), a panic or the bound on key presses ends a behaviour (`keyboard`,
`vmm`), a call returns (`elf`, `library`), or the model stops at `astray` or `torn`
(`heap`, `process`).

### Bounds, and why they are enough

* *Threads and slices.* Three threads give a current one, one in a queue and one
  that arrives. The default slice is 2 and the quantum 3, so that slices end
  before, at and after a quantum; the budgets 0, 1, 4 and 7 add an empty slice, one
  shorter than the default and ones of more than one and more than two quanta.
  `Word` is 16, which a wrapped slice would show. `MaxSteps` of 1 tells a stale
  context from a fresh one. `sched_blocking` has two threads beside idle and two
  processes, which is where starving one thread by another shows; three take too
  long with liveness, and the proof covers its other properties for any number.
* *Exits.* Three threads of two processes; two fault handlers can be unfinished at
  a time (`MaxHandlers`). Slices of up to 2 ms and sleeps of 1 and 2 ms leave room for
  ticks that only count. The proof covers all others.
* *Lists.* Two lists and three values have every position: head, middle and tail.
* *Memory functions.* Pointers 0 to 2 and sizes 0, 1 and 3 overlap from both sides
  by none, some or all of the bytes. The proof covers all others.
* *Formats.* All formats of up to four characters (`MAX_FORMAT`) over the ones the
  switch tells apart: two conversions, or one `%llx`. An `int` has 8 bits and a
  `long long` 16. Among the arguments are 0, the largest unsigned values and the most
  negative `int`. `tmp` holds just the digits of the largest value, as the code's
  `tmp[20]` and `tmp[16]` do for 64 bits.
* *Pages.* Two usable ranges, one of two pages, and a boot loader's range
  between them; requests for one to three pages split a run, fit one, or fail. Heap blocks
  take one or two pages with their header. The proof covers all others.
* *Page tables.* Three levels of two entries have a top, an inner and a leaf
  level. Eleven frames hold the kernel's tables and two processes with a page
  each, and run out in many orders.
* *ELF.* Pages of two bytes, a user half of eight, a page map of eight pages and 5 bit
  sums; every header field takes values at and around its limit, and every pair of
  segments of a grid is loaded. Segments start in the user half, right behind it, a
  page map further, and at the end of all addresses. The proof covers all others.
* *Keyboard.* A buffer of three slots overflows with three keys (`MaxTyped`).
  The proof covers all others.
* *Locks.* Two CPUs, two locks, two held at once (`MaxHeld`) and one handler on
  top of a thread (`MaxDepth`). The proof covers all others.
* *Entry.* One user thread, idle and the terminal; lines 0 and 1, and line 12, which
  stays masked. The system call numbers are `exit`, an empty slot and one past the
  table; the fault is the general protection fault, the one that does not halt.
  The proof covers all others.

Symmetry over threads or processes is used in runs without liveness properties
only.

### Fairness

* `Scheduler`: the timer tick is weakly fair. The PIT is programmed as a periodic
  source and every entry point leaves interrupts enabled. No caller is fair.
* `Keyboard`: the terminal is weakly fair, because the scheduler gives a ready
  thread the CPU again and again (`ReadyRuns`). The interrupt is strongly fair: the
  PIC holds a request while interrupts are off. The keyboard finishes a key it has
  begun, and need not answer commands.
* `CpuEntry`: code in the kernel goes on (weak fairness of `KernelStep`). A request
  that is pending again and again while interrupts are on is taken (strong
  fairness of each `Interrupt`). `kmain` gets on between interrupts (strong
  fairness of `kmain_runs`), because a device's requests are many instructions
  apart. Programs, devices and the terminal are not fair.
* `SingleDeque` and `Deques`: a loop that has begun goes on.

## The proofs

`SchedulerProofs` and `DispatchProofs` work for every set of threads and processes,
every slice and sleep time below `Word`, and every quantum, from the assumptions
named in `Scheduler` and `Dispatch`: `Idle` is not one of `Threads`, the kernel's process
is one of `Procs`, the default slice is positive, the quantum is at least 1 and
smaller than `Word`. For `Dispatch`, the default slice is not longer than the
quantum (6 ms and 100 ms in the code).

**SchedulerProofs** proves eight invariants of `BlockingSpec`: `TypeOK`,
`LinkedOnce`, `CurrNotQueued`, `WaitingIffParked`, `StacksFollowCurr`,
`UserThreadHasOwnCr3`, `SliceBounded` and `Unlocked`. They are not inductive one by
one. That the current thread is in no queue needs the queues to be free of
duplicates, that the lock counters do not wrap needs their value at every nesting
depth, and CR3 is right only if the idle thread belongs to the kernel's process.
`IInv` joins them. Its parts are predicates of a record (`Core`, `CurrOut`,
`Depth`), so that they can be stated between nested calls, where the scheduler is
locked and a thread may be on its way from one queue to another. There is a lemma
for each member function, one step for each action, and an induction over the loop
in `pit_irq_handler` through the least turn at which it would fail.

The same lemmas carry two theorems about `PSpec`: the queues survive `exit` and every
step of the switches that fault handlers make (`QueuesSurviveExit`), and kernel stacks
and page maps are right whenever no such switch is under way. Neither says anything once a
tick broke into a switch (`torn`). `IInv` itself does
not: a thread that `exit` takes out of `waiting_queue` stays Blocked or asleep, so
`WaitingIffParked` ends there. The predicates therefore have a parameter `T`, the
threads that are still tracked, and `PInv` says that there is such a set, that all
others were handed to the scheduler before, and that only threads of the set are
queued or run. An exit shrinks `T`; nothing ever brings the others back.
While a handler switches, there is one predicate for each step that it has taken
(`PickedOK`, `QueuedOK`, `MovedOK`): the next thread is in no queue, the current one
may be in `ready_threads` already, and a tick that only counts keeps them all.

**DispatchProofs** proves six invariants of `DKernelSpec`: `NoThreadLost`,
`RunningIffCurr`, `NoQuantumOwed`, `SlicesNeverWrap`, `CpuRunsCurr` and
`ContextsKept`. `KInv` adds to `IInv` that nobody waits, that exactly the current
thread is Running, which is why `switch_task` puts it back in the queue, and that
slices stay at or below what was asked for. In the middle of a tick a weaker
predicate holds: a quantum may be owed, but only by a thread other than idle with
more than a quantum left, which is why the subtraction cannot wrap. `CInv` adds
the contexts, and that a thread not yet handed to the scheduler has taken no step.

It also proves the properties of steps. Each follows from what one call does to the
queues of a scheduler record for which `IInv` (or `PInv`) holds, composed along the
calls that the action nests.

* `ReadyIsFifo`, of `BlockingSpec` and of `DKernelSpec`. `Shifted` says that at most the
  head has left and the rest has stayed in front. A tick that wakes threads and then
  switches only appends before it shifts, so the two compose to one shift.
* `TicksWakeSleepers`, of `BlockingSpec`. One turn of the loop in `pit_irq_handler`
  serves the thread it stands on and touches no other (`OneServed`); an induction over
  the turns, through the first one that would fail, gives the whole loop. It needs that
  no thread is in the queue twice. The switch that follows changes no sleep time.
* `ExitSparesOthers`, of `PSpec`. `DropOK` says what the loop of `exit` has done after
  some turns: the other processes' threads are in their order, and those of the dying
  process that it has passed are gone. `schedule()` then moves at most the head.

**LibraryProofs** proves `ListsImplementDeques`: the initial states and steps of
`SingleDeque` are initial states and steps (or stutters) of `Deques`, for any lists and
values. `NodesAssumption` is that the values can be numbered up to `Nodes`, and
`NullAssumption` that the null pointer is not one of them. This is all of the refinement
`ImplementsDeques` but the fairness of `LoopTurn`. The inductive invariant `DequeInv` says
that there are sequences that the pointers represent: `Represents` has each list linked
head to tail, ending in null, without a value twice and without a value that another
list holds, which is what one shared hook can carry. It also says where a loop is
(`StandsOn`): its pointer at a value of the list, and its next pointer, read before the
body ran, at the value behind it. This is why the body may relink the node. That a walk
over the hooks finds the whole list needs the pigeonhole principle, and both that and
the walk are shown through a least counterexample. There is a lemma for what each member
function does to the sequences and one for each action.

For the memory functions, `LibraryProofs` works for every set of pointers and sizes and
every number of byte values (`MemoryAssumption`: they are natural numbers, and a byte has a value).
`MovesWhole` and `ScansRight` speak of calls that have returned, so the invariant
`Progress` says how far the loop has come: what is done holds what it should, and
everything else is as it was. For `memove` the part that is done lies at the end
that the source does not reach into, which is why the direction of the loop matters.

**FreeListProofs** and **HeapProofs** work for every memory map whose entries do not overlap
(`MemmapAssumption`), for finitely many callers that ask for at least one page each
(`CallersAssumption`), and for every page size and every size to which the header can
be added without wrapping (`HeapAssumption`). `PmmPartitioned` is about the page
allocator alone, the other theorems are about `HeapSpec`: `PagesPartitioned`,
`RefCountExact`, `ReturnReadsOwnRun` and `HeaderNamesRun`, which is about the blocks that got memory. The free list lives in the
free pages, so the invariant first has to say that there is a list: `ListOK` names
the sequence of pages the walk from `freelist_head` meets, without a page twice and
with 0 at its end. `RunsOK` says that the runs of that sequence and the runs handed
out tile the memory that was given. What `unlink`, `split` and `push_list` do to a
list is a lemma each (in `FreeListProofs`); a run that is split leaves the same tiles. `HeapOK` says
that a run on its way out of `alloc` has the number of pages that `kmalloc` is about
to write into its header, and that no two blocks share a header; that no one else
writes there follows from `RunsOK`.

**ElfProofs** works for every page size, address width and set of limits, and for
files with any number of segments. `LimitsFit` is that the largest table the limits
let through does not wrap (512 * 512 above 32 bits, in 64 bits); `PagesFit` is that
the user half ends with a page and a page below the end of all addresses;
`FilesAssumption` gives the fields of a file their widths. `ReadsInsideFile` needs no
more: `ReadIInv` says that the table fits without wrapping and that every header
checked so far has its bounds. `MapsUserPagesOnly` looks at each mapped page by itself:
a segment that starts at or below `USER_ADDR_END` has passed the size check without
wrapping. `LoadedAsLinked` is about the programs whose LOAD segments all do (`LinkedLow`);
pages of another segment could share entries with theirs. `OrderOK` says that the segments that were checked ascend
without sharing a page, which makes the second loop harmless to what it has loaded
already; `SpaceOK` says what that is, page by page. `Segment` ties the rounded
addresses to page numbers.

**InterruptProofs**, for the keyboard, works for a ring buffer of any length of at least 2, any retry
limit of at least 1 and any number of key presses. Keys are scan codes from 1 to 127;
`KeyboardAssumption` leaves out the three whose release byte is `0xE0`, `0xFA` or
`0xFE`, which the driver would take for a prefix or a reply. A buffer is a queue:
`BufHolds`, `BufWrite` and `BufRead` relate the indices, the size and the contents.
`BytesOK` says where the bytes of the one key on
its way can be (in the keyboard, its prefix in the controller, its prefix seen, its
last byte in the controller), each with replies in between, and so that no step but
the last moves the code that the bytes stand for. `RetryOK` ties the count of
refusals to the number of transmissions.

**CpuProofs** works for any set of user threads, any devices beside the timer and the
keyboard on the second controller, any system call numbers and any faults (`DevicesAssumption`,
`EntryAssumption`), and for any nesting. It proves `GsMatchesRing`,
`InterruptsFindHandlers`, `SelectorsAgree` and `SwitchUndisturbed` of the
specification that begins at `kmain`'s first call. `BootOK` says what is set up, which
bits are masked and whether interrupts can be on at each of `kmain`'s calls. The
entries of a thread form a stack: only the first can come from ring 3, so it alone
decides which GS base is active (`GsOK`). Since a tick takes up a stack that was
saved earlier, the same is said of every saved stack (`SavedOK`), with one
exception, the stack just saved that the same tick takes up again. The parts in
`RunOK` hold unless `fate` is `astray`; those in `AlwaysOK` hold in any case.

**InterruptProofs**, for the locks, works for any CPUs and locks and any `MaxHeld` and
`MaxDepth`; the one assumption (`LocksAssumption`) is that locks are positive numbers.
`IInv` has a part for each CPU, `Local`: interrupts are on exactly where the thread
itself runs, wants them, holds nothing and has not passed its `cli`; each saved flag
says how they were before the lock or guard it was saved for; and locks are held in
ascending order. It follows that a CPU has at most one handler, on top of a context
that owns nothing. The other part, `Exclusive`, relates `data` to the owners on all
CPUs. Without it one CPU could overwrite the flags that another is to restore,
since the flags are kept in the lock. There is a lemma for each action.

`TypeOK`, `SliceBounded`, `Unlocked`, `NoQuantumOwed` and `ScansRight` are proved only;
every other proved property is also checked by a run.

Only model-checked:

* the liveness properties `ReadyRuns`, `SleepersWake`, `KeysAreTaken`, `RequestsServed`
  and `BootEnds`, and the fairness in `ImplementsDeques`, which are beyond the prover;
* `FramesHaveOneUse` and `ImplementsAddressSpaces` of `Vmm`: `free_table` is a recursion
  over the levels of the page tables, and what it frees would have to be known for every
  depth;
* `LogReadsBack` of `Logger`: what `vsnprintf` writes for a number is a recursion over
  its digits. Induction over data is out of the prover's reach.

## Where code and tests part

`sched_lost_thread` is kept as a run. `unblock` switches from idle to the woken
thread without making it Running; `switch_task` requeues only a Running thread, so
the tick that preempts it leaves it in no queue. `tests/schedule_tests.cpp:899`
says that a blocked thread "must not be dropped on the floor when the CPU switches
to idle".

So is `sched_lone_yield`. `yield` with nobody else ready queues a thread that stays
current; a later `sleep` or `block` links it a second time.
`tests/schedule_tests.cpp:644` says that a thread "has exactly one list hook, so it
cannot be linked into both", and the test at `:530` makes the call.

Others were met while modelling and are not kept as runs.

* Idle, and a kernel thread dispatched from it, keep the last process's page map
  (`tests/schedule_tests.cpp:819`).
* `sleep`, `block`, `yield` and `unblock` change `curr_thread` and no register;
  the caller runs on. `Dispatch` therefore covers preemption only.
* A used-up quantum can be left to another thread once threads sleep or block.
* `Pmm::alloc(0)` (`tests/pmm_tests.cpp:357`), and the count after a page map of
  segments with several pages is torn down (`:294`).
* `kmalloc` when memory has run out, and for a size that wraps: the tests expect a
  null pointer (`tests/heap_tests.cpp:122` to `:126`). `Heap` has the first case.
* A segment that starts beyond `USER_ADDR_END` passes `elf_load`'s size check. No line
  says what should become of it; `ElfLoader` follows the code.
* `exit` with a status other than -1 does nothing, and threads of a dead process
  that were ready run again (`user/entry.c:31`: "exit() must not return").
* `tests/irq_tests.cpp:20` expects a handler in `irq_handlers[32]`. Nothing registers
  one: vectors from 32 on are dispatched by a `switch`, which `CpuEntry` follows.
* An empty slot of the system call table (`tests/syscall_tests.cpp:192` records it
  as known). `CpuEntry` has the path, and the CPU stops there.

## Assumptions about the machine

A tick is handled within the PIT's period, so `unlock_scheduler`, which executes
`sti` inside the handler, does not let the next tick in. IRQ 0 and IRQ 1 are
unmasked and the others masked, as `Boot` shows. In `CpuEntry` no device raises a
request while another is being served, and contexts are kept by value: the kernel
stacks that frames lie on are not modelled. Callers of `unblock` name a thread that waits.
`Vmm::map` has no preemptible caller. A `SpinLock` is used through the classes that
mask interrupts, in ascending order.

## Not modelled

* Drawing on the frame buffer has no state that anything else reads. The tests of
  `ctype.cpp` look at one character. `vsnprintf` is given no size for the buffer of
  `klog`, and the length of a message is not checked here either.
* Programming the PIT is a sequence of port writes. No code calls `Timer::sleep` or
  reads the count of seconds.
* `VmRegion` lists are declared and never used. The plain `try_lock` has no caller.
* The TLB and the mapping of the kernel's own sections at boot are left out of
  `Vmm`. The bits of a descriptor, the scan code tables, the layout of a thread's
  first stack, thread statistics, names and pids are data.
* The zombie branch of `exit` is left out because no code sets a parent.
* The user's test programs: the models let a program make any call.
* IPC and a file system are on the roadmap of the kernel and have no code. The
  other system calls return constants or the pid.

## Plan

1. Kernel stacks as memory, so that the `astray` cases of `CpuEntry` can be followed
   to their end, and `Process` on the pointers of `SingleDeque`, for the `torn` ones; then `Scheduler` in place of its open choice of a thread.
2. `Vmm::map` as several steps, for callers that can be preempted.
3. Proofs: `FramesHaveOneUse`, once `free_table` is stated without recursion.
