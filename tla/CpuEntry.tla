------------------------------ MODULE CpuEntry ------------------------------
(***************************************************************************)
(* How the CPU gets into the kernel and out of it, from the boot loader's  *)
(* jump on: the stub of system/isr.s, the dispatch of system/irq.cpp, the  *)
(* interrupt service routines of dev/, the exception handlers of           *)
(* system/exceptions.cpp, and the system call path of arch/syscall.s and   *)
(* sys/syscalls.cpp, one step per instruction that matters to them.  The   *)
(* boot context of module Boot runs where no entry is open and becomes the *)
(* idle thread's at the first tick.  Which thread the scheduler switches   *)
(* to is left open: the module Scheduler says that.                        *)
(*                                                                         *)
(* An interrupt is handled before its device raises the next one.  A       *)
(* thread's context is kept by value: the kernel stacks its frames lie on  *)
(* are not modelled.                                                       *)
(***************************************************************************)
EXTENDS Boot

CONSTANTS
  UserThreads,
  Registered,    \* the slots init_syscalls fills, exit aside
  SysExit,       \* the slot of exit
  Numbers,       \* the system call numbers a program uses
  MAX_SYSCALLS,
  Faults         \* the exceptions a program causes

Threads == {Idle, Terminal} \cup UserThreads

ASSUME EntryAssumption ==
  /\ Idle # Terminal /\ {Idle, Terminal} \cap UserThreads = {}
  /\ Numbers \subseteq Nat /\ MAX_SYSCALLS \in Nat
  /\ Registered \cup {SysExit} \subseteq 0 .. MAX_SYSCALLS - 1
  /\ Faults \subseteq 0 .. 31

VARIABLES
  ring,         \* the privilege level, 0 or 3
  curr_thread,
  saved,        \* saved[t]: t's registers, the privilege level in them and
                \* the entries below the one they were saved at
  entries,      \* the entries into the kernel that are not left, latest last
  fate          \* "runs", "halted" in cli; hlt, or "astray": switched with
                \* the wrong GS base or to a context that is no more, and
                \* followed no further

entryvars == <<ring, curr_thread, saved, entries, fate>>
vars == <<bootvars, entryvars>>

setup == <<limine, kmain, k>>

(* An entry: its kind, where it is, its line, vector or system call        *)
(* number, the thread it interrupted, the privilege level it came from,    *)
(* and the one in the frame it will return through.                        *)
Entry(kind, pc, n) ==
  [kind |-> kind, pc |-> pc, n |-> n, by |-> curr_thread, came |-> ring, cs |-> ring]

(* The latest entry, and those below it.                                   *)
Top == entries[Len(entries)]

Under == SubSeq(entries, 1, Len(entries) - 1)

InIrq == \E i \in DOMAIN entries : entries[i].kind = "irq"

At(pc) == fate = "runs" /\ entries # <<>> /\ Top.pc = pc

(* In the handler of a line or a vector.                                   *)
In(kind, n) == At("isr") /\ Top.kind = kind /\ Top.n = n

Become(e) == entries' = [entries EXCEPT ![Len(entries)] = e]

GoTo(pc) == Become([Top EXCEPT !.pc = pc])

swapgs == gs' = CASE gs = "kernel" -> "user" [] gs = "user" -> "kernel" [] OTHER -> gs

Context(privilege, below) == [cs |-> privilege, below |-> below]

(* Below registers that were taken up again inside of a handler.           *)
Left == <<[kind |-> "left", pc |-> "left"]>>

Init ==
  /\ BootInit
  /\ ring = 0 /\ curr_thread = Idle
  /\ saved = [t \in Threads |-> Context(IF t \in UserThreads THEN 3 ELSE 0, <<>>)]
  /\ entries = <<>>
  /\ fate = "runs"
-----------------------------------------------------------------------------
(* kmain goes on where no entry is open; the idle thread is its context.   *)
kmain_runs == BootStep /\ entries = <<>> /\ curr_thread = Idle /\ UNCHANGED entryvars

(* A kernel thread hands a user thread to the scheduler.                   *)
add_ready_threads(t) ==
  /\ curr_thread = Terminal /\ entries = <<>> /\ t \notin k.live
  /\ k' = [k EXCEPT !.live = @ \cup {t}]
  /\ UNCHANGED <<limine, kmain, pic, IF_, gs, entryvars>>

(* The lines that are let through: the second controller is wired to line  *)
(* 2 of the first.                                                         *)
Unmasked ==
  {l \in Devices : l % 8 \notin pic.mask[Port(l)] /\ (l >= 8 => 2 \notin pic.mask.master)}

(* A device raises its line.  A key's request that comes while a tick is   *)
(* served, or the other way round, is taken as if it had come just before. *)
Raise(l) ==
  /\ fate = "runs" /\ ~InIrq
  /\ pic' = [pic EXCEPT !.irr = @ \cup {l}]
  /\ UNCHANGED <<setup, IF_, gs, entryvars>>

(* The CPU takes the request of the highest priority, unless one of at     *)
(* least that priority is in service, through an interrupt gate.           *)
Interrupt(l) ==
  /\ fate = "runs" /\ IF_
  /\ l \in pic.irr \cap Unmasked /\ \A h \in pic.irr \cap Unmasked : l <= h
  /\ \A s \in pic.isr : l < s
  /\ pic' = [pic EXCEPT !.irr = @ \ {l}, !.isr = @ \cup {l}]
  /\ entries' = Append(entries, Entry("irq", "stub", l))
  /\ ring' = 0 /\ IF_' = FALSE
  /\ UNCHANGED <<setup, gs, curr_thread, saved, fate>>

(* An exception.  idt_init gives them trap gates, which leave IF alone.    *)
Exception(v) ==
  /\ entries' = Append(entries, Entry("exception", "stub", v))
  /\ ring' = 0
  /\ UNCHANGED <<setup, pic, IF_, gs, curr_thread, saved, fate>>

(* A program's instruction faults.                                         *)
Fault(v) == fate = "runs" /\ ring = 3 /\ Exception(v)

(* The stub's testb, jz and swapgs, on the frame the CPU pushed.           *)
StubIn ==
  /\ At("stub")
  /\ IF Top.cs = 3 THEN swapgs ELSE gs' = gs
  /\ GoTo("isr")
  /\ UNCHANGED <<setup, pic, IF_, ring, curr_thread, saved, fate>>

(* A switch away from the code below the tick that goes wrong: the stub of *)
(* an exception has not come to its swapgs, or an exit has made another    *)
(* thread than the one whose stack this is the current one.                *)
Misplaced(t) ==
  \/ t # curr_thread /\ gs = "user"
  \/ Len(entries) > 1 /\ entries[1].by # curr_thread

(* Mutant: the interrupt is acknowledged first. *)
isr_timer_eoi_first(t) ==
  /\ In("irq", 0)
  /\ saved' = [saved EXCEPT ![curr_thread] = Context(Top.cs, Under)]
  /\ curr_thread' = t
  /\ fate' = IF Misplaced(t) THEN "astray" ELSE fate
  /\ GoTo("copy")
  /\ IF_' = TRUE
  /\ pic' = [pic EXCEPT !.isr = {}]
  /\ UNCHANGED <<setup, gs, ring>>

(* isr_timer, to the end of pit_irq_handler's unlock_scheduler: the frame  *)
(* is saved as the thread's registers, the thread to run next is chosen,   *)
(* and sti has turned interrupts on.                                        *)
isr_timer(t) ==
  /\ In("irq", 0)
  /\ saved' = [saved EXCEPT ![curr_thread] = Context(Top.cs, Under)]
  /\ curr_thread' = t
  /\ fate' = IF Misplaced(t) THEN "astray" ELSE fate
  /\ GoTo("copy")
  /\ IF_' = TRUE
  /\ UNCHANGED <<setup, pic, gs, ring>>

(* The end of pit_irq_handler: *frame = curr_thread->registers.  exit may  *)
(* leave a thread ready with the registers of its last tick: if that hit a *)
(* handler, which has been left since, they lead nowhere.                  *)
CopyFrame ==
  LET context == saved[curr_thread]
  IN  /\ At("copy")
      /\ entries' = Append(context.below, [Top EXCEPT !.pc = "eoi", !.cs = context.cs])
      /\ fate' = IF context.below = Left THEN "astray" ELSE fate
      /\ saved' = [saved EXCEPT ![curr_thread].below = IF @ = <<>> THEN @ ELSE Left]
      /\ UNCHANGED <<setup, pic, IF_, gs, ring, curr_thread>>

(* isr_keyboard up to eoi: it takes the byte and touches nothing here.     *)
isr_keyboard ==
  /\ In("irq", 1)
  /\ GoTo("eoi")
  /\ UNCHANGED <<bootvars, ring, curr_thread, saved, fate>>

(* All but the line of the highest priority.                               *)
Lower(lines) == {l \in lines : \E h \in lines : h < l}

(* Mutant: only the timer acknowledges its interrupt. *)
eoi_timer_only ==
  /\ At("eoi")
  /\ pic' = IF Top.n = 0 THEN [pic EXCEPT !.isr = Lower(@)] ELSE pic
  /\ GoTo("pops")
  /\ UNCHANGED <<setup, IF_, gs, ring, curr_thread, saved, fate>>

(* The command is not specific: it acknowledges the line of the highest    *)
(* priority among those in service.                                        *)
eoi ==
  /\ At("eoi")
  /\ pic' = [pic EXCEPT !.isr = Lower(@)]
  /\ GoTo("pops")
  /\ UNCHANGED <<setup, IF_, gs, ring, curr_thread, saved, fate>>

(* A general protection fault of a user process in ring 3: exit(-1), whose *)
(* switch leaves another thread as curr_thread and this frame as it is.    *)
x86_gp_fault_handler(t) ==
  /\ In("exception", 13) /\ curr_thread \in UserThreads /\ Top.cs = 3
  /\ curr_thread' = t
  /\ GoTo("schedule")
  /\ UNCHANGED <<bootvars, ring, saved, fate>>

(* Its second schedule().                                                  *)
gp_schedule(t) ==
  /\ At("schedule")
  /\ curr_thread' = t
  /\ GoTo("pops")
  /\ UNCHANGED <<bootvars, ring, saved, fate>>

(* The other handlers, and this one in every other case: cli; hlt.         *)
halt_on_exception ==
  /\ At("isr") /\ Top.kind = "exception"
  /\ ~(Top.n = 13 /\ curr_thread \in UserThreads /\ Top.cs = 3)
  /\ fate' = "halted" /\ IF_' = FALSE
  /\ UNCHANGED <<setup, pic, gs, ring, curr_thread, saved, entries>>

(* Mutant: swapgs on the way out as on the way in. *)
StubOut_as_entered ==
  /\ At("pops")
  /\ IF Top.came = 3 THEN swapgs ELSE gs' = gs
  /\ GoTo("iretq")
  /\ UNCHANGED <<setup, pic, IF_, ring, curr_thread, saved, fate>>

(* The second testb, on the frame as the handler left it.                  *)
StubOut ==
  /\ At("pops")
  /\ IF Top.cs = 3 THEN swapgs ELSE gs' = gs
  /\ GoTo("iretq")
  /\ UNCHANGED <<setup, pic, IF_, ring, curr_thread, saved, fate>>

(* Every frame that is returned through has IF set: it was pushed by an    *)
(* interrupt that was let in or by a program, or is SET_RFLAGS.            *)
Iretq ==
  /\ At("iretq")
  /\ ring' = Top.cs /\ IF_' = TRUE
  /\ entries' = Under
  /\ UNCHANGED <<setup, pic, gs, curr_thread, saved, fate>>
-----------------------------------------------------------------------------
(* The instruction syscall: SFMASK clears IF.                              *)
Syscall(n) ==
  /\ fate = "runs" /\ ring = 3
  /\ ring' = 0 /\ IF_' = FALSE
  /\ entries' = Append(entries, Entry("syscall", "handler", n))
  /\ UNCHANGED <<setup, pic, gs, curr_thread, saved, fate>>

(* syscall_hanlder: swapgs, and the stack through the GS base.             *)
syscall_hanlder ==
  /\ At("handler")
  /\ swapgs
  /\ GoTo("do_syscall_64")
  /\ UNCHANGED <<setup, pic, IF_, ring, curr_thread, saved, fate>>

(* do_syscall_64: a number past the table returns at once; exit may leave  *)
(* another thread as curr_thread; the others change nothing here.          *)
do_syscall_64(t) ==
  LET n == Top.n
  IN  /\ At("do_syscall_64")
      /\ n \in Registered \cup {SysExit} \/ n >= MAX_SYSCALLS
      /\ n # SysExit => t = curr_thread
      /\ curr_thread' = t
      /\ GoTo("popq")
      /\ UNCHANGED <<bootvars, ring, saved, fate>>

(* A slot that init_syscalls leaves empty is called all the same.          *)
CallEmptySlot ==
  /\ At("do_syscall_64")
  /\ Top.n \in (0 .. MAX_SYSCALLS - 1) \ (Registered \cup {SysExit})
  /\ Exception(14)

(* The way out: swapgs.                                                    *)
SyscallOut ==
  /\ At("popq")
  /\ swapgs
  /\ GoTo("sysretq")
  /\ UNCHANGED <<setup, pic, IF_, ring, curr_thread, saved, fate>>

Sysretq ==
  /\ At("sysretq")
  /\ ring' = 3 /\ IF_' = TRUE
  /\ entries' = Under
  /\ UNCHANGED <<setup, pic, gs, curr_thread, saved, fate>>

(* The steps of code that is in the kernel and will go on.                 *)
KernelStep ==
  \/ StubIn \/ CopyFrame \/ isr_keyboard \/ eoi \/ StubOut \/ Iretq
  \/ \E t \in k.live : isr_timer(t) \/ x86_gp_fault_handler(t) \/ gp_schedule(t)
                         \/ do_syscall_64(t)
  \/ halt_on_exception
  \/ syscall_hanlder \/ CallEmptySlot \/ SyscallOut \/ Sysretq

Next ==
  \/ kmain_runs
  \/ \E t \in UserThreads : add_ready_threads(t)
  \/ \E l \in Devices : Raise(l) \/ Interrupt(l)
  \/ \E v \in Faults : Fault(v)
  \/ \E n \in Numbers : Syscall(n)
  \/ KernelStep

(* A device's requests are many instructions apart, so kmain gets on       *)
(* between them.                                                           *)
Spec == Init /\ [][Next]_vars /\ WF_vars(KernelStep) /\ SF_vars(kmain_runs)
        /\ \A l \in Devices : SF_vars(Interrupt(l))
-----------------------------------------------------------------------------
(* The GS base is the program's exactly where it must be: in ring 3 always *)
(* the program's, in a kernel thread and from a system call's swapgs to    *)
(* its next one always the kernel's, and in a service routine the kernel's *)
(* if it interrupted ring 3.  The two swapgs of an interrupt need not      *)
(* match: the tick may replace the frame, and an interrupt may hit another *)
(* one's way out, where interrupts are on and the base is swapped already. *)
(* Until init_syscall there is no kernel base, and no ring 3.              *)
GsMatchesRing ==
  fate # "astray" =>
  /\ ring = 3 => gs = "user"
  /\ ring = 0 /\ entries = <<>> => gs = IF Terminal \in k.live THEN "kernel" ELSE gs
  /\ At("do_syscall_64") \/ At("popq") => gs = "kernel"
  /\ At("isr") /\ Top.came = 3 => gs = "kernel"

(* No interrupt comes too early: it finds the table loaded, the vectors    *)
(* moved away from the exceptions', a routine for its line, and that       *)
(* routine's device and data set up.                                       *)
InterruptsFindHandlers ==
  \A i \in DOMAIN entries : entries[i].kind = "irq" =>
    /\ pic.vector = 32 /\ {"idt_init", "idtr", "g_tty"} \subseteq k.ready
    /\ \/ entries[i].n = 0 /\ {"init_pit", "reset_tick", "run_global_ctors"} \subseteq k.ready
       \/ entries[i].n = 1 /\ {"ps2_keyboard_init", "run_global_ctors"} \subseteq k.ready

(* unlock_scheduler turns interrupts on while curr_thread is the thread to *)
(* run next and the frame is still that of the one before.  Nothing gets   *)
(* in there: the line in service keeps every other request out.            *)
SwitchUndisturbed ==
  \A i \in DOMAIN entries : entries[i].pc = "copy" => i = Len(entries)

(* Every request that is let through is taken, whatever the tick switches  *)
(* to and however many system calls and faults there are, unless the CPU   *)
(* was stopped, by a handler or by a panic of the boot: each line is       *)
(* acknowledged after every service, and IF is always set again.           *)
RequestsServed ==
  \A l \in Devices :
    l \in pic.irr \cap Unmasked ~>
      l \notin pic.irr \cap Unmasked \/ fate # "runs" \/ Order[kmain] = "klog_panic"

(* kmain comes to its loop and waits there with interrupts on, or comes to *)
(* hcf with nothing set up that could interrupt it, or panics and cannot   *)
(* be interrupted any more: the ticks and keys that arrive from timer_init *)
(* on do not keep it from there.                                           *)
BootEnds ==
  <>(\/ Order[kmain] = "sti; hlt" /\ IF_
     \/ Order[kmain] = "hcf" /\ ~IF_ /\ "idtr" \notin k.ready
     \/ Order[kmain] = "klog_panic" /\ ~IF_ /\ entries = <<>>)
=============================================================================
