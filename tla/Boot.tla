------------------------------- MODULE Boot --------------------------------
(***************************************************************************)
(* kmain: what the kernel sets up, and in which order, from the boot       *)
(* loader's jump to the loop that waits for interrupts.  One step is one   *)
(* call, or the part of it between two moments at which the order matters  *)
(* to an interrupt.  The boot loader hands over with interrupts off.       *)
(*                                                                         *)
(* The 8259 pair is external: its mask bits, the requests pending at it    *)
(* and the lines in service.  Its first initialisation word clears all of  *)
(* them.                                                                   *)
(***************************************************************************)
EXTENDS Integers, Sequences

CONSTANTS
  Devices,      \* the lines with a device behind them
  Idle,         \* g_idle: kmain's own context becomes it at the first tick
  Terminal      \* the thread kmain starts

(* Among these lines a lower number is a higher priority.                  *)
ASSUME DevicesAssumption == {0, 1} \subseteq Devices /\ Devices \subseteq {0, 1} \cup 8 .. 15

VARIABLES
  limine,   \* the boot loader's answers
  kmain,    \* the call kmain is at, a position in Order
  k,        \* ready: what was set up; gdt: gdt_entries, by selector;
            \* selectors: those in use, each with what it must describe;
            \* live: the threads the scheduler knows
  pic,      \* vector: the one of line 0; mask: the bits set, by controller;
            \* irr: the lines with a request; isr: those in service
  IF_,      \* the interrupt flag
  gs        \* whose GS base is active, the other one is swapped out

bootvars == <<limine, kmain, k, pic, IF_, gs>>

(* kmain, inital_init, exception_load, timer_init and keyboard_init, call  *)
(* by call.  The last two are where a check ends that fails: hcf for the   *)
(* boot loader's answers, klog_panic for the register that holds the entry *)
(* point of system calls.                                                  *)
Order ==
  <<"base_revision_check", "init_pmm", "Vmm::init", "run_global_ctors",
    "framebuffer_request", "g_tty", "init_gdt_entries", "refresh", "pic_remap",
    "irq_mask", "idt_init", "idtr_asm_load", "init_pit", "reset_tick",
    "irq_unmask 0", "ps2_keyboard_init", "irq_unmask 1", "init_cpu",
    "init_syscall", "cli", "Terminal::start", "sti; hlt", "hcf", "klog_panic">>

KERNEL_CODE == 8
USER_DATA == 24
USER_CODE == 32

Segment(type, dpl) == [type |-> type, dpl |-> dpl]

BootInit ==
  /\ limine \in [revision : BOOLEAN, framebuffers : 0 .. 1]
  /\ kmain = 1
  /\ k = [ready |-> {}, gdt |-> <<>>, selectors |-> {}, live |-> {}]
  /\ pic = [vector |-> 8, mask |-> [master |-> 0 .. 7, slave |-> 0 .. 7],
            irr |-> {}, isr |-> {}]
  /\ IF_ = FALSE /\ gs = "none"
-----------------------------------------------------------------------------
Call(f) == Order[kmain] = f /\ kmain' = kmain + 1 /\ UNCHANGED limine

(* The two checks, and where they end when they fail.                      *)
Check ==
  /\ \/ Call("base_revision_check") /\ limine.revision
     \/ Call("framebuffer_request") /\ limine.framebuffers >= 1
  /\ UNCHANGED <<k, pic, IF_, gs>>

hcf ==
  /\ \/ Order[kmain] = "base_revision_check" /\ ~limine.revision
     \/ Order[kmain] = "framebuffer_request" /\ limine.framebuffers < 1
  /\ kmain' = Len(Order) - 1
  /\ UNCHANGED <<limine, k, pic, IF_, gs>>

(* The calls that fill memory and device registers.  init_pit programs the *)
(* timer's period and reset_tick clears its counts; ps2_keyboard_init      *)
(* empties the controller; init_cpu fills the table of system calls.       *)
SetUp ==
  \E f \in {"init_pmm", "Vmm::init", "g_tty", "idt_init", "init_pit", "reset_tick",
            "ps2_keyboard_init", "init_cpu"} :
    /\ Call(f)
    /\ k' = [k EXCEPT !.ready = @ \cup {f}]
    /\ UNCHANGED <<pic, IF_, gs>>

(* g_kernel_process, g_idle, g_scheduler and g_keyboard are constructed.   *)
run_global_ctors ==
  /\ Call("run_global_ctors")
  /\ k' = [k EXCEPT !.ready = @ \cup {"run_global_ctors"}, !.live = {Idle}]
  /\ UNCHANGED <<pic, IF_, gs>>

(* Mutant: the user's code comes before the user's data. *)
gdt_entries_code_first ==
  [s \in {8, 16, 24, 32, 40} |->
     CASE s = 8  -> Segment("code", 0) [] s = 16 -> Segment("data", 0)
       [] s = 24 -> Segment("code", 3) [] s = 32 -> Segment("data", 3)
       [] s = 40 -> Segment("tss", 0)]

gdt_entries ==
  [s \in {8, 16, 24, 32, 40} |->
     CASE s = 8  -> Segment("code", 0) [] s = 16 -> Segment("data", 0)
       [] s = 24 -> Segment("data", 3) [] s = 32 -> Segment("code", 3)
       [] s = 40 -> Segment("tss", 0)]

init_gdt_entries ==
  /\ Call("init_gdt_entries")
  /\ k' = [k EXCEPT !.gdt = gdt_entries]
  /\ UNCHANGED <<pic, IF_, gs>>

Use(s) == k' = [k EXCEPT !.selectors = @ \cup s]

(* gdt_flush: the task register, the data segments and the code segment.   *)
(* Loading GS clears its base.                                             *)
refresh ==
  /\ Call("refresh")
  /\ Use({<<40, Segment("tss", 0)>>, <<16, Segment("data", 0)>>, <<8, Segment("code", 0)>>})
  /\ gs' = "none"
  /\ UNCHANGED <<pic, IF_>>

(* disable_lapic leaves the 8259 pair as the only controller; pic_remap    *)
(* starts it again, with nothing masked.                                   *)
pic_remap ==
  /\ Call("pic_remap")
  /\ pic' = [vector |-> 32, mask |-> [master |-> {}, slave |-> {}], irr |-> {}, isr |-> {}]
  /\ UNCHANGED <<k, IF_, gs>>

Port(line) == IF line < 8 THEN "master" ELSE "slave"

(* The bits of these lines in the mask of one controller.                  *)
Bits(lines, port) == {line % 8 : line \in {l \in lines : Port(l) = port}}

(* irq_mask, called for each of these lines.                               *)
irq_mask(p, lines) ==
  [p EXCEPT !.mask = [port \in {"master", "slave"} |-> @[port] \cup Bits(lines, port)]]

irq_unmask(p, line) == [p EXCEPT !.mask[Port(line)] = @ \ {line % 8}]

(* Mutant: the loop leaves out the lines of the first controller. *)
MaskAll_slave ==
  /\ Call("irq_mask")
  /\ pic' = irq_mask(pic, 8 .. 15)
  /\ UNCHANGED <<k, IF_, gs>>

(* exception_load's loop over the 16 lines.                                *)
MaskAll ==
  /\ Call("irq_mask")
  /\ pic' = irq_mask(pic, 0 .. 15)
  /\ UNCHANGED <<k, IF_, gs>>

(* cli; lidt; sti.  The gates that idt_init filled name KERNEL_CODE.       *)
idtr_asm_load ==
  /\ Call("idtr_asm_load")
  /\ k' = [k EXCEPT !.ready = @ \cup {"idtr"},
                    !.selectors = @ \cup {<<KERNEL_CODE, Segment("code", 0)>>}]
  /\ IF_' = TRUE
  /\ UNCHANGED <<pic, gs>>

Unmask ==
  /\ \/ Call("irq_unmask 0") /\ pic' = irq_unmask(pic, 0)
     \/ Call("irq_unmask 1") /\ pic' = irq_unmask(pic, 1)
  /\ UNCHANGED <<k, IF_, gs>>

(* The GS base, and STAR with 8 and 16: syscall loads 8 and the selector   *)
(* after it, sysretq the ones 16 and 8 above 16.  The frames of user       *)
(* threads hold USER_CODE and USER_DATA.                                   *)
write_msrs ==
  /\ gs' = "kernel"
  /\ Use({<<8, Segment("code", 0)>>, <<8 + 8, Segment("data", 0)>>,
          <<16 + 16, Segment("code", 3)>>, <<16 + 8, Segment("data", 3)>>,
          <<USER_CODE, Segment("code", 3)>>, <<USER_DATA, Segment("data", 3)>>})

(* LSTAR reads back as it was written.                                     *)
init_syscall ==
  /\ Call("init_syscall")
  /\ write_msrs
  /\ UNCHANGED <<pic, IF_>>

(* It does not: cli and hlt for good, with ticks and keys set up already.  *)
klog_panic ==
  /\ Order[kmain] = "init_syscall" /\ kmain' = Len(Order)
  /\ write_msrs
  /\ IF_' = FALSE
  /\ UNCHANGED <<limine, pic>>

Cli ==
  /\ Call("cli")
  /\ IF_' = FALSE
  /\ UNCHANGED <<k, pic, gs>>

Start ==
  /\ Call("Terminal::start")
  /\ k' = [k EXCEPT !.live = @ \cup {Terminal}]
  /\ UNCHANGED <<pic, IF_, gs>>

(* Mutant: the loop of set_idle, hlt alone. *)
WaitForInterrupt_hlt ==
  /\ Order[kmain] = "sti; hlt" /\ ~IF_
  /\ UNCHANGED bootvars

(* The loop at the end of kmain, which the idle thread runs from then on.  *)
WaitForInterrupt ==
  /\ Order[kmain] = "sti; hlt" /\ ~IF_
  /\ IF_' = TRUE
  /\ UNCHANGED <<limine, kmain, k, pic, gs>>

BootStep ==
  \/ Check \/ hcf \/ SetUp \/ run_global_ctors \/ init_gdt_entries \/ refresh
  \/ pic_remap \/ MaskAll \/ idtr_asm_load \/ Unmask \/ init_syscall
  \/ klog_panic \/ Cli \/ Start \/ WaitForInterrupt
-----------------------------------------------------------------------------
(* Every selector in use describes what its user needs, wherever it is     *)
(* written down: the segment registers, the gates, STAR with the sums the  *)
(* CPU makes of it, and the frames of user threads.                        *)
SelectorsAgree ==
  \A s \in k.selectors : s[1] \in DOMAIN k.gdt /\ k.gdt[s[1]] = s[2]
=============================================================================
