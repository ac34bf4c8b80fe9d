------------------------------ MODULE CpuProofs ------------------------------
(***************************************************************************)
(* The boot sequence and the entries into the kernel keep their promises   *)
(* for any devices among the lines, any threads and any system calls.  The *)
(* invariant says what is set up at each call of kmain, and which entries  *)
(* can lie below which: it is about the stack of entries of the running    *)
(* thread and, as a tick may bring them back, about those that were saved. *)
(***************************************************************************)
EXTENDS CpuEntry, TLAPS

(* An element of a sequence over S is in S.                                *)
LEMMA SeqElement ==
  ASSUME NEW S, NEW s \in Seq(S), NEW n \in 1 .. Len(s)
  PROVE  s[n] \in S
  OBVIOUS

(* A sequence is a function on the numbers up to its length.               *)
LEMMA SeqLength ==
  ASSUME NEW S, NEW s \in Seq(S)
  PROVE  Len(s) \in Nat /\ s \in [1 .. Len(s) -> S] /\ DOMAIN s = 1 .. Len(s)
  OBVIOUS

(* A sequence with one element replaced.                                   *)
LEMMA SeqReplace ==
  ASSUME NEW S, NEW s \in Seq(S), NEW n \in 1 .. Len(s), NEW e \in S
  PROVE  /\ [s EXCEPT ![n] = e] \in Seq(S)
         /\ Len([s EXCEPT ![n] = e]) = Len(s)
         /\ \A j \in 1 .. Len(s) : [s EXCEPT ![n] = e][j] = IF j = n THEN e ELSE s[j]
  OBVIOUS

(* A part of a sequence.                                                   *)
LEMMA SeqPart ==
  ASSUME NEW S, NEW s, NEW m \in Int, NEW n \in Int, \A j \in m .. n : s[j] \in S
  PROVE  /\ SubSeq(s, m, n) \in Seq(S)
         /\ Len(SubSeq(s, m, n)) = IF m <= n THEN n - m + 1 ELSE 0
         /\ \A j \in 1 .. n - m + 1 : SubSeq(s, m, n)[j] = s[m + j - 1]
  OBVIOUS

(* Two sequences of one length with the same elements are the same.        *)
LEMMA SeqSame ==
  ASSUME NEW S, NEW s \in Seq(S), NEW t \in Seq(S),
         Len(s) = Len(t), \A j \in 1 .. Len(s) : s[j] = t[j]
  PROVE  s = t
  OBVIOUS

(* Only the empty sequence has length 0.                                   *)
LEMMA SeqEmpty ==
  ASSUME NEW S
  PROVE  <<>> \in Seq(S) /\ Len(<<>>) = 0 /\ \A s \in Seq(S) : s # <<>> => Len(s) \in Nat \ {0}
  OBVIOUS

(* A sequence over a set is one over a larger set.                         *)
LEMMA SeqWiden ==
  ASSUME NEW S, NEW T, NEW s \in Seq(S), S \subseteq T
  PROVE  s \in Seq(T)
  OBVIOUS

EntryRec == [kind : {"irq", "exception", "syscall"},
             pc : {"stub", "isr", "copy", "schedule", "eoi", "pops", "iretq",
                   "handler", "do_syscall_64", "popq", "sysretq"},
             n : Nat, by : Threads, came : {0, 3}, cs : {0, 3}]

(* What kmain has set up when it is at a call.  hcf is reached only from   *)
(* the checks, before anything could interrupt.                            *)
ReadyOK ==
  kmain # 23 =>
  /\ kmain > 4  => "run_global_ctors" \in k.ready
  /\ kmain > 6  => "g_tty" \in k.ready
  /\ kmain > 11 => "idt_init" \in k.ready
  /\ kmain > 12 => "idtr" \in k.ready
  /\ kmain > 13 => "init_pit" \in k.ready
  /\ kmain > 14 => "reset_tick" \in k.ready
  /\ kmain > 16 => "ps2_keyboard_init" \in k.ready

(* The calls at which the kernel's own segments are in use.                *)
Flat(m) == m \in 8 .. 22 \/ m = 24

GdtOK ==
  /\ Flat(kmain) => k.gdt = gdt_entries
  /\ ~Flat(kmain) => k.selectors = {}
  /\ \A s \in k.selectors : s[1] \in DOMAIN gdt_entries /\ gdt_entries[s[1]] = s[2]

PicOK ==
  /\ pic \in [vector : {8, 32}, mask : [{"master", "slave"} -> SUBSET (0 .. 7)],
              irr : SUBSET Devices, isr : SUBSET Devices]
  /\ kmain \in 10 .. 22 => pic.vector = 32
  /\ kmain \in 11 .. 22 => pic.mask["slave"] = 0 .. 7 /\ 2 .. 7 \subseteq pic.mask["master"]
  /\ kmain \in 11 .. 15 => 0 \in pic.mask["master"]
  /\ kmain \in 11 .. 17 => 1 \in pic.mask["master"]

(* Interrupts, other threads and programs come one after the other.        *)
PhaseOK ==
  /\ kmain \in 1 .. 24
  /\ kmain \notin 13 .. 22 => ~IF_ /\ entries = <<>>
  /\ kmain # 22 => k.live \subseteq {Idle} /\ curr_thread = Idle /\ ring = 0
  /\ kmain = 22 => Terminal \in k.live
  /\ k.live \subseteq Threads /\ curr_thread \in Threads
  /\ k = [ready |-> k.ready, gdt |-> k.gdt, selectors |-> k.selectors, live |-> k.live]
  /\ IF_ \in BOOLEAN

BootOK == ReadyOK /\ GdtOK /\ PicOK /\ PhaseOK
-----------------------------------------------------------------------------
(* An interrupt has a handler when kmain is at call m.                     *)
Handled(e, m) == e.kind = "irq" => (e.n = 0 /\ m > 15) \/ (e.n = 1 /\ m > 17)

(* An entry that another one may lie above: interrupts are off in the stub *)
(* of an interrupt and in its routine, and kept out at the copy.           *)
Calm(e, m) == Handled(e, m) /\ e.pc # "copy" /\ (e.kind = "irq" => e.pc \notin {"stub", "isr"})

(* An entry in itself.  Only kmain's last call lets programs run.          *)
EntryOK(e, m) ==
  /\ e.cs = 3 => m = 22
  /\ e.pc \in {"handler", "do_syscall_64", "popq", "sysretq"} => e.cs = 3
  /\ e.pc \in {"stub", "isr"} => e.cs = e.came

(* A stack of entries: only the first one can come from ring 3.            *)
StackOK(s, m) ==
  /\ s \in Seq(EntryRec)
  /\ \A i \in 1 .. Len(s) : EntryOK(s[i], m)
  /\ \A i \in 2 .. Len(s) : s[i].cs = 0

(* The entry runs with the program's GS base.                              *)
Outside(e) == e.cs = 3 /\ e.pc \in {"stub", "iretq", "handler", "sysretq"}

KernelGs(m) == IF m \in 20 .. 22 \/ m = 24 THEN "kernel" ELSE "none"

(* The GS base in ring 0 depends on the first entry alone.                 *)
GsIn0(s, m) == IF s # <<>> /\ Outside(s[1]) THEN "user" ELSE KernelGs(m)

GsOK == IF ring = 3 THEN gs = "user" /\ entries = <<>> ELSE gs = GsIn0(entries, kmain)

(* The latest entry: the line of an interrupt is in service, and nothing   *)
(* comes in, until its routine is done.  At the copy the context to be     *)
(* taken up is the one just saved, or the GS base is the kernel's.         *)
TopOK ==
  entries # <<>> =>
  /\ Top.kind = "irq" /\ Top.pc \in {"stub", "isr"} => ~IF_ /\ Top.n \in pic.isr
  /\ Top.pc = "copy" =>
       /\ Top.kind = "irq" /\ Top.n = 0 /\ 0 \in pic.isr
       /\ saved[curr_thread] = Context(Top.cs, Under) \/ gs = KernelGs(kmain)

(* A context that was saved inside of a handler was saved with the         *)
(* kernel's GS base, unless it is taken up again at once.                  *)
SavedStackOK(t) ==
  LET s == saved[t].below IN
  \/ s \in {<<>>, Left}
  \/ /\ StackOK(s, kmain) /\ s # <<>> /\ saved[t].cs = 0
     /\ Outside(s[1]) => entries # <<>> /\ Top.pc = "copy" /\ t = curr_thread /\ s = Under

SavedOK ==
  /\ saved \in [Threads -> [cs : {0, 3}, below : Seq(EntryRec) \cup {Left}]]
  /\ \A t \in Threads :
       /\ SavedStackOK(t)
       /\ saved[t].cs = 3 => kmain = 22 \/ t \in UserThreads
       /\ \A i \in 1 .. Len(saved[t].below) : Calm(saved[t].below[i], kmain)

(* What holds however a switch went, and what holds unless one went wrong. *)
AlwaysOK ==
  /\ fate \in {"runs", "halted", "astray"} /\ (fate # "runs" => entries # <<>>)
  /\ \A i \in 1 .. Len(entries) - 1 : Calm(entries[i], kmain)
  /\ entries # <<>> => Handled(Top, kmain)
  /\ DOMAIN entries = 1 .. Len(entries) /\ Len(entries) \in Nat

RunOK ==
  fate # "astray" => ring \in {0, 3} /\ StackOK(entries, kmain) /\ GsOK /\ TopOK /\ SavedOK

CpuIInv == BootOK /\ AlwaysOK /\ RunOK
-----------------------------------------------------------------------------
(* The calls by their numbers.                                             *)
Numbered(m) ==
  /\ Len(Order) = 24
  /\ Order[m] = "base_revision_check" <=> m = 1
  /\ Order[m] = "init_pmm" <=> m = 2
  /\ Order[m] = "Vmm::init" <=> m = 3
  /\ Order[m] = "run_global_ctors" <=> m = 4
  /\ Order[m] = "framebuffer_request" <=> m = 5
  /\ Order[m] = "g_tty" <=> m = 6
  /\ Order[m] = "init_gdt_entries" <=> m = 7
  /\ Order[m] = "refresh" <=> m = 8
  /\ Order[m] = "pic_remap" <=> m = 9
  /\ Order[m] = "irq_mask" <=> m = 10
  /\ Order[m] = "idt_init" <=> m = 11
  /\ Order[m] = "idtr_asm_load" <=> m = 12
  /\ Order[m] = "init_pit" <=> m = 13
  /\ Order[m] = "reset_tick" <=> m = 14
  /\ Order[m] = "irq_unmask 0" <=> m = 15
  /\ Order[m] = "ps2_keyboard_init" <=> m = 16
  /\ Order[m] = "irq_unmask 1" <=> m = 17
  /\ Order[m] = "init_cpu" <=> m = 18
  /\ Order[m] = "init_syscall" <=> m = 19
  /\ Order[m] = "cli" <=> m = 20
  /\ Order[m] = "Terminal::start" <=> m = 21
  /\ Order[m] = "sti; hlt" <=> m = 22
  /\ Order[m] = "hcf" <=> m = 23
  /\ Order[m] = "klog_panic" <=> m = 24

LEMMA Calls ==
  ASSUME NEW m \in 1 .. 24
  PROVE  Numbered(m)
  <1>1. \/ m = 1 \/ m = 2 \/ m = 3 \/ m = 4 \/ m = 5 \/ m = 6 \/ m = 7 \/ m = 8
          \/ m = 9 \/ m = 10 \/ m = 11 \/ m = 12 \/ m = 13 \/ m = 14 \/ m = 15
          \/ m = 16 \/ m = 17 \/ m = 18 \/ m = 19 \/ m = 20 \/ m = 21 \/ m = 22
          \/ m = 23 \/ m = 24
    OBVIOUS
  <1>2. CASE m = 1 BY <1>2 DEF Numbered, Order
  <1>3. CASE m = 2 BY <1>3 DEF Numbered, Order
  <1>4. CASE m = 3 BY <1>4 DEF Numbered, Order
  <1>5. CASE m = 4 BY <1>5 DEF Numbered, Order
  <1>6. CASE m = 5 BY <1>6 DEF Numbered, Order
  <1>7. CASE m = 6 BY <1>7 DEF Numbered, Order
  <1>8. CASE m = 7 BY <1>8 DEF Numbered, Order
  <1>9. CASE m = 8 BY <1>9 DEF Numbered, Order
  <1>10. CASE m = 9 BY <1>10 DEF Numbered, Order
  <1>11. CASE m = 10 BY <1>11 DEF Numbered, Order
  <1>12. CASE m = 11 BY <1>12 DEF Numbered, Order
  <1>13. CASE m = 12 BY <1>13 DEF Numbered, Order
  <1>14. CASE m = 13 BY <1>14 DEF Numbered, Order
  <1>15. CASE m = 14 BY <1>15 DEF Numbered, Order
  <1>16. CASE m = 15 BY <1>16 DEF Numbered, Order
  <1>17. CASE m = 16 BY <1>17 DEF Numbered, Order
  <1>18. CASE m = 17 BY <1>18 DEF Numbered, Order
  <1>19. CASE m = 18 BY <1>19 DEF Numbered, Order
  <1>20. CASE m = 19 BY <1>20 DEF Numbered, Order
  <1>21. CASE m = 20 BY <1>21 DEF Numbered, Order
  <1>22. CASE m = 21 BY <1>22 DEF Numbered, Order
  <1>23. CASE m = 22 BY <1>23 DEF Numbered, Order
  <1>24. CASE m = 23 BY <1>24 DEF Numbered, Order
  <1>25. CASE m = 24 BY <1>25 DEF Numbered, Order
  <1>26. QED
    BY <1>1, <1>2, <1>3, <1>4, <1>5, <1>6, <1>7, <1>8, <1>9, <1>10, <1>11, <1>12, <1>13,
       <1>14, <1>15, <1>16, <1>17, <1>18, <1>19, <1>20, <1>21, <1>22, <1>23, <1>24, <1>25

LEMMA Places ==
  ASSUME NEW c \in Nat \ {0}
  PROVE  c \in 1 .. c /\ (c # 1 => c \in 2 .. c) /\ c - 1 \in 0 .. c
  OBVIOUS

(* What a sequence starts with.                                            *)
LEMMA Prefix ==
  ASSUME NEW S, NEW s \in Seq(S), NEW n \in 0 .. Len(s)
  PROVE  /\ SubSeq(s, 1, n) \in Seq(S) /\ Len(SubSeq(s, 1, n)) = n
         /\ \A i \in 1 .. n : SubSeq(s, 1, n)[i] = s[i]
  <1>1. Len(s) \in Nat /\ n \in Int /\ 1 \in Int
    OBVIOUS
  <1>2. \A i \in 1 .. n : s[i] \in S
    <2>1. \A i \in 1 .. n : i \in 1 .. Len(s)
      BY <1>1
    <2>2. QED
      BY <2>1, SeqElement
  <1>3. /\ SubSeq(s, 1, n) \in Seq(S)
        /\ Len(SubSeq(s, 1, n)) = IF 1 <= n THEN n - 1 + 1 ELSE 0
        /\ \A i \in 1 .. n - 1 + 1 : SubSeq(s, 1, n)[i] = s[1 + i - 1]
    BY ONLY <1>1, <1>2, SeqPart
  <1>4. QED
    BY <1>1, <1>3

(* Stacks of entries: with one more, one less, and the latest replaced.    *)
LEMMA StackPush ==
  ASSUME NEW m, NEW s, StackOK(s, m), NEW e \in EntryRec, EntryOK(e, m), s # <<>> => e.cs = 0
  PROVE  LET r == Append(s, e) IN
         /\ StackOK(r, m) /\ r # <<>> /\ Len(r) = Len(s) + 1 /\ r[Len(r)] = e
         /\ \A i \in 1 .. Len(r) - 1 : r[i] = s[i]
         /\ r[1] = IF s = <<>> THEN e ELSE s[1]
         /\ SubSeq(r, 1, Len(r) - 1) = s
  <1> DEFINE r == Append(s, e)
  <1>1. s \in Seq(EntryRec) /\ Len(s) \in Nat
    BY DEF StackOK
  <1>2. /\ r \in Seq(EntryRec) /\ Len(r) = Len(s) + 1 /\ r[Len(s) + 1] = e
        /\ \A i \in 1 .. Len(s) : r[i] = s[i]
    BY <1>1
  <1>3. s = <<>> <=> Len(s) = 0
    BY <1>1
  <1> HIDE DEF r
  <1>4. StackOK(r, m)
    BY <1>1, <1>2, <1>3 DEF StackOK
  <1>5. SubSeq(r, 1, Len(s)) = s
    <2>1. /\ SubSeq(r, 1, Len(s)) \in Seq(EntryRec) /\ Len(SubSeq(r, 1, Len(s))) = Len(s)
          /\ \A i \in 1 .. Len(s) : SubSeq(r, 1, Len(s))[i] = s[i]
      BY <1>1, <1>2, Prefix
    <2>2. QED
      BY <1>1, <2>1, SeqSame
  <1>6. r[1] = IF s = <<>> THEN e ELSE s[1]
    BY <1>1, <1>2, <1>3
  <1>7. /\ StackOK(r, m) /\ r # <<>> /\ Len(r) = Len(s) + 1 /\ r[Len(r)] = e
        /\ \A i \in 1 .. Len(r) - 1 : r[i] = s[i]
        /\ SubSeq(r, 1, Len(r) - 1) = s
    BY <1>1, <1>2, <1>4, <1>5
  <1>8. QED
    BY <1>6, <1>7 DEF r

LEMMA StackPop ==
  ASSUME NEW m, NEW s, StackOK(s, m), s # <<>>
  PROVE  LET r == SubSeq(s, 1, Len(s) - 1) IN
         /\ Len(s) \in Nat \ {0} /\ s[Len(s)] \in EntryRec /\ EntryOK(s[Len(s)], m)
         /\ Len(s) # 1 => s[Len(s)].cs = 0
         /\ StackOK(r, m) /\ Len(r) = Len(s) - 1 /\ (r = <<>> <=> Len(s) = 1)
         /\ \A i \in 1 .. Len(r) : r[i] = s[i]
  <1> DEFINE r == SubSeq(s, 1, Len(s) - 1)
  <1>1. s \in Seq(EntryRec) /\ Len(s) \in Nat
    BY DEF StackOK
  <1>2. Len(s) \in Nat \ {0}
    BY <1>1
  <1>3. /\ r \in Seq(EntryRec) /\ Len(r) = Len(s) - 1
        /\ \A i \in 1 .. Len(s) - 1 : r[i] = s[i]
    BY <1>1, <1>2, Places, Prefix, Zenon
  <1>4. s[Len(s)] \in EntryRec
    BY <1>1, <1>2, SeqElement
  <1> HIDE DEF r
  <1>5. r = <<>> <=> Len(s) = 1
    BY <1>2, <1>3
  <1>6. StackOK(r, m)
    BY <1>2, <1>3 DEF StackOK
  <1>7. EntryOK(s[Len(s)], m) /\ (Len(s) # 1 => s[Len(s)].cs = 0)
    <2>1. Len(s) \in 1 .. Len(s) /\ (Len(s) # 1 => Len(s) \in 2 .. Len(s))
      BY <1>2, Places, Zenon
    <2>2. QED
      BY <2>1 DEF StackOK
  <1>8. QED
    BY <1>2, <1>3, <1>4, <1>5, <1>6, <1>7 DEF r

LEMMA StackSet ==
  ASSUME NEW m, NEW s, StackOK(s, m), s # <<>>,
         NEW e \in EntryRec, EntryOK(e, m), e.cs = s[Len(s)].cs
  PROVE  LET r == [s EXCEPT ![Len(s)] = e] IN
         /\ StackOK(r, m) /\ r # <<>> /\ Len(r) = Len(s) /\ r[Len(r)] = e
         /\ \A i \in 1 .. Len(r) - 1 : r[i] = s[i]
         /\ r[1] = IF Len(s) = 1 THEN e ELSE s[1]
         /\ SubSeq(r, 1, Len(r) - 1) = SubSeq(s, 1, Len(s) - 1)
  <1> DEFINE r == [s EXCEPT ![Len(s)] = e]
             n == Len(s)
  <1>1. s \in Seq(EntryRec) /\ n \in Nat \ {0}
    BY StackPop DEF StackOK
  <1>2. r \in Seq(EntryRec) /\ Len(r) = n /\ r[n] = e /\ \A i \in 1 .. n - 1 : r[i] = s[i]
    BY <1>1, SeqReplace
  <1> HIDE DEF r
  <1>3. StackOK(r, m)
    BY <1>1, <1>2 DEF StackOK
  <1>4. r # <<>> /\ r[1] = IF n = 1 THEN e ELSE s[1]
    BY <1>1, <1>2
  <1>5. SubSeq(r, 1, n - 1) = SubSeq(s, 1, n - 1)
    <2>1. /\ SubSeq(r, 1, n - 1) \in Seq(EntryRec) /\ Len(SubSeq(r, 1, n - 1)) = n - 1
          /\ \A i \in 1 .. n - 1 : SubSeq(r, 1, n - 1)[i] = r[i]
      BY <1>1, <1>2, Prefix
    <2>2. /\ SubSeq(s, 1, n - 1) \in Seq(EntryRec) /\ Len(SubSeq(s, 1, n - 1)) = n - 1
          /\ \A i \in 1 .. n - 1 : SubSeq(s, 1, n - 1)[i] = s[i]
      BY <1>1, Places, Prefix, Zenon
    <2>3. QED
      BY <1>1, <1>2, <2>1, <2>2, SeqSame
  <1>6. QED
    BY <1>1, <1>2, <1>3, <1>4, <1>5, Zenon DEF r
-----------------------------------------------------------------------------
(* kmain's calls, one case for each action of module Boot.                 *)
LEMMA BootInitOK == Init => CpuIInv
  <1> SUFFICES ASSUME Init PROVE CpuIInv
    OBVIOUS
  <1>1. BootOK
    <2>1. ReadyOK /\ GdtOK
      BY DEF Init, BootInit, ReadyOK, GdtOK, Flat
    <2>2. PicOK
      BY DEF Init, BootInit, PicOK
    <2>3. PhaseOK
      <3>1. k = [ready |-> k.ready, gdt |-> k.gdt, selectors |-> k.selectors, live |-> k.live]
        BY DEF Init, BootInit
      <3>2. /\ kmain = 1 /\ k.live = {} /\ entries = <<>> /\ curr_thread = Idle
            /\ ring = 0 /\ IF_ = FALSE
        BY DEF Init, BootInit
      <3>3. kmain \in 1 .. 24 /\ kmain # 22 /\ k.live \subseteq {Idle} /\ k.live \subseteq Threads
            /\ curr_thread \in Threads
        BY <3>2 DEF Threads
      <3>4. ~IF_ /\ IF_ \in BOOLEAN
        BY <3>2, Zenon
      <3>5. QED
        BY <3>1, <3>2, <3>3, <3>4, Zenon DEF PhaseOK
    <2>4. QED
      BY <2>1, <2>2, <2>3 DEF BootOK
  <1>2. entries = <<>> /\ entries \in Seq(EntryRec) /\ Len(entries) = 0
    BY SeqEmpty DEF Init
  <1>3. AlwaysOK
    BY <1>2 DEF Init, AlwaysOK
  <1>4. SavedOK
    <2>1. \A t \in Threads : saved[t].below = <<>> /\ saved[t].cs \in {0, 3}
                             /\ (saved[t].cs = 3 => t \in UserThreads)
      BY DEF Init, Context
    <2>2. saved \in [Threads -> [cs : {0, 3}, below : Seq(EntryRec) \cup {Left}]]
      BY <1>2 DEF Init, Context
    <2>3. QED
      BY <1>2, <2>1, <2>2 DEF SavedOK, SavedStackOK
  <1>5. RunOK
    BY <1>2, <1>4 DEF RunOK, Init, BootInit, StackOK, GsOK, GsIn0, KernelGs, TopOK
  <1>6. QED
    BY <1>1, <1>3, <1>5 DEF CpuIInv

LEMMA BootAt ==
  ASSUME PhaseOK
  PROVE  /\ Check => kmain \in {1, 5} /\ kmain' = kmain + 1
         /\ hcf => kmain \in {1, 5} /\ kmain' = 23
         /\ SetUp => kmain \in {2, 3, 6, 11, 13, 14, 16, 18} /\ kmain' = kmain + 1
         /\ run_global_ctors => kmain = 4 /\ kmain' = 5
         /\ init_gdt_entries => kmain = 7 /\ kmain' = 8
         /\ refresh => kmain = 8 /\ kmain' = 9
         /\ pic_remap => kmain = 9 /\ kmain' = 10
         /\ MaskAll => kmain = 10 /\ kmain' = 11
         /\ idtr_asm_load => kmain = 12 /\ kmain' = 13
         /\ Unmask => kmain \in {15, 17} /\ kmain' = kmain + 1
         /\ init_syscall => kmain = 19 /\ kmain' = 20
         /\ Cli => kmain = 20 /\ kmain' = 21
         /\ Start => kmain = 21 /\ kmain' = 22
         /\ WaitForInterrupt => kmain = 22 /\ kmain' = 22
         /\ klog_panic => kmain = 19 /\ kmain' = 24
  <1> USE DEF Call, Numbered
  <1>0. kmain \in 1 .. 24 /\ Numbered(kmain)
    BY Calls, Zenon DEF PhaseOK
  <1>1. Check => kmain \in {1, 5} /\ kmain' = kmain + 1
    BY <1>0, Zenon DEF Check
  <1>2. hcf => kmain \in {1, 5} /\ kmain' = 23
    <2>1. hcf => kmain \in {1, 5} /\ kmain' = 24 - 1
      BY <1>0, Zenon DEF hcf
    <2>2. QED
      BY <2>1
  <1>3. SetUp => kmain \in {2, 3, 6, 11, 13, 14, 16, 18} /\ kmain' = kmain + 1
    BY <1>0, Zenon DEF SetUp
  <1>4. run_global_ctors => kmain = 4 /\ kmain' = 5
    BY <1>0 DEF run_global_ctors
  <1>5. init_gdt_entries => kmain = 7 /\ kmain' = 8
    BY <1>0 DEF init_gdt_entries
  <1>6. refresh => kmain = 8 /\ kmain' = 9
    BY <1>0 DEF refresh
  <1>7. pic_remap => kmain = 9 /\ kmain' = 10
    BY <1>0 DEF pic_remap
  <1>8. MaskAll => kmain = 10 /\ kmain' = 11
    BY <1>0 DEF MaskAll
  <1>9. idtr_asm_load => kmain = 12 /\ kmain' = 13
    BY <1>0 DEF idtr_asm_load
  <1>10. Unmask => kmain \in {15, 17} /\ kmain' = kmain + 1
    BY <1>0, Zenon DEF Unmask
  <1>11. init_syscall => kmain = 19 /\ kmain' = 20
    BY <1>0 DEF init_syscall
  <1>12. Cli => kmain = 20 /\ kmain' = 21
    BY <1>0 DEF Cli
  <1>13. Start => kmain = 21 /\ kmain' = 22
    BY <1>0 DEF Start
  <1>14. WaitForInterrupt => kmain = 22 /\ kmain' = 22
    BY <1>0, Zenon DEF WaitForInterrupt
  <1>15. klog_panic => kmain = 19 /\ kmain' = 24
    BY <1>0, Zenon DEF klog_panic
  <1> QED
    BY <1>1, <1>2, <1>3, <1>4, <1>5, <1>6, <1>7, <1>8, <1>9, <1>10, <1>11, <1>12, <1>13, <1>14,
       <1>15

LEMMA BootMoves ==
  ASSUME PhaseOK, BootStep
  PROVE  /\ kmain \in 1 .. 22 /\ kmain' \in 1 .. 24
         /\ \/ kmain # 22 /\ kmain' = kmain + 1
            \/ kmain \in {1, 5} /\ kmain' = 23
            \/ kmain = 22 /\ kmain' = 22
            \/ kmain = 19 /\ kmain' = 24
  BY BootAt DEF BootStep

(* What a call does to k: it adds to what is ready, to the selectors in    *)
(* use and to the threads that live, and may set the table.                *)
Adds(ready, gdt, selectors, live) ==
  /\ k'.ready = k.ready \cup ready /\ k'.gdt = gdt
  /\ k'.selectors = k.selectors \cup selectors /\ k'.live = k.live \cup live
  /\ k' = [ready |-> k'.ready, gdt |-> k'.gdt, selectors |-> k'.selectors, live |-> k'.live]

(* The selectors that refresh and init_syscall put to use.                 *)
Refreshed == {<<40, Segment("tss", 0)>>, <<16, Segment("data", 0)>>, <<8, Segment("code", 0)>>}

OfSyscall == {<<8, Segment("code", 0)>>, <<8 + 8, Segment("data", 0)>>,
              <<16 + 16, Segment("code", 3)>>, <<16 + 8, Segment("data", 3)>>,
              <<USER_CODE, Segment("code", 3)>>, <<USER_DATA, Segment("data", 3)>>}

LEMMA BootK ==
  ASSUME PhaseOK
  PROVE  /\ Check => Adds({}, k.gdt, {}, {})
         /\ hcf => Adds({}, k.gdt, {}, {})
         /\ SetUp => Adds({Order[kmain]}, k.gdt, {}, {})
         /\ run_global_ctors => Adds({"run_global_ctors"}, k.gdt, {}, {Idle})
         /\ init_gdt_entries => Adds({}, gdt_entries, {}, {})
         /\ refresh => Adds({}, k.gdt, Refreshed, {})
         /\ pic_remap => Adds({}, k.gdt, {}, {})
         /\ MaskAll => Adds({}, k.gdt, {}, {})
         /\ idtr_asm_load => Adds({"idtr"}, k.gdt, {<<KERNEL_CODE, Segment("code", 0)>>}, {})
         /\ Unmask => Adds({}, k.gdt, {}, {})
         /\ init_syscall => Adds({}, k.gdt, OfSyscall, {})
         /\ Cli => Adds({}, k.gdt, {}, {})
         /\ Start => Adds({}, k.gdt, {}, {Terminal})
         /\ WaitForInterrupt => Adds({}, k.gdt, {}, {})
         /\ klog_panic => Adds({}, k.gdt, OfSyscall, {})
  <1>0. /\ k = [ready |-> k.ready, gdt |-> k.gdt, selectors |-> k.selectors, live |-> k.live]
        /\ kmain \in 1 .. 24
    BY DEF PhaseOK
  <1>k. k' = k => Adds({}, k.gdt, {}, {})
    BY <1>0 DEF Adds
  <1>1. Check => Adds({}, k.gdt, {}, {})
    BY <1>k DEF Check
  <1>2. hcf => Adds({}, k.gdt, {}, {})
    BY <1>k DEF hcf
  <1>3. ASSUME SetUp PROVE Adds({Order[kmain]}, k.gdt, {}, {})
    <2>1. k' = [k EXCEPT !.ready = @ \cup {Order[kmain]}]
      BY <1>3 DEF SetUp, Call
    <2>2. QED
      BY <1>0, <2>1 DEF Adds
  <1>4. ASSUME run_global_ctors PROVE Adds({"run_global_ctors"}, k.gdt, {}, {Idle})
    <2>1. kmain = 4
      BY <1>4, BootAt
    <2>2. k.live \cup {Idle} = {Idle}
      BY <2>1 DEF PhaseOK
    <2>3. k' = [k EXCEPT !.ready = @ \cup {"run_global_ctors"}, !.live = {Idle}]
      BY <1>4 DEF run_global_ctors
    <2>4. QED
      BY <1>0, <2>2, <2>3, Zenon DEF Adds
  <1>5. init_gdt_entries => Adds({}, gdt_entries, {}, {})
    BY <1>0 DEF init_gdt_entries, Adds
  <1>6. ASSUME refresh PROVE Adds({}, k.gdt, Refreshed, {})
    <2>1. k' = [k EXCEPT !.selectors = @ \cup Refreshed]
      BY <1>6 DEF refresh, Use, Refreshed
    <2>2. QED
      BY <1>0, <2>1, Zenon DEF Adds
  <1>7. pic_remap => Adds({}, k.gdt, {}, {})
    BY <1>k DEF pic_remap
  <1>8. MaskAll => Adds({}, k.gdt, {}, {})
    BY <1>k DEF MaskAll
  <1>9. idtr_asm_load => Adds({"idtr"}, k.gdt, {<<KERNEL_CODE, Segment("code", 0)>>}, {})
    BY <1>0, Zenon DEF idtr_asm_load, Adds
  <1>10. Unmask => Adds({}, k.gdt, {}, {})
    BY <1>k, Zenon DEF Unmask
  <1>11. ASSUME init_syscall PROVE Adds({}, k.gdt, OfSyscall, {})
    <2>1. k' = [k EXCEPT !.selectors = @ \cup OfSyscall]
      BY <1>11 DEF init_syscall, write_msrs, Use, OfSyscall
    <2>2. QED
      BY <1>0, <2>1 DEF Adds
  <1>12. Cli => Adds({}, k.gdt, {}, {})
    BY <1>k DEF Cli
  <1>13. Start => Adds({}, k.gdt, {}, {Terminal})
    BY <1>0 DEF Start, Adds
  <1>14. WaitForInterrupt => Adds({}, k.gdt, {}, {})
    BY <1>k, Zenon DEF WaitForInterrupt
  <1>15. ASSUME klog_panic PROVE Adds({}, k.gdt, OfSyscall, {})
    <2>1. k' = [k EXCEPT !.selectors = @ \cup OfSyscall]
      BY <1>15 DEF klog_panic, write_msrs, Use, OfSyscall
    <2>2. QED
      BY <1>0, <2>1 DEF Adds
  <1> QED
    BY <1>1, <1>2, <1>3, <1>4, <1>5, <1>6, <1>7, <1>8, <1>9, <1>10, <1>11, <1>12, <1>13, <1>14,
       <1>15

(* What is ready, call by call.                                            *)
LEMMA BootReady ==
  ASSUME PhaseOK, ReadyOK, BootStep
  PROVE  ReadyOK'
  <1>1. CASE Check
    BY <1>1, BootAt, BootK DEF ReadyOK, Adds
  <1>2. CASE hcf
    BY <1>2, BootAt, BootK DEF ReadyOK, Adds
  <1>3. CASE SetUp
    <2>1. kmain \in {2, 3, 6, 11, 13, 14, 16, 18} /\ kmain' = kmain + 1
      BY <1>3, BootAt
    <2>2. k'.ready = k.ready \cup {Order[kmain]}
      BY <1>3, BootK DEF Adds
    <2>3. Numbered(kmain)
      BY <2>1, Calls
    <2>4. /\ kmain = 6 => Order[kmain] = "g_tty"
          /\ kmain = 11 => Order[kmain] = "idt_init"
          /\ kmain = 13 => Order[kmain] = "init_pit"
          /\ kmain = 14 => Order[kmain] = "reset_tick"
          /\ kmain = 16 => Order[kmain] = "ps2_keyboard_init"
      BY <2>3, Zenon DEF Numbered
    <2>5. QED
      BY <2>1, <2>2, <2>4 DEF ReadyOK
  <1>4. CASE run_global_ctors
    BY <1>4, BootAt, BootK DEF ReadyOK, Adds
  <1>5. CASE init_gdt_entries
    BY <1>5, BootAt, BootK DEF ReadyOK, Adds
  <1>6. CASE refresh
    BY <1>6, BootAt, BootK DEF ReadyOK, Adds
  <1>7. CASE pic_remap
    BY <1>7, BootAt, BootK DEF ReadyOK, Adds
  <1>8. CASE MaskAll
    BY <1>8, BootAt, BootK DEF ReadyOK, Adds
  <1>9. CASE idtr_asm_load
    BY <1>9, BootAt, BootK DEF ReadyOK, Adds
  <1>10. CASE Unmask
    BY <1>10, BootAt, BootK DEF ReadyOK, Adds
  <1>11. CASE init_syscall
    BY <1>11, BootAt, BootK DEF ReadyOK, Adds
  <1>12. CASE Cli
    BY <1>12, BootAt, BootK DEF ReadyOK, Adds
  <1>13. CASE Start
    BY <1>13, BootAt, BootK DEF ReadyOK, Adds
  <1>14. CASE WaitForInterrupt
    BY <1>14, BootAt, BootK DEF ReadyOK, Adds
  <1>15. CASE klog_panic
    BY <1>15, BootAt, BootK DEF ReadyOK, Adds
  <1> QED
    BY <1>1, <1>2, <1>3, <1>4, <1>5, <1>6, <1>7, <1>8, <1>9, <1>10, <1>11,
       <1>12, <1>13, <1>14, <1>15 DEF BootStep

LEMMA BootGdt ==
  ASSUME PhaseOK, GdtOK, BootStep
  PROVE  GdtOK'
  <1>1. CASE Check
    <2>1. k'.gdt = k.gdt /\ k'.selectors = k.selectors
      BY <1>1, BootK DEF Adds
    <2>2. Flat(kmain) <=> Flat(kmain')
      BY <1>1, BootAt DEF Flat
    <2>3. QED
      BY <2>1, <2>2 DEF GdtOK
  <1>2. CASE hcf
    <2>1. k'.gdt = k.gdt /\ k'.selectors = k.selectors
      BY <1>2, BootK DEF Adds
    <2>2. Flat(kmain) <=> Flat(kmain')
      BY <1>2, BootAt DEF Flat
    <2>3. QED
      BY <2>1, <2>2 DEF GdtOK
  <1>3. CASE SetUp
    <2>1. k'.gdt = k.gdt /\ k'.selectors = k.selectors
      BY <1>3, BootK DEF Adds
    <2>2. Flat(kmain) <=> Flat(kmain')
      BY <1>3, BootAt DEF Flat
    <2>3. QED
      BY <2>1, <2>2 DEF GdtOK
  <1>4. CASE run_global_ctors
    <2>1. k'.gdt = k.gdt /\ k'.selectors = k.selectors
      BY <1>4, BootK DEF Adds
    <2>2. Flat(kmain) <=> Flat(kmain')
      BY <1>4, BootAt DEF Flat
    <2>3. QED
      BY <2>1, <2>2 DEF GdtOK
  <1>5. CASE init_gdt_entries
    BY <1>5, BootAt, BootK DEF GdtOK, Flat, Adds
  <1>6. CASE refresh
    <2>1. Flat(kmain) /\ Flat(kmain')
      BY <1>6, BootAt DEF Flat
    <2>2. \A x \in Refreshed : x[1] \in DOMAIN gdt_entries /\ gdt_entries[x[1]] = x[2]
      BY DEF Refreshed, gdt_entries, Segment
    <2>3. k'.gdt = k.gdt /\ k'.selectors = k.selectors \cup Refreshed
      BY <1>6, BootK DEF Adds
    <2>4. QED
      BY <2>1, <2>2, <2>3 DEF GdtOK
  <1>7. CASE pic_remap
    <2>1. k'.gdt = k.gdt /\ k'.selectors = k.selectors
      BY <1>7, BootK DEF Adds
    <2>2. Flat(kmain) <=> Flat(kmain')
      BY <1>7, BootAt DEF Flat
    <2>3. QED
      BY <2>1, <2>2 DEF GdtOK
  <1>8. CASE MaskAll
    <2>1. k'.gdt = k.gdt /\ k'.selectors = k.selectors
      BY <1>8, BootK DEF Adds
    <2>2. Flat(kmain) <=> Flat(kmain')
      BY <1>8, BootAt DEF Flat
    <2>3. QED
      BY <2>1, <2>2 DEF GdtOK
  <1>9. CASE idtr_asm_load
    <2>1. Flat(kmain) /\ Flat(kmain')
      BY <1>9, BootAt DEF Flat
    <2>2. PICK s : s = {<<KERNEL_CODE, Segment("code", 0)>>}
      BY Zenon
    <2>3. \A x \in s : x[1] \in DOMAIN gdt_entries /\ gdt_entries[x[1]] = x[2]
      BY <2>2 DEF gdt_entries, Segment, KERNEL_CODE
    <2>4. k'.gdt = k.gdt /\ k'.selectors = k.selectors \cup s
      BY <1>9, <2>2, BootK DEF Adds
    <2>5. QED
      BY <2>1, <2>3, <2>4 DEF GdtOK
  <1>10. CASE Unmask
    <2>1. k'.gdt = k.gdt /\ k'.selectors = k.selectors
      BY <1>10, BootK DEF Adds
    <2>2. Flat(kmain) <=> Flat(kmain')
      BY <1>10, BootAt DEF Flat
    <2>3. QED
      BY <2>1, <2>2 DEF GdtOK
  <1>11. CASE init_syscall
    <2>1. Flat(kmain) /\ Flat(kmain')
      BY <1>11, BootAt DEF Flat
    <2>2. \A x \in OfSyscall : x[1] \in DOMAIN gdt_entries /\ gdt_entries[x[1]] = x[2]
      BY DEF OfSyscall, gdt_entries, Segment, USER_CODE, USER_DATA
    <2>3. k'.gdt = k.gdt /\ k'.selectors = k.selectors \cup OfSyscall
      BY <1>11, BootK DEF Adds
    <2>4. QED
      BY <2>1, <2>2, <2>3 DEF GdtOK
  <1>12. CASE Cli
    <2>1. k'.gdt = k.gdt /\ k'.selectors = k.selectors
      BY <1>12, BootK DEF Adds
    <2>2. Flat(kmain) <=> Flat(kmain')
      BY <1>12, BootAt DEF Flat
    <2>3. QED
      BY <2>1, <2>2 DEF GdtOK
  <1>13. CASE Start
    <2>1. k'.gdt = k.gdt /\ k'.selectors = k.selectors
      BY <1>13, BootK, Zenon DEF Adds
    <2>2. Flat(kmain) <=> Flat(kmain')
      BY <1>13, BootAt DEF Flat
    <2>3. QED
      BY <2>1, <2>2 DEF GdtOK
  <1>14. CASE WaitForInterrupt
    <2>1. k'.gdt = k.gdt /\ k'.selectors = k.selectors
      BY <1>14, BootK DEF Adds
    <2>2. Flat(kmain) <=> Flat(kmain')
      BY <1>14, BootAt DEF Flat
    <2>3. QED
      BY <2>1, <2>2 DEF GdtOK
  <1>15. CASE klog_panic
    <2>1. Flat(kmain) /\ Flat(kmain')
      BY <1>15, BootAt DEF Flat
    <2>2. \A x \in OfSyscall : x[1] \in DOMAIN gdt_entries /\ gdt_entries[x[1]] = x[2]
      BY DEF OfSyscall, gdt_entries, Segment, USER_CODE, USER_DATA
    <2>3. k'.gdt = k.gdt /\ k'.selectors = k.selectors \cup OfSyscall
      BY <1>15, BootK DEF Adds
    <2>4. QED
      BY <2>1, <2>2, <2>3 DEF GdtOK
  <1> QED
    BY <1>1, <1>2, <1>3, <1>4, <1>5, <1>6, <1>7, <1>8, <1>9, <1>10, <1>11,
       <1>12, <1>13, <1>14, <1>15 DEF BootStep

LEMMA BootPic ==
  ASSUME PhaseOK, PicOK, BootStep
  PROVE  PicOK'
  <1>1. CASE Check
    <2>1. pic' = pic
      BY <1>1 DEF Check
    <2>2. QED
      BY <1>1, <2>1, BootAt DEF PicOK
  <1>2. CASE hcf
    <2>1. pic' = pic
      BY <1>2 DEF hcf
    <2>2. QED
      BY <1>2, <2>1, BootAt DEF PicOK
  <1>3. CASE SetUp
    <2>1. pic' = pic
      BY <1>3 DEF SetUp
    <2>2. QED
      BY <1>3, <2>1, BootAt DEF PicOK
  <1>4. CASE run_global_ctors
    <2>1. pic' = pic
      BY <1>4 DEF run_global_ctors
    <2>2. QED
      BY <1>4, <2>1, BootAt DEF PicOK
  <1>5. CASE init_gdt_entries
    <2>1. pic' = pic
      BY <1>5 DEF init_gdt_entries
    <2>2. QED
      BY <1>5, <2>1, BootAt DEF PicOK
  <1>6. CASE refresh
    <2>1. pic' = pic
      BY <1>6 DEF refresh
    <2>2. QED
      BY <1>6, <2>1, BootAt DEF PicOK
  <1>7. CASE pic_remap
    BY <1>7, BootAt DEF PicOK, pic_remap
  <1>8. CASE MaskAll
    <2>1. \A l \in 0 .. 15 : l % 8 \in 0 .. 7
      OBVIOUS
    <2>2. \A b \in 0 .. 7 : /\ b \in 0 .. 15 /\ Port(b) = "master" /\ b % 8 = b
                          /\ b + 8 \in 0 .. 15 /\ Port(b + 8) = "slave" /\ (b + 8) % 8 = b
      BY DEF Port
    <2>3. Bits(0 .. 15, "master") = 0 .. 7 /\ Bits(0 .. 15, "slave") = 0 .. 7
      BY <2>1, <2>2 DEF Bits
    <2>4. pic' = [pic EXCEPT !.mask = [port \in {"master", "slave"} |->
                                         @[port] \cup Bits(0 .. 15, port)]]
      BY <1>8 DEF MaskAll, irq_mask
    <2>5. QED
      BY <1>8, <2>3, <2>4, BootAt DEF PicOK
  <1>9. CASE idtr_asm_load
    <2>1. pic' = pic
      BY <1>9 DEF idtr_asm_load
    <2>2. QED
      BY <1>9, <2>1, BootAt DEF PicOK
  <1>10. CASE Unmask
    <2>1. Port(0) = "master" /\ Port(1) = "master" /\ 0 % 8 = 0 /\ 1 % 8 = 1
      BY DEF Port
    <2>2. \/ kmain = 15 /\ pic' = [pic EXCEPT !.mask["master"] = @ \ {0}]
          \/ kmain = 17 /\ pic' = [pic EXCEPT !.mask["master"] = @ \ {1}]
      <3>1. Numbered(kmain)
        BY Calls, Zenon DEF PhaseOK
      <3>2. QED
        BY <1>10, <2>1, <3>1, Zenon DEF Unmask, irq_unmask, Call, Numbered
    <2>3. kmain' = kmain + 1
      BY <1>10, BootAt
    <2>4. QED
      BY <2>2, <2>3 DEF PicOK
  <1>11. CASE init_syscall
    <2>1. pic' = pic
      BY <1>11 DEF init_syscall
    <2>2. QED
      BY <1>11, <2>1, BootAt DEF PicOK
  <1>12. CASE Cli
    <2>1. pic' = pic
      BY <1>12 DEF Cli
    <2>2. QED
      BY <1>12, <2>1, BootAt DEF PicOK
  <1>13. CASE Start
    <2>1. pic' = pic
      BY <1>13 DEF Start
    <2>2. QED
      BY <1>13, <2>1, BootAt DEF PicOK
  <1>14. CASE WaitForInterrupt
    <2>1. pic' = pic
      BY <1>14, Zenon DEF WaitForInterrupt
    <2>2. QED
      BY <1>14, <2>1, BootAt DEF PicOK
  <1>15. CASE klog_panic
    <2>1. pic' = pic
      BY <1>15 DEF klog_panic
    <2>2. QED
      BY <1>15, <2>1, BootAt DEF PicOK
  <1> QED
    BY <1>1, <1>2, <1>3, <1>4, <1>5, <1>6, <1>7, <1>8, <1>9, <1>10, <1>11,
       <1>12, <1>13, <1>14, <1>15 DEF BootStep

LEMMA MovesOn ==
  ASSUME NEW m \in 1 .. 22, NEW n \in 1 .. 24,
         \/ m # 22 /\ n = m + 1
         \/ m \in {1, 5} /\ n = 23
         \/ m = 22 /\ n = 22
         \/ m = 19 /\ n = 24
  PROVE  /\ m <= n /\ (m = 22 => n = 22)
         /\ m # 12 /\ n # 24 /\ n \notin 13 .. 22 => m \notin 13 .. 22
         /\ n = 22 <=> m \in {21, 22}
         /\ m # 19 => KernelGs(n) = KernelGs(m)
  BY DEF KernelGs

LEMMA BootPhase ==
  ASSUME PhaseOK, kmain_runs
  PROVE  PhaseOK'
  <1>1. BootStep /\ UNCHANGED <<ring, curr_thread, entries>> /\ entries = <<>> /\ curr_thread = Idle
    BY DEF kmain_runs, entryvars
  <1>2. /\ kmain \in 1 .. 22 /\ kmain' \in 1 .. 24
        /\ \/ kmain # 22 /\ kmain' = kmain + 1
           \/ kmain \in {1, 5} /\ kmain' = 23
           \/ kmain = 22 /\ kmain' = 22
           \/ kmain = 19 /\ kmain' = 24
    BY <1>1, BootMoves, SMTT(20)
  <1>3. \/ k'.live = k.live /\ kmain # 21
        \/ k'.live = k.live \cup {Idle} /\ kmain = 4
        \/ k'.live = k.live \cup {Terminal} /\ kmain = 21
    BY <1>1, BootAt, BootK DEF BootStep, Adds
  <1>4. k' = [ready |-> k'.ready, gdt |-> k'.gdt, selectors |-> k'.selectors, live |-> k'.live]
    BY <1>1, BootK, Zenon DEF BootStep, Adds
  <1>5. IF_' \in BOOLEAN /\ (kmain' \notin 13 .. 22 => ~IF_')
    <2>1. CASE idtr_asm_load \/ WaitForInterrupt
      <3>1. IF_' = TRUE
        BY <2>1, Zenon DEF idtr_asm_load, WaitForInterrupt
      <3>2. kmain' \in 13 .. 22
        BY <2>1, BootAt
      <3>3. QED
        BY <3>1, <3>2
    <2>2. CASE Cli \/ klog_panic
      BY <2>2, Zenon DEF Cli, klog_panic
    <2>3. CASE ~(idtr_asm_load \/ WaitForInterrupt \/ Cli \/ klog_panic)
      <3>1. IF_' = IF_
        BY <1>1, <2>3, Zenon DEF BootStep, Check, hcf, SetUp, run_global_ctors, init_gdt_entries,
           refresh, pic_remap, MaskAll, Unmask, init_syscall, Start
      <3>2. kmain' \notin 13 .. 22 => kmain \notin 13 .. 22
        <4>1. kmain # 12 /\ kmain' # 24
          BY <1>1, <2>3, BootAt DEF BootStep
        <4>2. QED
          BY <1>2, <4>1, MovesOn
      <3>3. IF_ \in BOOLEAN /\ (kmain \notin 13 .. 22 => ~IF_)
        BY DEF PhaseOK
      <3>4. QED
        BY <3>1, <3>2, <3>3, Zenon
    <2>4. QED
      BY <2>1, <2>2, <2>3
  <1>6. /\ kmain' # 22 => k'.live \subseteq {Idle}
        /\ kmain' = 22 => Terminal \in k'.live
        /\ k'.live \subseteq Threads
    <2>1. kmain' = 22 <=> kmain \in {21, 22}
      BY <1>2, MovesOn
    <2>2. /\ kmain # 22 => k.live \subseteq {Idle}
          /\ kmain = 22 => Terminal \in k.live
          /\ k.live \subseteq Threads
      BY DEF PhaseOK
    <2>3. QED
      BY <1>3, <2>1, <2>2 DEF Threads
  <1>7. kmain' # 22 => curr_thread' = Idle /\ ring' = 0
    <2>1. kmain' = 22 <=> kmain \in {21, 22}
      BY <1>2, MovesOn
    <2>2. QED
      BY <1>1, <2>1 DEF PhaseOK
  <1>8. entries' = <<>> /\ curr_thread' \in Threads
    BY <1>1 DEF Threads
  <1>9. QED
    BY <1>2, <1>4, <1>5, <1>6, <1>7, <1>8, Zenon DEF PhaseOK

(* Later calls of kmain let more in.                                       *)
LEMMA LaterCall ==
  ASSUME NEW m \in 1 .. 22, NEW n \in 1 .. 24, m <= n, m = 22 => n = 22, NEW s
  PROVE  /\ StackOK(s, m) => StackOK(s, n)
         /\ \A e : Calm(e, m) => Calm(e, n)
  BY DEF StackOK, EntryOK, Calm, Handled

LEMMA KmainStep ==
  ASSUME CpuIInv, kmain_runs
  PROVE  CpuIInv'
  <1>1. BootStep /\ UNCHANGED entryvars /\ entries = <<>> /\ fate = "runs" /\ PhaseOK
    BY DEF kmain_runs, CpuIInv, AlwaysOK, BootOK
  <1>2. BootOK'
    BY <1>1, BootReady, BootGdt, BootPic, BootPhase DEF CpuIInv, BootOK
  <1>3. entries' = <<>> /\ fate' = "runs" /\ saved' = saved /\ ring' = ring
    BY <1>1 DEF entryvars
  <1>4. AlwaysOK'
    BY <1>1, <1>3 DEF AlwaysOK, CpuIInv
  <1>5. kmain \in 1 .. 22 /\ kmain' \in 1 .. 24 /\ kmain <= kmain' /\ (kmain = 22 => kmain' = 22)
    BY <1>1, BootMoves, MovesOn, SMTT(20)
  <1>6. GsOK'
    <2>1. ring = 3 => kmain = 22
      BY <1>1 DEF PhaseOK
    <2>2. GsOK
      BY <1>1 DEF CpuIInv, RunOK
    <2>3. CASE refresh
      <3>1. kmain = 8 /\ kmain' = 9 /\ gs' = "none"
        BY <2>3, <1>1, BootAt DEF refresh
      <3>2. QED
        BY <1>3, <2>1, <3>1 DEF GsOK, GsIn0, KernelGs
    <2>4. CASE init_syscall
      <3>1. kmain = 19 /\ kmain' = 20 /\ gs' = "kernel"
        BY <2>4, <1>1, BootAt DEF init_syscall, write_msrs
      <3>2. QED
        BY <1>3, <2>1, <3>1 DEF GsOK, GsIn0, KernelGs
    <2>7. CASE klog_panic
      <3>1. kmain = 19 /\ kmain' = 24 /\ gs' = "kernel"
        BY <2>7, <1>1, BootAt DEF klog_panic, write_msrs
      <3>2. QED
        BY <1>3, <2>1, <3>1 DEF GsOK, GsIn0, KernelGs
    <2>5. CASE ~(refresh \/ init_syscall \/ klog_panic)
      <3>1. gs' = gs
        BY <1>1, <2>5, Zenon DEF BootStep, Check, hcf, SetUp, run_global_ctors, init_gdt_entries,
           pic_remap, MaskAll, idtr_asm_load, Unmask, Cli, Start, WaitForInterrupt
      <3>2. kmain # 19
        BY <1>1, <2>5, BootAt DEF BootStep
      <3>3. KernelGs(kmain') = KernelGs(kmain)
        <4>1. /\ kmain \in 1 .. 22 /\ kmain' \in 1 .. 24
              /\ \/ kmain # 22 /\ kmain' = kmain + 1
                 \/ kmain \in {1, 5} /\ kmain' = 23
                 \/ kmain = 22 /\ kmain' = 22
          BY <1>1, <3>2, BootMoves
        <4>2. QED
          BY <3>2, <4>1 DEF KernelGs
      <3>4. QED
        BY <1>1, <1>3, <2>2, <3>1, <3>3 DEF GsOK, GsIn0
    <2>6. QED
      BY <2>3, <2>4, <2>5, <2>7
  <1>7. SavedOK'
    <2>1. SavedOK
      BY <1>1 DEF CpuIInv, RunOK
    <2>2. ASSUME NEW t \in Threads
          PROVE  /\ SavedStackOK(t)'
                 /\ saved'[t].cs = 3 => kmain' = 22 \/ t \in UserThreads
                 /\ \A i \in 1 .. Len(saved'[t].below) : Calm(saved'[t].below[i], kmain')
      <3>1. SavedStackOK(t)
        BY <2>1 DEF SavedOK
      <3>2. SavedStackOK(t)'
        BY <1>1, <1>3, <1>5, <3>1, LaterCall, Zenon DEF SavedStackOK
      <3>3. QED
        BY <1>3, <1>5, <2>1, <3>2, LaterCall, Zenon DEF SavedOK
    <2>3. QED
      BY <1>3, <2>1, <2>2 DEF SavedOK
  <1>8. RunOK'
    <2>1. ring' \in {0, 3} /\ StackOK(entries', kmain')
      BY <1>1, <1>3, <1>5, LaterCall, Zenon DEF CpuIInv, RunOK
    <2>2. TopOK'
      BY <1>3 DEF TopOK
    <2>3. QED
      BY <1>6, <1>7, <2>1, <2>2 DEF RunOK
  <1>9. QED
    BY <1>2, <1>4, <1>8 DEF CpuIInv

-----------------------------------------------------------------------------
(* The steps at entries into the kernel.  None of them touches what kmain  *)
(* has set up.                                                             *)
PicMoves ==
  /\ pic' \in [vector : {8, 32}, mask : [{"master", "slave"} -> SUBSET (0 .. 7)],
               irr : SUBSET Devices, isr : SUBSET Devices]
  /\ pic'.vector = pic.vector /\ pic'.mask = pic.mask

LEMMA SetUpStays ==
  ASSUME BootOK, kmain' = kmain, k' = k, PicMoves, kmain \in 13 .. 22,
         curr_thread' \in Threads, kmain # 22 => curr_thread' = Idle /\ ring' = 0,
         IF_' \in BOOLEAN
  PROVE  BootOK'
  <1>1. ReadyOK' /\ GdtOK'
    BY DEF BootOK, ReadyOK, GdtOK
  <1>2. PicOK'
    BY DEF BootOK, PicOK, PicMoves
  <1>3. PhaseOK'
    BY DEF BootOK, PhaseOK
  <1>4. QED
    BY <1>1, <1>2, <1>3 DEF BootOK

(* What is known where an entry is open.                                   *)
Opened ==
  /\ kmain \in 13 .. 22 /\ ring = 0 /\ Len(entries) \in Nat \ {0}
  /\ Top \in EntryRec /\ EntryOK(Top, kmain) /\ Handled(Top, kmain)
  /\ Len(entries) # 1 => Top.cs = 0
  /\ StackOK(entries, kmain) /\ StackOK(Under, kmain)
  /\ Len(Under) = Len(entries) - 1 /\ (Under = <<>> <=> Len(entries) = 1)
  /\ \A i \in 1 .. Len(Under) : Under[i] = entries[i]
  /\ gs = GsIn0(entries, kmain) /\ TopOK /\ SavedOK /\ BootOK
  /\ \A i \in 1 .. Len(Under) : Calm(Under[i], kmain)
  /\ curr_thread \in Threads /\ (kmain # 22 => curr_thread = Idle /\ k.live \subseteq {Idle})
  /\ k.live \subseteq Threads /\ IF_ \in BOOLEAN

LEMMA OpenFacts ==
  ASSUME CpuIInv, fate = "runs", entries # <<>>
  PROVE  Opened
  <1>1. /\ StackOK(entries, kmain) /\ GsOK /\ TopOK /\ SavedOK /\ BootOK /\ ring \in {0, 3}
        /\ Handled(Top, kmain)
    BY DEF CpuIInv, RunOK, AlwaysOK
  <1>2. kmain \in 13 .. 22 /\ ring = 0 /\ gs = GsIn0(entries, kmain)
    BY <1>1 DEF BootOK, PhaseOK, GsOK
  <1>3. /\ Len(entries) \in Nat \ {0} /\ Top \in EntryRec /\ EntryOK(Top, kmain)
        /\ Len(entries) # 1 => Top.cs = 0
        /\ StackOK(Under, kmain)
        /\ Len(Under) = Len(entries) - 1 /\ (Under = <<>> <=> Len(entries) = 1)
        /\ \A i \in 1 .. Len(Under) : Under[i] = entries[i]
    BY <1>1, StackPop DEF Top, Under
  <1>4. \A i \in 1 .. Len(Under) : Calm(Under[i], kmain)
    BY <1>3 DEF CpuIInv, AlwaysOK
  <1>5. /\ curr_thread \in Threads /\ (kmain # 22 => curr_thread = Idle /\ k.live \subseteq {Idle})
        /\ k.live \subseteq Threads /\ IF_ \in BOOLEAN
    BY <1>1 DEF BootOK, PhaseOK
  <1>6. QED
    BY <1>1, <1>2, <1>3, <1>4, <1>5 DEF Opened

(* The GS base by the latest entry.                                        *)
LEMMA GsByTop ==
  ASSUME Opened
  PROVE  /\ Top.cs = 3 => /\ Len(entries) = 1 /\ entries[1] = Top /\ kmain = 22
                          /\ gs = IF Outside(Top) THEN "user" ELSE "kernel"
         /\ entries[1] = IF Under = <<>> THEN Top ELSE Under[1]
         /\ entries # <<>>
         /\ Top.cs \in {0, 3}
  <1>1. Top.cs \in {0, 3}
    BY DEF Opened, EntryRec
  <1>2. Top.cs = 3 => Len(entries) = 1 /\ kmain = 22
    BY DEF Opened, EntryOK
  <1>3. Len(entries) = 1 => entries[1] = Top
    BY DEF Top
  <1>4. entries # <<>>
    BY DEF Opened
  <1>5. Top.cs = 3 => gs = IF Outside(Top) THEN "user" ELSE "kernel"
    BY <1>2, <1>3, <1>4 DEF Opened, GsIn0, KernelGs
  <1>6. entries[1] = IF Under = <<>> THEN Top ELSE Under[1]
    BY <1>3 DEF Opened
  <1>7. QED
    BY <1>1, <1>2, <1>3, <1>4, <1>5, <1>6

(* Where no switch is under way the saved contexts stay in order.          *)
LEMMA SavedStays ==
  ASSUME SavedOK, kmain' = kmain, saved' = saved, entries = <<>> \/ Top.pc # "copy"
  PROVE  SavedOK'
  <1>1. ASSUME NEW t \in Threads
        PROVE  /\ SavedStackOK(t)'
               /\ saved'[t].cs = 3 => kmain' = 22 \/ t \in UserThreads
               /\ \A i \in 1 .. Len(saved'[t].below) : Calm(saved'[t].below[i], kmain')
    <2>1. SavedStackOK(t)
      BY DEF SavedOK
    <2>2. SavedStackOK(t)'
      BY <2>1 DEF SavedStackOK
    <2>3. QED
      BY <2>2 DEF SavedOK
  <1>2. QED
    BY <1>1 DEF SavedOK

(* The latest entry goes on.                                               *)
LEMMA Becomes ==
  ASSUME CpuIInv, fate = "runs", entries # <<>>,
         NEW e \in EntryRec, EntryOK(e, kmain), Handled(e, kmain), e.cs = Top.cs, Become(e),
         kmain' = kmain, k' = k, ring' = ring, fate' \in {"runs", "astray"},
         PicMoves, IF_' \in BOOLEAN,
         curr_thread' = curr_thread \/ curr_thread' \in k.live,
         gs' = IF Top.cs = 3 THEN (IF Outside(e) THEN "user" ELSE "kernel") ELSE gs
  PROVE  /\ BootOK' /\ AlwaysOK' /\ StackOK(entries', kmain') /\ GsOK'
         /\ entries' # <<>> /\ Top' = e /\ Under' = Under
  <1>1. Opened
    BY OpenFacts
  <1>2. BootOK'
    <2>1. curr_thread' \in Threads /\ (kmain # 22 => curr_thread' = Idle /\ ring' = 0)
      BY <1>1 DEF Opened
    <2>2. BootOK /\ kmain \in 13 .. 22
      BY <1>1 DEF Opened
    <2>3. QED
      BY <2>1, <2>2, SetUpStays
  <1>3. /\ StackOK(entries', kmain') /\ entries' # <<>> /\ Len(entries') = Len(entries)
        /\ entries'[Len(entries')] = e
        /\ \A i \in 1 .. Len(entries') - 1 : entries'[i] = entries[i]
        /\ entries'[1] = IF Len(entries) = 1 THEN e ELSE entries[1]
        /\ SubSeq(entries', 1, Len(entries') - 1) = SubSeq(entries, 1, Len(entries) - 1)
    <2>1. StackOK(entries, kmain) /\ e.cs = entries[Len(entries)].cs
      BY <1>1 DEF Opened, Top
    <2>2. entries' = [entries EXCEPT ![Len(entries)] = e]
      BY DEF Become
    <2>3. LET r == [entries EXCEPT ![Len(entries)] = e] IN
          /\ StackOK(r, kmain) /\ r # <<>> /\ Len(r) = Len(entries) /\ r[Len(r)] = e
          /\ \A i \in 1 .. Len(r) - 1 : r[i] = entries[i]
          /\ r[1] = IF Len(entries) = 1 THEN e ELSE entries[1]
          /\ SubSeq(r, 1, Len(r) - 1) = SubSeq(entries, 1, Len(entries) - 1)
      BY <2>1, StackSet, Zenon
    <2>4. QED
      BY ONLY <2>2, <2>3, kmain' = kmain
  <1>4. Top' = e /\ Under' = Under
    BY <1>3 DEF Top, Under
  <1>5. AlwaysOK'
    <2>1. \A i \in 1 .. Len(entries') - 1 : Calm(entries'[i], kmain')
      BY <1>3 DEF CpuIInv, AlwaysOK
    <2>2. DOMAIN entries' = 1 .. Len(entries') /\ Len(entries') \in Nat
      BY <1>3, SeqLength DEF StackOK
    <2>3. QED
      BY <1>3, <1>4, <2>1, <2>2 DEF AlwaysOK
  <1>6. GsOK'
    <2>1. ring' = 0 /\ gs = GsIn0(entries, kmain)
      BY <1>1 DEF Opened
    <2>2. CASE Top.cs = 3
      BY <1>1, <1>3, <2>1, <2>2, GsByTop DEF GsOK, GsIn0, KernelGs
    <2>3. CASE Top.cs = 0
      <3>1. Outside(entries'[1]) <=> Outside(entries[1])
        BY <1>1, <1>3, <2>3, GsByTop DEF Outside, Top
      <3>2. QED
        BY <1>3, <2>1, <2>3, <3>1 DEF GsOK, GsIn0
    <2>4. QED
      BY <1>1, <2>2, <2>3, GsByTop
  <1>7. QED
    BY <1>2, <1>3, <1>4, <1>5, <1>6

LEMMA BecomesStep ==
  ASSUME CpuIInv, fate = "runs", entries # <<>>, Top.pc # "copy",
         NEW e \in EntryRec, EntryOK(e, kmain), Handled(e, kmain), e.cs = Top.cs, Become(e),
         kmain' = kmain, k' = k, ring' = ring, fate' = fate, saved' = saved,
         PicMoves, IF_' \in BOOLEAN,
         curr_thread' = curr_thread \/ curr_thread' \in k.live,
         gs' = IF Top.cs = 3 THEN (IF Outside(e) THEN "user" ELSE "kernel") ELSE gs,
         e.pc # "copy", e.kind = "irq" /\ e.pc \in {"stub", "isr"} => ~IF_' /\ e.n \in pic'.isr
  PROVE  CpuIInv'
  <1>1. /\ BootOK' /\ AlwaysOK' /\ StackOK(entries', kmain') /\ GsOK'
        /\ entries' # <<>> /\ Top' = e
    BY Becomes
  <1>2. Opened
    BY OpenFacts
  <1>3. SavedOK'
    BY <1>2, SavedStays DEF Opened
  <1>4. TopOK'
    BY <1>1 DEF TopOK
  <1>5. ring' \in {0, 3}
    BY <1>2 DEF Opened
  <1>6. QED
    BY <1>1, <1>3, <1>4, <1>5 DEF CpuIInv, RunOK

(* The CPU enters the kernel.                                              *)
LEMMA PushStep ==
  ASSUME CpuIInv, fate = "runs", entries # <<>> => Calm(Top, kmain), kmain \in 13 .. 22,
         NEW e \in EntryRec, EntryOK(e, kmain), Handled(e, kmain), e.cs = ring,
         entries' = Append(entries, e),
         kmain' = kmain, k' = k, ring' = 0, fate' = fate, saved' = saved, gs' = gs,
         curr_thread' = curr_thread, PicMoves, IF_' \in BOOLEAN,
         e.pc \in {"stub", "handler"}, e.kind = "irq" => ~IF_' /\ e.n \in pic'.isr
  PROVE  CpuIInv'
  <1>1. BootOK /\ StackOK(entries, kmain) /\ GsOK /\ SavedOK /\ ring \in {0, 3}
    BY DEF CpuIInv, RunOK
  <1>2. BootOK'
    <2>1. curr_thread' \in Threads /\ (kmain # 22 => curr_thread' = Idle)
      BY <1>1 DEF BootOK, PhaseOK
    <2>2. QED
      BY <1>1, <2>1, SetUpStays
  <1>3. entries # <<>> => e.cs = 0
    BY <1>1 DEF GsOK
  <1>4. /\ StackOK(entries', kmain') /\ entries' # <<>> /\ Len(entries') = Len(entries) + 1
        /\ entries'[Len(entries')] = e
        /\ \A i \in 1 .. Len(entries') - 1 : entries'[i] = entries[i]
        /\ entries'[1] = IF entries = <<>> THEN e ELSE entries[1]
    BY <1>1, <1>3, StackPush
  <1>5. AlwaysOK'
    <2>1. entries \in Seq(EntryRec) /\ Len(entries) \in Nat /\ (entries = <<>> <=> Len(entries) = 0)
      BY <1>1 DEF StackOK
    <2>2. \A i \in 1 .. Len(entries) : Calm(entries[i], kmain)
      <3>1. \A i \in 1 .. Len(entries) - 1 : Calm(entries[i], kmain)
        BY DEF CpuIInv, AlwaysOK
      <3>2. Len(entries) # 0 => Calm(entries[Len(entries)], kmain)
        BY <2>1 DEF Top
      <3>3. QED
        BY <2>1, <3>1, <3>2
    <2>3. \A i \in 1 .. Len(entries') - 1 : Calm(entries'[i], kmain')
      BY <1>4, <2>1, <2>2
    <2>4. DOMAIN entries' = 1 .. Len(entries') /\ Len(entries') \in Nat
      BY <1>4, SeqLength DEF StackOK
    <2>5. QED
      BY <1>4, <2>3, <2>4 DEF AlwaysOK, Top
  <1>6. GsOK'
    <2>1. ring = 3 <=> Outside(e)
      BY <1>1 DEF Outside
    <2>2. QED
      BY <1>1, <1>3, <1>4, <2>1 DEF GsOK, GsIn0, Outside
  <1>7. TopOK'
    BY <1>4 DEF TopOK, Top
  <1>8. SavedOK'
    BY <1>1, SavedStays DEF Calm
  <1>9. QED
    BY <1>2, <1>4, <1>5, <1>6, <1>7, <1>8 DEF CpuIInv, RunOK

(* An entry is left.                                                       *)
LEMMA PopStep ==
  ASSUME CpuIInv, fate = "runs", entries # <<>>, Top.pc \in {"iretq", "sysretq"},
         entries' = Under, ring' = Top.cs,
         kmain' = kmain, k' = k, fate' = fate, saved' = saved, gs' = gs,
         curr_thread' = curr_thread, pic' = pic, IF_' = TRUE
  PROVE  CpuIInv'
  <1>1. Opened
    BY OpenFacts
  <1>2. BootOK /\ StackOK(Under, kmain) /\ SavedOK /\ kmain \in 13 .. 22 /\ Top.cs \in {0, 3}
    BY <1>1, GsByTop DEF Opened
  <1>3. BootOK'
    <2>1. curr_thread' \in Threads /\ (kmain # 22 => curr_thread' = Idle /\ ring' = 0)
      BY <1>1, GsByTop DEF Opened
    <2>2. PicMoves
      BY <1>2 DEF PicMoves, BootOK, PicOK
    <2>3. IF_' \in BOOLEAN
      BY Zenon
    <2>4. QED
      BY <1>2, <2>1, <2>2, <2>3, SetUpStays
  <1>4. /\ entries' \in Seq(EntryRec) /\ Len(entries') \in Nat /\ DOMAIN entries' = 1 .. Len(entries')
        /\ \A i \in 1 .. Len(entries') : Calm(entries'[i], kmain')
        /\ entries' # <<>> => Len(entries') \in 1 .. Len(entries')
    BY <1>1, <1>2, SeqLength DEF Opened, StackOK
  <1>5. entries' # <<>> => Calm(Top', kmain')
    BY <1>4 DEF Top
  <1>6. AlwaysOK'
    BY <1>4, <1>5 DEF AlwaysOK, Calm
  <1>7. TopOK'
    BY <1>5 DEF TopOK, Calm
  <1>8. SavedOK'
    BY <1>2, SavedStays
  <1>9. GsOK'
    <2>1. CASE Top.cs = 3
      BY <1>1, <2>1, GsByTop DEF GsOK, Outside, Opened
    <2>2. CASE Top.cs = 0
      BY <1>1, <2>2, GsByTop DEF GsOK, GsIn0, Outside, Opened
    <2>3. QED
      BY <1>2, <2>1, <2>2
  <1>10. QED
    BY <1>2, <1>3, <1>6, <1>7, <1>8, <1>9 DEF CpuIInv, RunOK

LEMMA GoToStep ==
  ASSUME CpuIInv, NEW q, At(q), q # "copy",
         NEW p \in {"isr", "eoi", "pops", "iretq", "schedule", "do_syscall_64", "popq", "sysretq"},
         GoTo(p),
         kmain' = kmain, k' = k, ring' = ring, fate' = fate, saved' = saved,
         PicMoves, IF_' \in BOOLEAN,
         curr_thread' = curr_thread \/ curr_thread' \in k.live,
         Top.cs = 3 => gs' = IF p \in {"iretq", "sysretq"} THEN "user" ELSE "kernel",
         Top.cs # 3 => gs' = gs,
         p \in {"do_syscall_64", "popq", "sysretq"} => Top.cs = 3,
         p = "isr" => Top.cs = Top.came /\ (Top.kind = "irq" => ~IF_' /\ Top.n \in pic'.isr)
  PROVE  CpuIInv'
  <1> DEFINE e == [Top EXCEPT !.pc = p]
  <1>1. fate = "runs" /\ entries # <<>> /\ Top.pc # "copy"
    BY DEF At
  <1>2. Opened
    BY <1>1, OpenFacts
  <1>3. Top \in EntryRec /\ EntryOK(Top, kmain) /\ Handled(Top, kmain)
    BY <1>2 DEF Opened
  <1>4. /\ e \in EntryRec /\ e.pc = p /\ e.cs = Top.cs /\ e.kind = Top.kind /\ e.n = Top.n
        /\ e.came = Top.came
    BY <1>3 DEF EntryRec
  <1>5. Become(e)
    BY DEF GoTo
  <1> HIDE DEF e
  <1>6. EntryOK(e, kmain) /\ Handled(e, kmain)
    BY <1>3, <1>4 DEF EntryOK, Handled
  <1>7. gs' = IF Top.cs = 3 THEN (IF Outside(e) THEN "user" ELSE "kernel") ELSE gs
    BY <1>4 DEF Outside
  <1>8. e.kind = "irq" /\ e.pc \in {"stub", "isr"} => ~IF_' /\ e.n \in pic'.isr
    BY <1>4
  <1>9. e.pc # "copy"
    BY <1>4
  <1>10. QED
    BY <1>1, <1>4, <1>5, <1>6, <1>7, <1>8, <1>9, BecomesStep

LEMMA PicStays ==
  ASSUME BootOK, pic' = pic
  PROVE  PicMoves
  BY DEF BootOK, PicOK, PicMoves

LEMMA StubInStep == CpuIInv /\ StubIn => CpuIInv'
  <1> SUFFICES ASSUME CpuIInv, StubIn PROVE CpuIInv'
    OBVIOUS
  <1>1. /\ At("stub") /\ GoTo("isr") /\ kmain' = kmain /\ k' = k /\ ring' = ring /\ fate' = fate
        /\ saved' = saved /\ pic' = pic /\ curr_thread' = curr_thread
    BY DEF StubIn, setup
  <1>2. Opened /\ Top.pc = "stub"
    BY <1>1, OpenFacts DEF At
  <1>3. PicMoves
    BY <1>1, <1>2, PicStays DEF Opened
  <1>4. IF_' \in BOOLEAN /\ IF_' = IF_
    BY <1>2, Zenon DEF StubIn, Opened
  <1>5. Top.cs = Top.came /\ (Top.kind = "irq" => ~IF_' /\ Top.n \in pic'.isr)
    BY <1>1, <1>2, <1>4, GsByTop DEF Opened, EntryOK, TopOK
  <1>6. (Top.cs = 3 => gs' = "kernel") /\ (Top.cs # 3 => gs' = gs)
    BY <1>2, GsByTop DEF StubIn, swapgs, Outside
  <1>7. QED
    BY <1>1, <1>3, <1>4, <1>5, <1>6, GoToStep

LEMMA StubOutStep == CpuIInv /\ StubOut => CpuIInv'
  <1> SUFFICES ASSUME CpuIInv, StubOut PROVE CpuIInv'
    OBVIOUS
  <1>1. /\ At("pops") /\ GoTo("iretq") /\ kmain' = kmain /\ k' = k /\ ring' = ring /\ fate' = fate
        /\ saved' = saved /\ pic' = pic /\ curr_thread' = curr_thread
    BY DEF StubOut, setup
  <1>2. Opened /\ Top.pc = "pops"
    BY <1>1, OpenFacts DEF At
  <1>3. PicMoves
    BY <1>1, <1>2, PicStays DEF Opened
  <1>4. IF_' \in BOOLEAN
    BY <1>2, Zenon DEF StubOut, Opened
  <1>5. (Top.cs = 3 => gs' = "user") /\ (Top.cs # 3 => gs' = gs)
    BY <1>2, GsByTop DEF StubOut, swapgs, Outside
  <1>6. QED
    BY <1>1, <1>3, <1>4, <1>5, GoToStep

(* The handlers, which leave the GS base alone.                            *)
LEMMA KeyboardStep == CpuIInv /\ isr_keyboard => CpuIInv'
  <1> SUFFICES ASSUME CpuIInv, isr_keyboard PROVE CpuIInv'
    OBVIOUS
  <1>1. /\ At("isr") /\ GoTo("eoi") /\ kmain' = kmain /\ k' = k /\ ring' = ring /\ fate' = fate
        /\ saved' = saved /\ pic' = pic /\ curr_thread' = curr_thread /\ gs' = gs
    BY DEF isr_keyboard, In, bootvars
  <1>2. Opened /\ Top.pc = "isr"
    BY <1>1, OpenFacts DEF At
  <1>3. PicMoves
    BY <1>1, <1>2, PicStays DEF Opened
  <1>4. IF_' \in BOOLEAN
    BY <1>2, Zenon DEF isr_keyboard, Opened, bootvars
  <1>5. (Top.cs = 3 => gs' = "kernel") /\ (Top.cs # 3 => gs' = gs)
    BY <1>1, <1>2, GsByTop DEF Outside
  <1>6. QED
    BY <1>1, <1>3, <1>4, <1>5, GoToStep

LEMMA EoiStep == CpuIInv /\ eoi => CpuIInv'
  <1> SUFFICES ASSUME CpuIInv, eoi PROVE CpuIInv'
    OBVIOUS
  <1>1. /\ At("eoi") /\ GoTo("pops") /\ kmain' = kmain /\ k' = k /\ ring' = ring /\ fate' = fate
        /\ saved' = saved /\ curr_thread' = curr_thread /\ gs' = gs
    BY DEF eoi, setup
  <1>2. Opened /\ Top.pc = "eoi"
    BY <1>1, OpenFacts DEF At
  <1>3. PicMoves
    BY <1>2, Zenon DEF eoi, Lower, PicMoves, Opened, BootOK, PicOK
  <1>4. IF_' \in BOOLEAN
    BY <1>2, Zenon DEF eoi, Opened
  <1>5. (Top.cs = 3 => gs' = "kernel") /\ (Top.cs # 3 => gs' = gs)
    BY <1>1, <1>2, GsByTop DEF Outside
  <1>6. QED
    BY <1>1, <1>3, <1>4, <1>5, GoToStep

LEMMA GpStep == ASSUME CpuIInv, NEW t \in k.live, x86_gp_fault_handler(t) \/ gp_schedule(t)
                PROVE  CpuIInv'
  <1>1. /\ (At("isr") /\ GoTo("schedule")) \/ (At("schedule") /\ GoTo("pops"))
        /\ kmain' = kmain /\ k' = k /\ ring' = ring /\ fate' = fate
        /\ saved' = saved /\ pic' = pic /\ curr_thread' = t /\ gs' = gs
    <2>1. CASE x86_gp_fault_handler(t)
      BY <2>1 DEF x86_gp_fault_handler, In, bootvars
    <2>2. CASE gp_schedule(t)
      BY <2>2 DEF gp_schedule, bootvars
    <2>3. QED
      BY <2>1, <2>2
  <1>2. Opened /\ Top.pc \in {"isr", "schedule"}
    BY <1>1, OpenFacts DEF At
  <1>3. PicMoves
    BY <1>1, <1>2, PicStays DEF Opened
  <1>4. IF_' \in BOOLEAN
    BY <1>2, Zenon DEF x86_gp_fault_handler, gp_schedule, Opened, bootvars
  <1>5. (Top.cs = 3 => gs' = "kernel") /\ (Top.cs # 3 => gs' = gs)
    BY <1>1, <1>2, GsByTop DEF Outside
  <1>6. QED
    BY <1>1, <1>3, <1>4, <1>5, GoToStep

LEMMA HandlerStep == CpuIInv /\ syscall_hanlder => CpuIInv'
  <1> SUFFICES ASSUME CpuIInv, syscall_hanlder PROVE CpuIInv'
    OBVIOUS
  <1>1. /\ At("handler") /\ GoTo("do_syscall_64") /\ kmain' = kmain /\ k' = k /\ ring' = ring
        /\ fate' = fate /\ saved' = saved /\ pic' = pic /\ curr_thread' = curr_thread /\ swapgs
    BY DEF syscall_hanlder, setup
  <1>2. Opened /\ Top.pc = "handler"
    BY <1>1, OpenFacts DEF At
  <1>3. PicMoves
    BY <1>1, <1>2, PicStays DEF Opened
  <1>4. IF_' \in BOOLEAN
    BY <1>2, Zenon DEF syscall_hanlder, Opened
  <1>5. Top.cs = 3
    BY <1>2 DEF Opened, EntryOK
  <1>6. gs' = "kernel"
    BY <1>1, <1>2, <1>5, GsByTop DEF swapgs, Outside
  <1>7. QED
    BY <1>1, <1>3, <1>4, <1>5, <1>6, GoToStep

LEMMA DoSyscallStep == ASSUME CpuIInv, NEW t \in k.live, do_syscall_64(t)
                       PROVE  CpuIInv'
  <1>1. /\ At("do_syscall_64") /\ GoTo("popq") /\ kmain' = kmain /\ k' = k /\ ring' = ring
        /\ fate' = fate /\ saved' = saved /\ pic' = pic /\ curr_thread' = t /\ gs' = gs
    BY DEF do_syscall_64, bootvars
  <1>2. Opened /\ Top.pc = "do_syscall_64"
    BY <1>1, OpenFacts DEF At
  <1>3. PicMoves
    BY <1>1, <1>2, PicStays DEF Opened
  <1>4. IF_' \in BOOLEAN
    BY <1>2, Zenon DEF do_syscall_64, Opened, bootvars
  <1>5. Top.cs = 3
    BY <1>2 DEF Opened, EntryOK
  <1>6. gs' = "kernel"
    BY <1>1, <1>2, <1>5, GsByTop DEF Outside
  <1>7. QED
    BY <1>1, <1>3, <1>4, <1>5, <1>6, GoToStep

LEMMA SyscallOutStep == CpuIInv /\ SyscallOut => CpuIInv'
  <1> SUFFICES ASSUME CpuIInv, SyscallOut PROVE CpuIInv'
    OBVIOUS
  <1>1. /\ At("popq") /\ GoTo("sysretq") /\ kmain' = kmain /\ k' = k /\ ring' = ring
        /\ fate' = fate /\ saved' = saved /\ pic' = pic /\ curr_thread' = curr_thread /\ swapgs
    BY DEF SyscallOut, setup
  <1>2. Opened /\ Top.pc = "popq"
    BY <1>1, OpenFacts DEF At
  <1>3. PicMoves
    BY <1>1, <1>2, PicStays DEF Opened
  <1>4. IF_' \in BOOLEAN
    BY <1>2, Zenon DEF SyscallOut, Opened
  <1>5. Top.cs = 3
    BY <1>2 DEF Opened, EntryOK
  <1>6. gs' = "user"
    BY <1>1, <1>2, <1>5, GsByTop DEF swapgs, Outside
  <1>7. QED
    BY <1>1, <1>3, <1>4, <1>5, <1>6, GoToStep

(* The ways in and out.                                                    *)
LEMMA UnmaskedLines ==
  ASSUME BootOK, kmain \in 13 .. 22, NEW l \in Unmasked
  PROVE  l \in {0, 1} /\ (l = 0 => kmain > 15) /\ (l = 1 => kmain > 17)
  <1>1. l \in Devices /\ l % 8 \notin pic.mask[Port(l)] /\ (l >= 8 => 2 \notin pic.mask["master"])
    BY DEF Unmasked
  <1>2. /\ 2 \in pic.mask["master"]
        /\ kmain <= 15 => 0 \in pic.mask["master"]
        /\ kmain <= 17 => 1 \in pic.mask["master"]
    BY DEF BootOK, PicOK
  <1>3. l \in {0, 1}
    BY <1>1, <1>2, DevicesAssumption
  <1>4. Port(l) = "master" /\ l % 8 = l
    BY <1>3 DEF Port
  <1>5. QED
    BY <1>1, <1>2, <1>3, <1>4

LEMMA EntryIs ==
  ASSUME NEW kind \in {"irq", "exception", "syscall"}, NEW pc \in {"stub", "handler"}, NEW n \in Nat,
         ring \in {0, 3}, curr_thread \in Threads
  PROVE  /\ Entry(kind, pc, n) \in EntryRec
         /\ Entry(kind, pc, n).kind = kind /\ Entry(kind, pc, n).pc = pc
         /\ Entry(kind, pc, n).n = n /\ Entry(kind, pc, n).cs = ring
         /\ Entry(kind, pc, n).came = ring
  BY DEF Entry, EntryRec

(* What holds whether or not an entry is open.                             *)
LEMMA Running ==
  ASSUME CpuIInv, fate = "runs"
  PROVE  /\ BootOK /\ ring \in {0, 3} /\ curr_thread \in Threads /\ IF_ \in BOOLEAN
         /\ ring = 3 => kmain = 22 /\ entries = <<>>
         /\ IF_ => kmain \in 13 .. 22
  BY DEF CpuIInv, RunOK, BootOK, PhaseOK, GsOK

LEMMA InterruptStep == ASSUME CpuIInv, NEW l \in Devices, Interrupt(l)
                       PROVE  CpuIInv'
  <1> DEFINE e == Entry("irq", "stub", l)
  <1>1. /\ fate = "runs" /\ entries' = Append(entries, e)
        /\ kmain' = kmain /\ k' = k /\ ring' = 0 /\ fate' = fate /\ saved' = saved /\ gs' = gs
        /\ curr_thread' = curr_thread
        /\ pic' = [pic EXCEPT !.irr = @ \ {l}, !.isr = @ \cup {l}]
        /\ l \in Unmasked /\ \A s \in pic.isr : l < s
    BY DEF Interrupt, setup
  <1>2. IF_ /\ IF_' = FALSE
    BY Zenon DEF Interrupt
  <1>3. BootOK /\ ring \in {0, 3} /\ curr_thread \in Threads /\ kmain \in 13 .. 22
        /\ (ring = 3 => kmain = 22)
    BY <1>1, <1>2, Running
  <1>4. l \in {0, 1} /\ (l = 0 => kmain > 15) /\ (l = 1 => kmain > 17)
    BY <1>1, <1>3, UnmaskedLines
  <1>5. e \in EntryRec /\ e.kind = "irq" /\ e.pc = "stub" /\ e.n = l /\ e.cs = ring /\ e.came = ring
    BY <1>3, <1>4, EntryIs
  <1> HIDE DEF e
  <1>6. EntryOK(e, kmain) /\ Handled(e, kmain)
    BY <1>3, <1>4, <1>5 DEF EntryOK, Handled
  <1>7. PicMoves /\ l \in pic'.isr
    BY <1>1, <1>3, Zenon DEF PicMoves, BootOK, PicOK
  <1>8. entries # <<>> => Calm(Top, kmain)
    <2> SUFFICES ASSUME entries # <<>> PROVE Calm(Top, kmain)
      OBVIOUS
    <2>1. TopOK /\ Handled(Top, kmain)
      BY <1>1, OpenFacts DEF Opened
    <2>2. Top.pc # "copy"
      BY <1>1, <1>4, <2>1 DEF TopOK
    <2>3. Top.kind = "irq" => Top.pc \notin {"stub", "isr"}
      BY <1>2, <2>1 DEF TopOK
    <2>4. QED
      BY <2>1, <2>2, <2>3 DEF Calm
  <1>9. IF_' \in BOOLEAN /\ ~IF_'
    BY <1>2, Zenon
  <1>10. QED
    BY <1>1, <1>3, <1>5, <1>6, <1>7, <1>8, <1>9, PushStep

LEMMA ExceptionStep ==
  ASSUME CpuIInv, NEW v \in Nat, Exception(v), fate = "runs", kmain = 22,
         ring = 3 \/ At("do_syscall_64")
  PROVE  CpuIInv'
  <1> DEFINE e == Entry("exception", "stub", v)
  <1>1. /\ entries' = Append(entries, e)
        /\ kmain' = kmain /\ k' = k /\ ring' = 0 /\ fate' = fate /\ saved' = saved /\ gs' = gs
        /\ curr_thread' = curr_thread /\ pic' = pic
    BY DEF Exception, setup
  <1>2. IF_' \in BOOLEAN
    BY Running, Zenon DEF Exception
  <1>3. BootOK /\ ring \in {0, 3} /\ curr_thread \in Threads /\ kmain \in 13 .. 22
    BY Running
  <1>4. /\ e \in EntryRec /\ e.kind = "exception" /\ e.pc = "stub" /\ e.cs = ring
        /\ e.came = ring
    BY <1>3, EntryIs
  <1> HIDE DEF e
  <1>5. EntryOK(e, kmain) /\ Handled(e, kmain)
    BY <1>4 DEF EntryOK, Handled
  <1>6. PicMoves
    BY <1>1, <1>3, PicStays
  <1>7. entries # <<>> => Calm(Top, kmain)
    BY OpenFacts, Running DEF At, Opened, Calm
  <1>8. QED
    BY <1>1, <1>2, <1>3, <1>4, <1>5, <1>6, <1>7, PushStep

LEMMA FaultStep == ASSUME CpuIInv, NEW v \in Faults, Fault(v)
                   PROVE  CpuIInv'
  <1>1. v \in Nat
    BY EntryAssumption
  <1>2. Exception(v) /\ fate = "runs" /\ ring = 3
    BY DEF Fault
  <1>3. QED
    BY <1>1, <1>2, Running, ExceptionStep

LEMMA EmptySlotStep == CpuIInv /\ CallEmptySlot => CpuIInv'
  <1> SUFFICES ASSUME CpuIInv, CallEmptySlot PROVE CpuIInv'
    OBVIOUS
  <1>1. Exception(14) /\ At("do_syscall_64") /\ fate = "runs" /\ entries # <<>>
    BY DEF CallEmptySlot, At
  <1>2. kmain = 22
    BY <1>1, OpenFacts DEF At, Opened, EntryOK
  <1>3. QED
    BY <1>1, <1>2, ExceptionStep

LEMMA SyscallStep == ASSUME CpuIInv, NEW n \in Numbers, Syscall(n)
                     PROVE  CpuIInv'
  <1> DEFINE e == Entry("syscall", "handler", n)
  <1>1. /\ entries' = Append(entries, e) /\ fate = "runs" /\ ring = 3
        /\ kmain' = kmain /\ k' = k /\ ring' = 0 /\ fate' = fate /\ saved' = saved /\ gs' = gs
        /\ curr_thread' = curr_thread /\ pic' = pic
    BY DEF Syscall, setup
  <1>2. IF_' \in BOOLEAN
    BY Zenon DEF Syscall
  <1>3. BootOK /\ curr_thread \in Threads /\ kmain = 22 /\ entries = <<>>
    BY <1>1, Running
  <1>4. /\ e \in EntryRec /\ e.kind = "syscall" /\ e.pc = "handler" /\ e.cs = ring
        /\ e.came = ring
    BY <1>1, <1>3, EntryIs, EntryAssumption
  <1> HIDE DEF e
  <1>5. EntryOK(e, kmain) /\ Handled(e, kmain)
    BY <1>1, <1>3, <1>4 DEF EntryOK, Handled
  <1>6. PicMoves
    BY <1>1, <1>3, PicStays
  <1>7. kmain \in 13 .. 22
    BY <1>3
  <1>8. QED
    BY <1>1, <1>2, <1>3, <1>4, <1>5, <1>6, <1>7, PushStep

LEMMA IretqStep == CpuIInv /\ Iretq => CpuIInv'
  <1> SUFFICES ASSUME CpuIInv, Iretq PROVE CpuIInv'
    OBVIOUS
  <1>1. /\ fate = "runs" /\ entries # <<>> /\ Top.pc = "iretq" /\ entries' = Under /\ ring' = Top.cs
        /\ kmain' = kmain /\ k' = k /\ fate' = fate /\ saved' = saved /\ gs' = gs
        /\ curr_thread' = curr_thread /\ pic' = pic
    BY DEF Iretq, setup, At
  <1>2. IF_' = TRUE
    BY Zenon DEF Iretq
  <1>3. QED
    BY <1>1, <1>2, PopStep

LEMMA SysretqStep == CpuIInv /\ Sysretq => CpuIInv'
  <1> SUFFICES ASSUME CpuIInv, Sysretq PROVE CpuIInv'
    OBVIOUS
  <1>1. /\ fate = "runs" /\ entries # <<>> /\ Top.pc = "sysretq" /\ entries' = Under /\ ring' = 3
        /\ kmain' = kmain /\ k' = k /\ fate' = fate /\ saved' = saved /\ gs' = gs
        /\ curr_thread' = curr_thread /\ pic' = pic
    BY DEF Sysretq, setup, At
  <1>2. IF_' = TRUE
    BY Zenon DEF Sysretq
  <1>3. Top.cs = 3
    BY <1>1, OpenFacts DEF Opened, EntryOK
  <1>4. QED
    BY <1>1, <1>2, <1>3, PopStep

(* The tick: the context is saved, and another one is taken up.            *)
LEMMA TimerStep == ASSUME CpuIInv, NEW t \in k.live, isr_timer(t)
                   PROVE  CpuIInv'
  <1> DEFINE e == [Top EXCEPT !.pc = "copy"]
  <1>1. /\ fate = "runs" /\ entries # <<>> /\ Top.pc = "isr" /\ Top.kind = "irq" /\ Top.n = 0
        /\ saved' = [saved EXCEPT ![curr_thread] = Context(Top.cs, Under)]
        /\ curr_thread' = t /\ fate' = (IF Misplaced(t) THEN "astray" ELSE fate)
        /\ Become(e) /\ kmain' = kmain /\ k' = k /\ ring' = ring /\ gs' = gs /\ pic' = pic
    BY DEF isr_timer, In, At, GoTo, setup
  <1>2. IF_' \in BOOLEAN
    BY Zenon DEF isr_timer
  <1>3. Opened
    BY <1>1, OpenFacts
  <1>4. e \in EntryRec /\ e.pc = "copy" /\ e.cs = Top.cs /\ e.kind = Top.kind /\ e.n = Top.n
    BY <1>3 DEF Opened, EntryRec
  <1> HIDE DEF e
  <1>5. EntryOK(e, kmain) /\ Handled(e, kmain)
    BY <1>3, <1>4 DEF EntryOK, Handled, Opened
  <1>6. PicMoves
    BY <1>1, <1>3, PicStays DEF Opened
  <1>7. gs' = IF Top.cs = 3 THEN (IF Outside(e) THEN "user" ELSE "kernel") ELSE gs
    BY <1>1, <1>3, <1>4, GsByTop DEF Outside
  <1>8. fate' \in {"runs", "astray"}
    BY <1>1
  <1>9. /\ BootOK' /\ AlwaysOK' /\ StackOK(entries', kmain') /\ GsOK'
        /\ entries' # <<>> /\ Top' = e /\ Under' = Under
    BY <1>1, <1>2, <1>4, <1>5, <1>6, <1>7, <1>8, Becomes
  <1>10. ASSUME fate' # "astray" PROVE ring' \in {0, 3} /\ TopOK' /\ SavedOK'
    <2>1. t = curr_thread \/ gs = KernelGs(kmain)
      BY <1>1, <1>3, <1>10 DEF Misplaced, Opened, GsIn0
    <2>2. /\ curr_thread \in Threads /\ saved \in [Threads -> [cs : {0, 3}, below : Seq(EntryRec) \cup {Left}]]
          /\ Context(Top.cs, Under) \in [cs : {0, 3}, below : Seq(EntryRec) \cup {Left}]
      BY <1>3, GsByTop DEF Opened, SavedOK, Context, StackOK
    <2>3. TopOK'
      <3>1. 0 \in pic'.isr
        BY <1>1, <1>3 DEF Opened, TopOK
      <3>2. saved'[curr_thread'] = Context(Top'.cs, Under') \/ gs' = KernelGs(kmain')
        BY <1>1, <1>4, <1>9, <2>1, <2>2, Zenon
      <3>3. QED
        BY <1>1, <1>4, <1>9, <3>1, <3>2, Zenon DEF TopOK
    <2>4. ASSUME NEW u \in Threads
          PROVE  /\ SavedStackOK(u)'
                 /\ saved'[u].cs = 3 => kmain' = 22 \/ u \in UserThreads
                 /\ \A i \in 1 .. Len(saved'[u].below) : Calm(saved'[u].below[i], kmain')
      <3>1. CASE u # curr_thread
        <4>1. saved'[u] = saved[u]
          BY <1>1, <2>2, <3>1
        <4>2. /\ SavedStackOK(u)
              /\ saved[u].cs = 3 => kmain = 22 \/ u \in UserThreads
              /\ \A i \in 1 .. Len(saved[u].below) : Calm(saved[u].below[i], kmain)
          BY <1>3 DEF Opened, SavedOK
        <4>3. SavedStackOK(u)'
          BY <1>1, <4>1, <4>2 DEF SavedStackOK
        <4>4. QED
          BY <1>1, <4>1, <4>2, <4>3
      <3>2. CASE u = curr_thread
        <4>1. saved'[u].cs = Top.cs /\ saved'[u].below = Under
          BY <1>1, <2>2, <3>2, Zenon DEF Context
        <4>2. Under # <<>> => Top.cs = 0 /\ StackOK(Under, kmain') /\ Under[1] = entries[1]
          BY <1>1, <1>3, GsByTop DEF Opened
        <4>3. Under # <<>> /\ Outside(Under[1]) => u = curr_thread'
          <5>1. kmain \in 13 .. 22 /\ gs = GsIn0(entries, kmain)
            BY <1>3 DEF Opened
          <5>2. KernelGs(kmain) # "user"
            BY DEF KernelGs
          <5>3. QED
            BY <1>1, <2>1, <3>2, <4>2, <5>1, <5>2 DEF GsIn0
        <4>4. SavedStackOK(u)'
          BY <1>4, <1>9, <4>1, <4>2, <4>3 DEF SavedStackOK
        <4>5. QED
          BY <1>1, <1>3, <4>1, <4>4, GsByTop, Zenon DEF Opened
      <3>3. QED
        BY <3>1, <3>2
    <2>5. saved' \in [Threads -> [cs : {0, 3}, below : Seq(EntryRec) \cup {Left}]]
      BY <1>1, <2>2
    <2>6. SavedOK'
      BY <2>4, <2>5 DEF SavedOK
    <2>7. QED
      BY <1>1, <1>3, <2>3, <2>6 DEF Opened
  <1>11. QED
    BY <1>9, <1>10 DEF CpuIInv, RunOK

LEMMA CopyStep == CpuIInv /\ CopyFrame => CpuIInv'
  <1> SUFFICES ASSUME CpuIInv, CopyFrame PROVE CpuIInv'
    OBVIOUS
  <1> DEFINE context == saved[curr_thread]
             b == context.below
             e == [Top EXCEPT !.pc = "eoi", !.cs = context.cs]
  <1>1. /\ fate = "runs" /\ entries # <<>> /\ Top.pc = "copy"
        /\ entries' = Append(b, e)
        /\ fate' = (IF b = Left THEN "astray" ELSE fate)
        /\ saved' = [saved EXCEPT ![curr_thread].below = IF @ = <<>> THEN @ ELSE Left]
        /\ kmain' = kmain /\ k' = k /\ ring' = ring /\ gs' = gs /\ pic' = pic
        /\ curr_thread' = curr_thread
    BY DEF CopyFrame, At, setup
  <1>2. Opened
    BY <1>1, OpenFacts
  <1>3. IF_' \in BOOLEAN
    BY <1>2, Zenon DEF CopyFrame, Opened
  <1>4. /\ curr_thread \in Threads /\ SavedOK /\ TopOK /\ BootOK /\ ring = 0 /\ kmain \in 13 .. 22
        /\ kmain # 22 => curr_thread = Idle
        /\ gs = GsIn0(entries, kmain)
    BY <1>2 DEF Opened
  <1>5. /\ saved \in [Threads -> [cs : {0, 3}, below : Seq(EntryRec) \cup {Left}]]
        /\ SavedStackOK(curr_thread)
        /\ context.cs = 3 => kmain = 22 \/ curr_thread \in UserThreads
        /\ \A i \in 1 .. Len(b) : Calm(b[i], kmain)
    BY <1>4 DEF SavedOK
  <1>6. context.cs \in {0, 3} /\ b \in Seq(EntryRec) \cup {Left}
    BY <1>4, <1>5
  <1>7. /\ e \in EntryRec /\ e.pc = "eoi" /\ e.cs = context.cs /\ e.kind = "irq" /\ e.n = 0
        /\ Handled(e, kmain)
    <2>1. Top \in EntryRec /\ Handled(Top, kmain) /\ Top.kind = "irq" /\ Top.n = 0
      BY <1>1, <1>2 DEF Opened, TopOK
    <2>2. e \in EntryRec /\ e.pc = "eoi" /\ e.cs = context.cs /\ e.kind = "irq" /\ e.n = 0
      BY <1>6, <2>1, Zenon DEF EntryRec
    <2>3. QED
      BY <2>1, <2>2 DEF Handled
  <1>8. EntryOK(e, kmain)
    <2>1. context.cs = 3 => kmain = 22
      BY <1>4, <1>5, EntryAssumption
    <2>2. QED
      BY <1>7, <2>1 DEF EntryOK
  <1>9. saved'[curr_thread].below \in {<<>>, Left} /\ saved'[curr_thread].cs = context.cs
        /\ saved' \in [Threads -> [cs : {0, 3}, below : Seq(EntryRec) \cup {Left}]]
        /\ \A u \in Threads : u # curr_thread => saved'[u] = saved[u]
    BY <1>1, <1>4, <1>5, SeqEmpty
  <1> HIDE DEF e, b, context
  <1>10. BootOK'
    <2>1. PicMoves
      BY <1>1, <1>4, PicStays
    <2>2. QED
      BY <1>1, <1>3, <1>4, <2>1, SetUpStays
  <1>11. /\ Len(b) \in Nat /\ Len(entries') = Len(b) + 1 /\ DOMAIN entries' = 1 .. Len(entries')
         /\ Top' = e /\ entries' # <<>> /\ \A i \in 1 .. Len(b) : entries'[i] = b[i]
    <2>1. CASE b = Left
      <3>1. b \in Seq({Left[1]})
        BY <2>1 DEF Left
      <3>2. b \in Seq({Left[1], e})
        BY <3>1, SeqWiden
      <3>3. QED
        BY <1>1, <3>2 DEF Top
    <2>2. CASE b \in Seq(EntryRec)
      BY <1>1, <1>7, <2>2 DEF Top
    <2>3. QED
      BY <1>6, <2>1, <2>2
  <1>12. AlwaysOK'
    <2>1. \A i \in 1 .. Len(entries') - 1 : Calm(entries'[i], kmain')
      BY <1>1, <1>5, <1>11
    <2>2. Len(entries') \in Nat
      BY <1>11
    <2>3. QED
      BY <1>1, <1>7, <1>11, <2>1, <2>2 DEF AlwaysOK
  <1>13. ASSUME fate' # "astray" PROVE RunOK'
    <2>1. b # Left
      BY <1>1, <1>13
    <2>2. /\ StackOK(b, kmain) /\ (b # <<>> => e.cs = 0)
          /\ b # <<>> /\ Outside(b[1]) => b = Under
      <3>1. CASE b = <<>>
        BY <3>1, SeqEmpty DEF StackOK
      <3>2. CASE b # <<>>
        BY <1>5, <1>7, <2>1, <3>2 DEF SavedStackOK, b, context
      <3>3. QED
        BY <3>1, <3>2
    <2>3. StackOK(entries', kmain') /\ entries'[1] = IF b = <<>> THEN e ELSE b[1]
      BY <1>1, <1>7, <1>8, <2>2, StackPush
    <2>4. GsOK'
      <3>1. saved[curr_thread] = Context(Top.cs, Under) \/ gs = KernelGs(kmain)
        BY <1>1, <1>4 DEF TopOK
      <3>2. ~Outside(Top) /\ ~Outside(e)
        BY <1>1, <1>7 DEF Outside
      <3>3. b = Under => (Outside(entries'[1]) <=> Outside(entries[1]))
        BY <1>2, <2>3, <3>2, GsByTop
      <3>4. CASE b = Under
        BY <1>1, <1>4, <1>11, <3>3, <3>4 DEF GsOK, GsIn0
      <3>5. CASE b # Under
        <4>1. gs = KernelGs(kmain)
          BY <3>1, <3>5 DEF Context, b, context
        <4>2. ~Outside(entries'[1])
          BY <2>2, <2>3, <3>2, <3>5
        <4>3. QED
          BY <1>1, <1>4, <4>1, <4>2 DEF GsOK, GsIn0
      <3>6. QED
        BY <3>4, <3>5
    <2>5. TopOK'
      BY <1>7, <1>11 DEF TopOK
    <2>6. ASSUME NEW u \in Threads
          PROVE  /\ SavedStackOK(u)'
                 /\ saved'[u].cs = 3 => kmain' = 22 \/ u \in UserThreads
                 /\ \A i \in 1 .. Len(saved'[u].below) : Calm(saved'[u].below[i], kmain')
      <3>1. CASE u # curr_thread
        <4>1. saved'[u] = saved[u]
          BY <1>9, <3>1
        <4>2. /\ SavedStackOK(u)
              /\ saved[u].cs = 3 => kmain = 22 \/ u \in UserThreads
              /\ \A i \in 1 .. Len(saved[u].below) : Calm(saved[u].below[i], kmain)
          BY <1>4 DEF SavedOK
        <4>3. SavedStackOK(u)'
          BY <1>1, <3>1, <4>1, <4>2 DEF SavedStackOK
        <4>4. QED
          BY <1>1, <4>1, <4>2, <4>3, Zenon
      <3>2. CASE u = curr_thread
        <4>1. SavedStackOK(u)'
          BY <1>9, <3>2 DEF SavedStackOK
        <4>2. \A i \in 1 .. Len(saved'[u].below) : Calm(saved'[u].below[i], kmain')
          BY <1>9, <3>2 DEF Calm, Handled, Left
        <4>3. saved'[u].cs = 3 => kmain' = 22 \/ u \in UserThreads
          BY <1>1, <1>5, <1>9, <3>2
        <4>4. QED
          BY <4>1, <4>2, <4>3
      <3>3. QED
        BY <3>1, <3>2
    <2>7. SavedOK'
      BY <1>9, <2>6 DEF SavedOK
    <2>8. QED
      BY <1>1, <1>4, <2>3, <2>4, <2>5, <2>7 DEF RunOK
  <1>14. QED
    BY <1>10, <1>12, <1>13 DEF CpuIInv, RunOK

LEMMA HaltStep == CpuIInv /\ halt_on_exception => CpuIInv'
  <1> SUFFICES ASSUME CpuIInv, halt_on_exception PROVE CpuIInv'
    OBVIOUS
  <1>1. /\ fate = "runs" /\ entries # <<>> /\ Top.pc = "isr" /\ Top.kind = "exception"
        /\ fate' = "halted" /\ kmain' = kmain /\ k' = k /\ pic' = pic /\ gs' = gs /\ ring' = ring
        /\ curr_thread' = curr_thread /\ saved' = saved /\ entries' = entries
    BY DEF halt_on_exception, At, setup
  <1>2. IF_' \in BOOLEAN
    BY Zenon DEF halt_on_exception
  <1>3. Opened
    BY <1>1, OpenFacts
  <1>4. BootOK'
    <2>1. PicMoves
      BY <1>1, <1>3, PicStays DEF Opened
    <2>2. QED
      BY <1>1, <1>2, <1>3, <2>1, SetUpStays DEF Opened
  <1>5. SavedOK'
    BY <1>1, <1>3, SavedStays DEF Opened
  <1>6. AlwaysOK'
    BY <1>1 DEF CpuIInv, AlwaysOK, Top
  <1>7. TopOK' /\ GsOK'
    BY <1>1, <1>3 DEF Opened, TopOK, GsOK, Top
  <1>8. QED
    BY <1>1, <1>3, <1>4, <1>5, <1>6, <1>7 DEF CpuIInv, RunOK, Opened

LEMMA RaiseStep == ASSUME CpuIInv, NEW l \in Devices, Raise(l)
                   PROVE  CpuIInv'
  <1>1. /\ fate = "runs" /\ pic' = [pic EXCEPT !.irr = @ \cup {l}]
        /\ kmain' = kmain /\ k' = k /\ gs' = gs /\ ring' = ring
        /\ curr_thread' = curr_thread /\ saved' = saved /\ entries' = entries /\ fate' = fate
        /\ ~InIrq
    BY DEF Raise, setup, entryvars
  <1>2. IF_' = IF_
    BY Zenon DEF Raise
  <1>3. BootOK'
    <2>1. ReadyOK' /\ GdtOK'
      BY <1>1 DEF CpuIInv, BootOK, ReadyOK, GdtOK
    <2>2. PicOK'
      BY <1>1 DEF CpuIInv, BootOK, PicOK
    <2>3. PhaseOK'
      BY <1>1, <1>2 DEF CpuIInv, BootOK, PhaseOK
    <2>4. QED
      BY <2>1, <2>2, <2>3 DEF BootOK
  <1>4. AlwaysOK'
    BY <1>1 DEF CpuIInv, AlwaysOK, Top
  <1>5. /\ ring \in {0, 3} /\ StackOK(entries, kmain) /\ GsOK /\ TopOK /\ SavedOK
    BY <1>1 DEF CpuIInv, RunOK
  <1>6. GsOK'
    BY <1>1, <1>5 DEF GsOK
  <1>7. pic'.isr = pic.isr
    BY <1>1 DEF CpuIInv, BootOK, PicOK
  <1>8. TopOK'
    BY <1>1, <1>2, <1>5, <1>7 DEF TopOK, Top, Under
  <1>9. SavedOK'
    <2>1. \A t \in Threads : SavedStackOK(t)' <=> SavedStackOK(t)
      BY <1>1 DEF SavedStackOK, Top, Under
    <2>2. QED
      BY <1>1, <1>5, <2>1 DEF SavedOK
  <1>10. QED
    BY <1>1, <1>3, <1>4, <1>5, <1>6, <1>8, <1>9 DEF CpuIInv, RunOK

LEMMA AddStep == ASSUME CpuIInv, NEW t \in UserThreads, add_ready_threads(t)
                 PROVE  CpuIInv'
  <1>1. /\ curr_thread = Terminal /\ entries = <<>> /\ k' = [k EXCEPT !.live = @ \cup {t}]
        /\ kmain' = kmain /\ gs' = gs /\ ring' = ring /\ pic' = pic
        /\ curr_thread' = curr_thread /\ saved' = saved /\ entries' = entries /\ fate' = fate
    BY DEF add_ready_threads, entryvars
  <1>2. IF_' = IF_
    BY Zenon DEF add_ready_threads
  <1>3. k = [ready |-> k.ready, gdt |-> k.gdt, selectors |-> k.selectors, live |-> k.live]
        /\ kmain = 22
    BY <1>1, EntryAssumption DEF CpuIInv, BootOK, PhaseOK
  <1>4. /\ k'.ready = k.ready /\ k'.gdt = k.gdt /\ k'.selectors = k.selectors
        /\ k'.live = k.live \cup {t}
        /\ k' = [ready |-> k'.ready, gdt |-> k'.gdt, selectors |-> k'.selectors, live |-> k'.live]
    BY <1>1, <1>3, Zenon
  <1>5. BootOK'
    <2>1. ReadyOK' /\ GdtOK'
      BY <1>1, <1>4 DEF CpuIInv, BootOK, ReadyOK, GdtOK
    <2>2. PicOK'
      BY <1>1, SMTT(20) DEF CpuIInv, BootOK, PicOK
    <2>3. PhaseOK'
      BY <1>1, <1>2, <1>3, <1>4 DEF CpuIInv, BootOK, PhaseOK, Threads
    <2>4. QED
      BY <2>1, <2>2, <2>3 DEF BootOK
  <1>6. AlwaysOK'
    BY <1>1 DEF CpuIInv, AlwaysOK, Top
  <1>7. /\ ring \in {0, 3} /\ StackOK(entries, kmain) /\ GsOK /\ TopOK /\ SavedOK
    BY <1>1 DEF CpuIInv, RunOK, AlwaysOK
  <1>8. GsOK' /\ TopOK'
    BY <1>1, <1>7 DEF GsOK, TopOK
  <1>9. SavedOK'
    BY <1>1, <1>7, SavedStays
  <1>10. QED
    BY <1>1, <1>5, <1>6, <1>7, <1>8, <1>9 DEF CpuIInv, RunOK

LEMMA CpuStutter == CpuIInv /\ UNCHANGED vars => CpuIInv'
  <1> SUFFICES ASSUME CpuIInv, UNCHANGED vars PROVE CpuIInv'
    OBVIOUS
  <1>1. UNCHANGED <<kmain, k, pic, gs, ring, curr_thread, saved, entries, fate>>
    BY DEF vars, bootvars, entryvars
  <1>2. IF_' = IF_
    BY Zenon DEF vars, bootvars
  <1>3. BootOK'
    <2>1. ReadyOK' /\ GdtOK' /\ PicOK'
      BY <1>1 DEF CpuIInv, BootOK, ReadyOK, GdtOK, PicOK
    <2>2. PhaseOK'
      BY <1>1, <1>2 DEF CpuIInv, BootOK, PhaseOK
    <2>3. QED
      BY <2>1, <2>2 DEF BootOK
  <1>4. AlwaysOK'
    BY <1>1 DEF CpuIInv, AlwaysOK, Top
  <1>5. RunOK'
    BY <1>1, <1>2, Zenon DEF CpuIInv, RunOK, GsOK, TopOK, SavedOK, SavedStackOK, Top, Under
  <1>6. QED
    BY <1>3, <1>4, <1>5 DEF CpuIInv

LEMMA CpuInductive == CpuIInv /\ [Next]_vars => CpuIInv'
  <1> SUFFICES ASSUME CpuIInv, [Next]_vars PROVE CpuIInv'
    OBVIOUS
  <1>1. CASE kmain_runs
    BY <1>1, KmainStep
  <1>2. ASSUME NEW t \in UserThreads, add_ready_threads(t) PROVE CpuIInv'
    BY <1>2, AddStep
  <1>3. ASSUME NEW l \in Devices, Raise(l) \/ Interrupt(l) PROVE CpuIInv'
    BY <1>3, RaiseStep, InterruptStep
  <1>4. ASSUME NEW v \in Faults, Fault(v) PROVE CpuIInv'
    BY <1>4, FaultStep
  <1>5. ASSUME NEW n \in Numbers, Syscall(n) PROVE CpuIInv'
    BY <1>5, SyscallStep
  <1>6. CASE KernelStep
    <2>1. CASE StubIn \/ CopyFrame \/ isr_keyboard \/ eoi \/ StubOut \/ Iretq
      BY <2>1, StubInStep, CopyStep, KeyboardStep, EoiStep, StubOutStep, IretqStep
    <2>2. ASSUME NEW t \in k.live,
                 isr_timer(t) \/ x86_gp_fault_handler(t) \/ gp_schedule(t) \/ do_syscall_64(t)
          PROVE  CpuIInv'
      BY <2>2, TimerStep, GpStep, DoSyscallStep
    <2>3. CASE halt_on_exception \/ syscall_hanlder \/ CallEmptySlot \/ SyscallOut \/ Sysretq
      BY <2>3, HaltStep, HandlerStep, EmptySlotStep, SyscallOutStep, SysretqStep
    <2>4. QED
      BY <1>6, <2>1, <2>2, <2>3, Zenon DEF KernelStep
  <1>7. CASE UNCHANGED vars
    BY <1>7, CpuStutter
  <1>8. QED
    BY <1>1, <1>2, <1>3, <1>4, <1>5, <1>6, <1>7, Zenon DEF Next

LEMMA CpuInvariant == Spec => []CpuIInv
  BY BootInitOK, CpuInductive, PTL DEF Spec
-----------------------------------------------------------------------------
(* The GS base is the program's where it must be and the kernel's where it *)
(* must be, for any number of threads and any sequence of interrupts,      *)
(* switches, faults and system calls: the swapgs of the stub and of the    *)
(* system call path make it a function of the first open entry alone.      *)
THEOREM CpuGsMatchesRing == Spec => []GsMatchesRing
  <1>1. CpuIInv => GsMatchesRing
    <2> SUFFICES ASSUME CpuIInv, fate # "astray"
                 PROVE  /\ ring = 3 => gs = "user"
                        /\ ring = 0 /\ entries = <<>> =>
                             gs = IF Terminal \in k.live THEN "kernel" ELSE gs
                        /\ At("do_syscall_64") \/ At("popq") => gs = "kernel"
                        /\ At("isr") /\ Top.came = 3 => gs = "kernel"
      BY DEF GsMatchesRing
    <2>1. GsOK
      BY DEF CpuIInv, RunOK
    <2>2. Terminal \in k.live => kmain = 22
      BY EntryAssumption DEF CpuIInv, BootOK, PhaseOK
    <2>3. ring = 3 => gs = "user"
      BY <2>1 DEF GsOK
    <2>4. ring = 0 /\ entries = <<>> => gs = IF Terminal \in k.live THEN "kernel" ELSE gs
      BY <2>1, <2>2 DEF GsOK, GsIn0, KernelGs
    <2>5. ASSUME At("do_syscall_64") \/ At("popq") PROVE gs = "kernel"
      <3>1. Opened /\ Top.pc \in {"do_syscall_64", "popq"}
        BY <2>5, OpenFacts DEF At
      <3>2. Top.cs = 3
        BY <3>1, Zenon DEF Opened, EntryOK
      <3>3. QED
        BY <3>1, <3>2, GsByTop DEF Outside
    <2>6. ASSUME At("isr"), Top.came = 3 PROVE gs = "kernel"
      <3>1. Opened /\ Top.pc = "isr"
        BY <2>6, OpenFacts DEF At
      <3>2. Top.cs = 3
        BY <2>6, <3>1, Zenon DEF Opened, EntryOK
      <3>3. QED
        BY <3>1, <3>2, GsByTop DEF Outside
    <2>7. QED
      BY <2>3, <2>4, <2>5, <2>6
  <1>2. QED
    BY <1>1, CpuInvariant, PTL

(* No interrupt is open whose line has no routine yet, or whose routine's  *)
(* device and data are not set up: kmain unmasks a line only after them.   *)
THEOREM CpuInterruptsFindHandlers == Spec => []InterruptsFindHandlers
  <1>1. CpuIInv => InterruptsFindHandlers
    <2> SUFFICES ASSUME CpuIInv, NEW i \in DOMAIN entries, entries[i].kind = "irq"
                 PROVE  /\ pic.vector = 32 /\ {"idt_init", "idtr", "g_tty"} \subseteq k.ready
                        /\ \/ /\ entries[i].n = 0
                              /\ {"init_pit", "reset_tick", "run_global_ctors"} \subseteq k.ready
                           \/ /\ entries[i].n = 1
                              /\ {"ps2_keyboard_init", "run_global_ctors"} \subseteq k.ready
      BY DEF InterruptsFindHandlers
    <2>1. Len(entries) \in Nat /\ i \in 1 .. Len(entries) /\ entries # <<>>
      <3>1. DOMAIN entries = 1 .. Len(entries) /\ Len(entries) \in Nat
        BY DEF CpuIInv, AlwaysOK
      <3>2. i \in 1 .. Len(entries)
        BY <3>1, Zenon
      <3>3. QED
        BY <3>1, <3>2
    <2>2. Handled(entries[i], kmain)
      <3>1. CASE i = Len(entries)
        BY <2>1, <3>1, Zenon DEF CpuIInv, AlwaysOK, Top
      <3>2. CASE i # Len(entries)
        BY <2>1, <3>2 DEF CpuIInv, AlwaysOK, Calm
      <3>3. QED
        BY <3>1, <3>2
    <2>3. kmain \in 13 .. 22
      BY <2>1 DEF CpuIInv, BootOK, PhaseOK
    <2>4. /\ pic.vector = 32 /\ {"idt_init", "idtr", "g_tty", "run_global_ctors"} \subseteq k.ready
          /\ kmain > 15 => {"init_pit", "reset_tick"} \subseteq k.ready
          /\ kmain > 17 => "ps2_keyboard_init" \in k.ready
      BY <2>3 DEF CpuIInv, BootOK, PicOK, ReadyOK
    <2>5. QED
      BY <2>2, <2>4 DEF Handled
  <1>2. QED
    BY <1>1, CpuInvariant, PTL

(* Every selector in use describes what its user needs, at every call of   *)
(* kmain and ever after.                                                   *)
THEOREM CpuSelectorsAgree == Spec => []SelectorsAgree
  <1>1. CpuIInv => SelectorsAgree
    BY DEF CpuIInv, BootOK, GdtOK, SelectorsAgree
  <1>2. QED
    BY <1>1, CpuInvariant, PTL

(* Nothing comes between the choice of the next thread and the copy of its *)
(* registers into the frame, although interrupts are on there: the tick's  *)
(* line is in service, and no line has a higher priority.                  *)
THEOREM CpuSwitchUndisturbed == Spec => []SwitchUndisturbed
  <1>1. CpuIInv => SwitchUndisturbed
    <2> SUFFICES ASSUME CpuIInv, NEW i \in DOMAIN entries, entries[i].pc = "copy"
                 PROVE  i = Len(entries)
      BY DEF SwitchUndisturbed
    <2>1. Len(entries) \in Nat /\ i \in 1 .. Len(entries)
      BY DEF CpuIInv, AlwaysOK
    <2>2. i \notin 1 .. Len(entries) - 1
      BY DEF CpuIInv, AlwaysOK, Calm
    <2>3. QED
      BY <2>1, <2>2
  <1>2. QED
    BY <1>1, CpuInvariant, PTL
=============================================================================
