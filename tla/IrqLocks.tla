------------------------------ MODULE IrqLocks ------------------------------
(***************************************************************************)
(* The locks of include/util/spinlocks.hpp and the guard of                *)
(* include/util/irq_gaurd.hpp, instruction by instruction, on CPUs that    *)
(* take interrupts whenever IF is set.  A handler starts with IF clear (an *)
(* interrupt gate) and uses the same locks.  Locks are taken in ascending  *)
(* order and released last in, first out, with guards in between, which is *)
(* how the kernel uses them.                                               *)
(***************************************************************************)
EXTENDS Integers, Sequences

CONSTANTS
  Cpus,
  Locks,      \* a set of numbers, the order they are taken in
  MaxHeld,    \* bound on the locks and guards a context holds at once
  MaxDepth    \* bound on the contexts on a CPU: one thread and its handlers

ASSUME LocksAssumption == Locks \subseteq Nat \ {0}    \* 0 stands for a guard

VARIABLES
  IF_,      \* IF_[c]: the interrupt flag of CPU c
  wanted,   \* wanted[c]: whether the thread itself last did sti or cli
  data,     \* SpinLock::data, per lock
  flags,    \* IrqSpinLock::flags, per lock: whether IF was set
  ctx       \* ctx[c]: the contexts on CPU c, the running one last

lockvars == <<IF_, wanted, data, flags, ctx>>

(* As in SequencesExt, which the proofs about this module do without.      *)
Last(s) == s[Len(s)]

Front(s) == SubSeq(s, 1, Len(s) - 1)

(* A context: where it is, the lock it works on, its local saved_flags and *)
(* what it holds, [lock, saved], lock 0 for a guard.                       *)
Fresh == [pc |-> "run", lock |-> 0, saved |-> FALSE, held |-> <<>>]

top(c) == Last(ctx[c])

At(c, pc) == top(c).pc = pc

Become(c, new) == ctx' = [ctx EXCEPT ![c] = [@ EXCEPT ![Len(@)] = new]]

HeldLocks(x) == {x.held[i].lock : i \in DOMAIN x.held} \ {0}

LocksInit ==
  /\ IF_ \in [Cpus -> BOOLEAN]
  /\ wanted = IF_
  /\ data = [l \in Locks |-> FALSE]
  /\ flags = [l \in Locks |-> FALSE]
  /\ ctx = [c \in Cpus |-> <<Fresh>>]
-----------------------------------------------------------------------------
(* IrqSpinLock::acquire: pushfq.                                           *)
Pushfq(c, l) ==
  /\ At(c, "run") /\ Len(top(c).held) < MaxHeld
  /\ \A h \in HeldLocks(top(c)) : h < l
  /\ Become(c, [top(c) EXCEPT !.pc = "cli", !.lock = l, !.saved = IF_[c]])
  /\ UNCHANGED <<IF_, wanted, data, flags>>

(* Mutant: the flags are stored before the lock is owned. *)
CliSaves(c) ==
  /\ At(c, "cli")
  /\ IF_' = [IF_ EXCEPT ![c] = FALSE]
  /\ flags' = [flags EXCEPT ![top(c).lock] = top(c).saved]
  /\ Become(c, [top(c) EXCEPT !.pc = "exchange"])
  /\ UNCHANGED <<wanted, data>>

Cli(c) ==
  /\ At(c, "cli")
  /\ IF_' = [IF_ EXCEPT ![c] = FALSE]
  /\ Become(c, [top(c) EXCEPT !.pc = "exchange"])
  /\ UNCHANGED <<wanted, data, flags>>

(* Mutant: the old value is not looked at. *)
ExchangeBlind(c) ==
  /\ At(c, "exchange")
  /\ data' = [data EXCEPT ![top(c).lock] = TRUE]
  /\ Become(c, [top(c) EXCEPT !.pc = "save"])
  /\ UNCHANGED <<IF_, wanted, flags>>

(* SpinLock::acquire: the exchange that finds the lock free.               *)
Exchange(c) ==
  /\ At(c, "exchange") /\ ~data[top(c).lock]
  /\ data' = [data EXCEPT ![top(c).lock] = TRUE]
  /\ Become(c, [top(c) EXCEPT !.pc = "save"])
  /\ UNCHANGED <<IF_, wanted, flags>>

(* flags = saved_flags.                                                    *)
Save(c) ==
  /\ At(c, "save")
  /\ flags' = [flags EXCEPT ![top(c).lock] = top(c).saved]
  /\ Become(c, [top(c) EXCEPT !.pc = "run",
                              !.held = Append(@, [lock |-> top(c).lock, saved |-> FALSE])])
  /\ UNCHANGED <<IF_, wanted, data>>

(* Mutant: interrupts are restored before the lock is given up. *)
LoadSti(c) ==
  /\ At(c, "run") /\ top(c).held # <<>> /\ Last(top(c).held).lock # 0
  /\ LET l == Last(top(c).held).lock
     IN  /\ Become(c, [top(c) EXCEPT !.pc = "store", !.lock = l, !.saved = flags[l],
                                     !.held = Front(@)])
         /\ IF_' = [IF_ EXCEPT ![c] = @ \/ flags[l]]
  /\ UNCHANGED <<wanted, data, flags>>

(* IrqSpinLock::release: saved_flags = flags.                              *)
Load(c) ==
  /\ At(c, "run") /\ top(c).held # <<>> /\ Last(top(c).held).lock # 0
  /\ LET l == Last(top(c).held).lock
     IN  Become(c, [top(c) EXCEPT !.pc = "store", !.lock = l, !.saved = flags[l],
                                  !.held = Front(@)])
  /\ UNCHANGED <<IF_, wanted, data, flags>>

(* SpinLock::release.                                                      *)
Store(c) ==
  /\ At(c, "store")
  /\ data' = [data EXCEPT ![top(c).lock] = FALSE]
  /\ Become(c, [top(c) EXCEPT !.pc = "sti"])
  /\ UNCHANGED <<IF_, wanted, flags>>

Sti(c) ==
  /\ At(c, "sti")
  /\ IF_' = [IF_ EXCEPT ![c] = @ \/ top(c).saved]
  /\ Become(c, [top(c) EXCEPT !.pc = "run"])
  /\ UNCHANGED <<wanted, data, flags>>

(* IrqRAIGaurd's constructor.                                              *)
GuardPushfq(c) ==
  /\ At(c, "run") /\ Len(top(c).held) < MaxHeld
  /\ Become(c, [top(c) EXCEPT !.pc = "guard", !.saved = IF_[c]])
  /\ UNCHANGED <<IF_, wanted, data, flags>>

GuardCli(c) ==
  /\ At(c, "guard")
  /\ IF_' = [IF_ EXCEPT ![c] = FALSE]
  /\ Become(c, [top(c) EXCEPT !.pc = "run",
                              !.held = Append(@, [lock |-> 0, saved |-> top(c).saved])])
  /\ UNCHANGED <<wanted, data, flags>>

(* IrqRAIGaurd's destructor.                                               *)
GuardExit(c) ==
  /\ At(c, "run") /\ top(c).held # <<>> /\ Last(top(c).held).lock = 0
  /\ IF_' = [IF_ EXCEPT ![c] = @ \/ Last(top(c).held).saved]
  /\ Become(c, [top(c) EXCEPT !.held = Front(@)])
  /\ UNCHANGED <<wanted, data, flags>>

(* The thread itself executes sti or cli, while it holds nothing.          *)
Toggle(c) ==
  /\ Len(ctx[c]) = 1 /\ At(c, "run") /\ top(c).held = <<>>
  /\ wanted' = [wanted EXCEPT ![c] = ~@]
  /\ IF_' = [IF_ EXCEPT ![c] = wanted'[c]]
  /\ UNCHANGED <<data, flags, ctx>>

Interrupt(c) ==
  /\ IF_[c] /\ Len(ctx[c]) < MaxDepth
  /\ IF_' = [IF_ EXCEPT ![c] = FALSE]
  /\ ctx' = [ctx EXCEPT ![c] = Append(@, Fresh)]
  /\ UNCHANGED <<wanted, data, flags>>

Iretq(c) ==
  /\ Len(ctx[c]) > 1 /\ At(c, "run") /\ top(c).held = <<>>
  /\ IF_' = [IF_ EXCEPT ![c] = TRUE]
  /\ ctx' = [ctx EXCEPT ![c] = Front(@)]
  /\ UNCHANGED <<wanted, data, flags>>

LocksNext ==
  \E c \in Cpus :
    \/ \E l \in Locks : Pushfq(c, l)
    \/ Cli(c) \/ Exchange(c) \/ Save(c)
    \/ Load(c) \/ Store(c) \/ Sti(c)
    \/ GuardPushfq(c) \/ GuardCli(c) \/ GuardExit(c)
    \/ Toggle(c) \/ Interrupt(c) \/ Iretq(c)

LocksSpec == LocksInit /\ [][LocksNext]_lockvars
-----------------------------------------------------------------------------
(* The locks a context is inside of, from its exchange to its store.       *)
Owns(x) == HeldLocks(x) \cup (IF x.pc \in {"save", "store"} THEN {x.lock} ELSE {})

Contexts == UNION {{<<c, i>> : i \in DOMAIN ctx[c]} : c \in Cpus}

(* A lock has one owner over all CPUs and all nested handlers, and its     *)
(* flag is set exactly while it has one.                                   *)
OneOwner ==
  \A l \in Locks :
    LET owners == {k \in Contexts : l \in Owns(ctx[k[1]][k[2]])}
    IN  (\A j, k \in owners : j = k) /\ (data[l] <=> owners # {})

(* "a handler that runs on this cpu and wants the same lock would spin     *)
(* against a holder that can never make progress" (tests/spinlock_tests):  *)
(* no handler runs on top of a context that owns a lock.                   *)
HandlersFindLocksFree ==
  \A c \in Cpus : \A i \in 1 .. Len(ctx[c]) - 1 : Owns(ctx[c][i]) = {}

(* However locks and guards nest, and whatever the other CPUs do with the  *)
(* same locks, interrupts are off while anything is held and otherwise as  *)
(* the thread itself last set them; a handler runs with them off.          *)
InterruptsAsLeft ==
  \A c \in Cpus :
    At(c, "run") => (IF_[c] <=> Len(ctx[c]) = 1 /\ top(c).held = <<>> /\ wanted[c])
=============================================================================
