--------------------------- MODULE AddressSpaces ---------------------------
(***************************************************************************)
(* What the virtual memory manager promises: every process has a function  *)
(* from virtual pages to what they map, the upper half of which is the     *)
(* kernel's and the same in all of them at all times.                      *)
(***************************************************************************)
EXTENDS Integers

CONSTANTS
  Procs, Vas, KernelVas,
  LaterRanges,   \* what the kernel maps and unmaps, records [va, pages, flags, pa]
  UserRanges,    \* what processes are given, records [va, pages, flags]
  Unmapped, NoSpace

VARIABLES
  live,    \* the processes that have an address space
  kernel,  \* what the kernel's own page map holds, a function on Vas
  space    \* process -> what its page map holds; NoSpace when not live

vars == <<live, kernel, space>>

(* The pages of range r map to the frames from pa on, with r's flags.      *)
Extended(f, r, pa) ==
  [v \in Vas |-> IF v \in r.va .. r.va + r.pages - 1
                 THEN [pa |-> pa + (v - r.va), flags |-> r.flags] ELSE f[v]]

Removed(f, r) ==
  [v \in Vas |-> IF v \in r.va .. r.va + r.pages - 1 THEN Unmapped ELSE f[v]]

Everywhere(F(_)) ==
  /\ live' = live
  /\ kernel' = F(kernel)
  /\ space' = [p \in Procs |-> IF p \in live THEN F(space[p]) ELSE NoSpace]

Init ==
  /\ live = {}
  /\ \A v \in Vas \ KernelVas : kernel[v] = Unmapped
  /\ space = [p \in Procs |-> NoSpace]

MapKernel(r) ==
  /\ r.va .. r.va + r.pages - 1 \subseteq KernelVas
  /\ Everywhere(LAMBDA f : Extended(f, r, r.pa))

UnmapKernel(r) ==
  /\ r.va .. r.va + r.pages - 1 \subseteq KernelVas
  /\ Everywhere(LAMBDA f : Removed(f, r))

Create(p) ==
  /\ p \notin live /\ live' = live \cup {p}
  /\ space' = [space EXCEPT ![p] = kernel]
  /\ UNCHANGED kernel

(* Pages that map nothing yet; the frames are the implementation's choice. *)
MapUser(p, r) ==
  /\ p \in live /\ live' = live
  /\ r.va .. r.va + r.pages - 1 \subseteq Vas \ KernelVas
  /\ \A v \in r.va .. r.va + r.pages - 1 : space[p][v] = Unmapped
  /\ space'[p][r.va] # Unmapped
  /\ \E pa \in {space'[p][r.va].pa} : space' = [space EXCEPT ![p] = Extended(@, r, pa)]
  /\ UNCHANGED kernel

Destroy(p) ==
  /\ p \in live /\ live' = live \ {p}
  /\ space' = [space EXCEPT ![p] = NoSpace]
  /\ UNCHANGED kernel

Next ==
  \/ \E p \in Procs : Create(p) \/ Destroy(p)
  \/ \E r \in LaterRanges : MapKernel(r) \/ UnmapKernel(r)
  \/ \E p \in Procs, r \in UserRanges : MapUser(p, r)

Spec == Init /\ [][Next]_vars
=============================================================================
