-------------------------------- MODULE Vmm --------------------------------
(***************************************************************************)
(* The virtual memory manager, kernel/memory/vmm.cpp: a radix tree of page *)
(* tables, LEVELS deep with ENTRIES entries each (4 and 512 in the code).  *)
(* Tables live in frames; a virtual address is a page number whose digits  *)
(* in base ENTRIES index the levels.  The upper half of the top level is   *)
(* the kernel's.                                                           *)
(*                                                                         *)
(* The frames come from Pmm, seen here through what it promises: alloc     *)
(* returns a run of free frames and counts one, free returns frames and    *)
(* takes one off the count, and is turned down when the count is 0.  Pmm   *)
(* itself is modelled in Pmm.tla.                                          *)
(*                                                                         *)
(* A function of the code is an operator on a record m, the memory; m.ok   *)
(* turns FALSE where the code calls klog_panic, which stops the machine.   *)
(* m.tables[0] stands for a table that is missing and stays empty.         *)
(***************************************************************************)
EXTENDS Integers, Sequences, FiniteSets, SequencesExt

CONSTANTS
  Procs,          \* processes
  Frames,         \* physical frames that Pmm manages, 1 .. n
  LEVELS, ENTRIES,
  KernelMaps,     \* what Vmm::init may map: sequences of [pa, va, pages, flags]
  LaterRanges,    \* what the kernel maps and unmaps afterwards: a set of the same
  UserRanges,     \* what is loaded into processes: a set of [va, pages, flags]
  Unmapped, NoSpace

VARIABLES
  memory,    \* the record the operators work on
  page_dir   \* process -> its pml4_pa, 0 when it has none

vars == <<memory, page_dir>>

KERNEL_DIR == 1   \* g_kernel_page_directory, the first frame init takes

Vas == 0 .. ENTRIES ^ LEVELS - 1

(* The entry of the table at this level that va goes through; level LEVELS *)
(* is the PML4.                                                            *)
Index(va, level) == (va \div ENTRIES ^ (level - 1)) % ENTRIES

HALF == ENTRIES \div 2

LowerHalf == 0 .. HALF - 1

UpperHalf == HALF .. ENTRIES - 1

KernelVas == {va \in Vas : Index(va, LEVELS) \in UpperHalf}

ASSUME VmmAssumption ==
  /\ Frames = 1 .. Cardinality(Frames)
  /\ LEVELS \in Nat \ {0, 1} /\ ENTRIES \in Nat \ {0} /\ ENTRIES % 2 = 0

NotPresent == [pa |-> 0, flags |-> {}]

Present(e) == e # NotPresent

Zeroed == [i \in 0 .. ENTRIES - 1 |-> NotPresent]

(* A frame that is no table: Pmm keeps its list in free frames.  A walk    *)
(* that reads one finds entries that look present.                         *)
Garbage == [i \in 0 .. ENTRIES - 1 |-> [pa |-> 0, flags |-> {"GARBAGE"}]]
-----------------------------------------------------------------------------
(* Pmm::alloc: the first free run of this many frames.  An unsuccessful    *)
(* alloc returns 0.                                                        *)
alloc(m, pages) ==
  LET runs == {f \in Frames : f .. f + pages - 1 \subseteq m.free}
      pa   == CHOOSE f \in runs : \A g \in runs : f <= g
  IN  IF runs = {} THEN [m |-> m, pa |-> 0]
      ELSE [m  |-> [m EXCEPT !.free = @ \ (pa .. pa + pages - 1),
                             !.g_ref_alloc = @ + 1],
            pa |-> pa]

(* Pmm::free.                                                              *)
free(m, pa, pages) ==
  IF m.g_ref_alloc = 0 THEN m
  ELSE [m EXCEPT !.free = @ \cup (pa .. pa + pages - 1), !.g_ref_alloc = @ - 1,
                 !.tables = [f \in DOMAIN @ |->
                               IF f \in pa .. pa + pages - 1 THEN Garbage ELSE @[f]]]

panic(m) == [m EXCEPT !.ok = FALSE]

(* A table of its own for entry i of table t, cleared before it is linked. *)
new_table(m, t, i, flags) ==
  LET a == alloc(m, 1)
  IN  IF a.pa = 0 THEN panic(m)
      ELSE [a.m EXCEPT !.tables = [@ EXCEPT ![a.pa] = Zeroed,
                                            ![t][i] = [pa |-> a.pa, flags |-> flags]]]

(* new_pagemap.                                                            *)
new_pagemap(m) ==
  LET a == alloc(m, 1)
  IN  IF a.pa = 0 THEN [m |-> panic(m), pa |-> 0]
      ELSE [m |-> [a.m EXCEPT !.tables[a.pa] = Zeroed], pa |-> a.pa]

(* get_next_level with allocate set; the table it returns is what entry i  *)
(* of t then holds.                                                        *)
get_next_level(m, t, i, flags) ==
  IF ~m.ok \/ Present(m.tables[t][i]) THEN m
  ELSE new_table(m, t, i, {"WRITEABLE"} \cup (flags \cap {"USER"}))

(* One round of map()'s loop: down the levels, then the entry.             *)
map_page(m, pml4, pa, va, flags) ==
  LET at[level \in 1 .. LEVELS] ==
        IF level = LEVELS THEN [m |-> m, t |-> pml4]
        ELSE LET up == at[level + 1]
                 i  == Index(va, level + 1)
                 n  == get_next_level(up.m, up.t, i, flags)
             IN  [m |-> n, t |-> IF n.ok THEN n.tables[up.t][i].pa ELSE up.t]
      pt == at[1]
  IN  IF ~pt.m.ok THEN pt.m
      ELSE [pt.m EXCEPT !.tables[pt.t][Index(va, 1)] = [pa |-> pa, flags |-> flags]]

map(m, pml4, pa, va, pages, flags) ==
  FoldLeft(LAMBDA n, off : map_page(n, pml4, pa + off, va + off, flags), m,
           [i \in 1 .. pages |-> i - 1])

(* get_next_level without allocate, level by level: the tables on the way  *)
(* to va, 0 from where one is missing.                                     *)
Walk(m, pml4, va) ==
  LET at[level \in 1 .. LEVELS] ==
        IF level = LEVELS THEN pml4
        ELSE m.tables[at[level + 1]][Index(va, level + 1)].pa
  IN  at

(* The entry of this level on the way to va.                               *)
EntryAt(m, pml4, va, level) == m.tables[Walk(m, pml4, va)[level]][Index(va, level)]

(* The tables on the way are there, or the code dereferences null; they    *)
(* stay when their last entry goes.                                        *)
unmap(m, pml4, va, pages) ==
  FoldLeft(LAMBDA n, off :
             [n EXCEPT !.tables[Walk(n, pml4, va + off)[1]][Index(va + off, 1)] = NotPresent],
           m, [i \in 1 .. pages |-> i - 1])

(* Mutant: the upper half is left to be filled on demand. *)
fill_kernel_entries_lazy(m, pml4) == m

fill_kernel_entries(m, pml4) ==
  FoldLeft(LAMBDA n, i : IF n.ok THEN new_table(n, pml4, i, {"WRITEABLE"}) ELSE n, m,
           [i \in 1 .. HALF |-> HALF + i - 1])

process_fill_kernel_entries(m, pml4) ==
  [m EXCEPT !.tables[pml4] =
     [i \in 0 .. ENTRIES - 1 |-> IF i \in UpperHalf THEN m.tables[KERNEL_DIR][i] ELSE @[i]]]

process_fill_user_entires(m, pml4) ==
  FoldLeft(LAMBDA n, i : IF n.ok THEN new_table(n, pml4, i, {"WRITEABLE", "USER"}) ELSE n, m,
           [i \in 1 .. HALF |-> i - 1])

(* Mutant: the kernel's half goes with the process. *)
RECURSIVE free_table_whole(_, _, _)
free_table_whole(m, t, level) ==
  FoldLeft(LAMBDA n, i :
             LET e == n.tables[t][i]
             IN  IF ~Present(e) THEN n
                 ELSE [free(IF level > 1 THEN free_table_whole(n, e.pa, level - 1) ELSE n, e.pa, 1)
                         EXCEPT !.tables[t][i] = NotPresent],
           m, [i \in 1 .. ENTRIES |-> i - 1])

(* Of every table, whatever its level, the first half of the entries is    *)
(* visited: what they point to is freed, the frames of the last level      *)
(* included, one frame at a time.                                          *)
RECURSIVE free_table(_, _, _)
free_table(m, t, level) ==
  FoldLeft(LAMBDA n, i :
             LET e == n.tables[t][i]
             IN  IF ~Present(e) THEN n
                 ELSE [free(IF level > 1 THEN free_table(n, e.pa, level - 1) ELSE n, e.pa, 1)
                         EXCEPT !.tables[t][i] = NotPresent],
           m, [i \in 1 .. HALF |-> i - 1])

free_pagemap_whole(m, pml4) == free(free_table_whole(m, pml4, LEVELS), pml4, 1)

free_pagemap(m, pml4) == free(free_table(m, pml4, LEVELS), pml4, 1)
-----------------------------------------------------------------------------
(* Pmm::init_pmm, then Vmm::init.                                          *)
Boot(ranges) ==
  LET m == [tables |-> [f \in Frames \cup {0} |-> IF f = 0 THEN Zeroed ELSE Garbage],
            free |-> Frames, g_ref_alloc |-> 0, ok |-> TRUE]
      d == new_pagemap(m)
  IN  FoldLeft(LAMBDA n, r : map(n, d.pa, r.pa, r.va, r.pages, r.flags),
               fill_kernel_entries(d.m, d.pa), ranges)

Init ==
  /\ \E ranges \in KernelMaps : memory = Boot(ranges)
  /\ page_dir = [p \in Procs |-> 0]

(* The machine goes on with m, or stops where the code panics; what a call *)
(* wrote before it panicked is seen by nobody.                             *)
Continue(m) ==
  memory' = IF m.ok THEN m ELSE panic(memory)

(* ProcessBlock's constructor.                                             *)
NewProcess(p, user) ==
  /\ memory.ok /\ page_dir[p] = 0
  /\ LET d == new_pagemap(memory)
         k == process_fill_kernel_entries(d.m, d.pa)
         m == IF ~d.m.ok THEN d.m
              ELSE IF user THEN process_fill_user_entires(k, d.pa) ELSE k
     IN  /\ Continue(m)
         /\ page_dir' = IF m.ok THEN [page_dir EXCEPT ![p] = d.pa] ELSE page_dir

(* The kernel maps a range in g_kernel_page_directory.                     *)
MapKernel(r) ==
  /\ memory.ok
  /\ Continue(map(memory, KERNEL_DIR, r.pa, r.va, r.pages, r.flags))
  /\ UNCHANGED page_dir

UnmapKernel(r) ==
  /\ memory.ok
  /\ \A va \in r.va .. r.va + r.pages - 1 : Walk(memory, KERNEL_DIR, va)[1] # 0
  /\ Continue(unmap(memory, KERNEL_DIR, r.va, r.pages))
  /\ UNCHANGED page_dir

(* Memory for a segment: frames from Pmm, mapped at r.va of p (elf_load).  *)
MapUser(p, r) ==
  /\ memory.ok /\ page_dir[p] # 0
  /\ \A va \in r.va .. r.va + r.pages - 1 :
       ~Present(EntryAt(memory, page_dir[p], va, 1))
  /\ LET a == alloc(memory, r.pages)
     IN  /\ a.pa # 0
         /\ Continue(map(a.m, page_dir[p], a.pa, r.va, r.pages, r.flags))
  /\ UNCHANGED page_dir

(* free_pagemap of a process that no CPU runs.                             *)
FreeProcess(p) ==
  /\ memory.ok /\ page_dir[p] # 0
  /\ Continue(free_pagemap(memory, page_dir[p]))
  /\ page_dir' = [page_dir EXCEPT ![p] = 0]

Next ==
  \/ \E p \in Procs : (\E user \in BOOLEAN : NewProcess(p, user)) \/ FreeProcess(p)
  \/ \E r \in LaterRanges : MapKernel(r) \/ UnmapKernel(r)
  \/ \E p \in Procs, r \in UserRanges : MapUser(p, r)

Spec == Init /\ [][Next]_vars
-----------------------------------------------------------------------------
Dirs == {page_dir[p] : p \in Procs} \ {0}

(* What the processor's walk from this PML4 finds at va: the frame, and    *)
(* the rights that every level on the way grants.                          *)
Lookup(pml4, va) ==
  LET page == EntryAt(memory, pml4, va, 1)
  IN  IF ~Present(page) THEN Unmapped
      ELSE [pa    |-> page.pa,
            flags |-> {f \in page.flags : f \in {"USER", "WRITEABLE"} =>
                         \A level \in 2 .. LEVELS : f \in EntryAt(memory, pml4, va, level).flags}]

SpaceOf(pml4) == [va \in Vas |-> Lookup(pml4, va)]

Abstract == INSTANCE AddressSpaces WITH
  live   <- {p \in Procs : page_dir[p] # 0},
  kernel <- SpaceOf(KERNEL_DIR),
  space  <- [p \in Procs |-> IF page_dir[p] = 0 THEN NoSpace ELSE SpaceOf(page_dir[p])]

(* The page tables implement address spaces: map() and unmap() change the  *)
(* translations they are asked to and no other, in no other process, with  *)
(* the rights asked for; what the kernel maps at any time shows at once in *)
(* every process, those created before included; creating and freeing a    *)
(* process changes nobody else's translations.                             *)
ImplementsAddressSpaces == Abstract!Spec

(* The tables of the user half of a PML4, and the frames it maps.          *)
UserFrames(pml4) ==
  LET below == Vas \ KernelVas
  IN  (UNION {{Walk(memory, pml4, va)[level] : level \in 1 .. LEVELS - 1} : va \in below} \ {0})
        \cup {Lookup(pml4, va).pa : va \in {v \in below : Lookup(pml4, v) # Unmapped}}

KernelTables ==
  UNION {{Walk(memory, KERNEL_DIR, va)[level] : level \in 1 .. LEVELS} : va \in KernelVas} \ {0}

(* A frame serves one purpose: a frame that a process uses, as a table or  *)
(* for its memory, is used by no other process, is no table of the kernel  *)
(* and is not free.  In particular free_pagemap() frees only what was the  *)
(* process's own.                                                          *)
FramesHaveOneUse ==
  memory.ok =>
    /\ \A d \in Dirs : (UserFrames(d) \cup {d}) \cap (KernelTables \cup memory.free) = {}
    /\ KernelTables \cap memory.free = {}
    /\ \A d, e \in Dirs : d # e => (UserFrames(d) \cup {d}) \cap (UserFrames(e) \cup {e}) = {}
=============================================================================
