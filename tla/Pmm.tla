-------------------------------- MODULE Pmm --------------------------------
(***************************************************************************)
(* The physical page allocator, kernel/memory/pmm.cpp.  The free list      *)
(* lives inside the free pages: mem[p] is what the first bytes of page p   *)
(* hold, a FreeList node while p heads a free run and whatever its owner   *)
(* wrote afterwards.  Addresses are page numbers and 0 is the null page.   *)
(*                                                                         *)
(* alloc and free run under g_pmm_irq_lock with interrupts off, so each is *)
(* one step up to release().  alloc reads curr->pa for its return value    *)
(* after release(), when an interrupt or another thread may already run,   *)
(* so that read is a step of its own.                                      *)
(***************************************************************************)
EXTENDS Integers, Sequences, FiniteSets

CONSTANTS
  Callers,   \* threads and interrupt handlers that use the allocator
  Memmap,    \* the Limine memory map: a sequence of [base, pages, type]
  Counts,    \* arguments of alloc
  Garbage    \* what an owner's data looks like when read as a node

VARIABLES
  mem, freelist_head, g_ref_alloc,
  curr,      \* caller -> the run alloc() unlinked and has not returned yet
  held,      \* the runs [pa, pages] that callers own
  reclaimed  \* whether the bootloader's ranges were given to the allocator

vars == <<mem, freelist_head, g_ref_alloc, curr, held, reclaimed>>

Run(pa, pages) == pa .. pa + pages - 1

Entries(type) == {Memmap[i] : i \in {i \in DOMAIN Memmap : Memmap[i].type = type}}

Pages == UNION {Run(Memmap[i].base, Memmap[i].pages) : i \in DOMAIN Memmap}

Node == [next : Nat, num_pages : Nat, pa : Nat]

None == [pa |-> 0, pages |-> 0]

ASSUME MemmapAssumption ==
  /\ Memmap \in Seq([base : Nat \ {0}, pages : Nat \ {0}, type : STRING])
  /\ \A i, j \in DOMAIN Memmap : i # j =>
       Run(Memmap[i].base, Memmap[i].pages)
         \cap Run(Memmap[j].base, Memmap[j].pages) = {}
  /\ Garbage \subseteq Node

(* Callers ask for a page at least: a count of 0 fits every run, and hands *)
(* out a page that stays free.                                             *)
ASSUME CallersAssumption == IsFiniteSet(Callers) /\ Counts \subseteq Nat \ {0}
-----------------------------------------------------------------------------
push_list(s, phys, page_amount) ==
  [mem  |-> [s.mem EXCEPT ![phys] =
               [next |-> s.head, num_pages |-> page_amount, pa |-> phys]],
   head |-> phys]

(* The entries of one type are pushed in the order of the memory map.      *)
push_entries(s, type) ==
  LET after[i \in 0 .. Len(Memmap)] ==
        IF i = 0 THEN s
        ELSE IF Memmap[i].type # type THEN after[i - 1]
        ELSE push_list(after[i - 1], Memmap[i].base, Memmap[i].pages)
  IN  after[Len(Memmap)]

(* The nodes the search meets, in order; from the end of the list on, f is *)
(* 0.                                                                      *)
Walk(s) ==
  LET f[n \in 0 .. Cardinality(Pages)] ==
        IF n = 0 THEN s.head
        ELSE IF f[n - 1] = 0 THEN 0 ELSE s.mem[f[n - 1]].next
  IN  [i \in 1 .. Cardinality({n \in DOMAIN f : f[n] # 0}) |-> f[i - 1]]

Fits(s, count) ==
  LET w == Walk(s) IN {i \in DOMAIN w : s.mem[w[i]].num_pages >= count}

(* Unlinks the node at position i of the walk.                             *)
unlink(s, i) ==
  LET w == Walk(s)
  IN  IF i = 1 THEN [s EXCEPT !.head = s.mem[w[i]].next]
      ELSE [s EXCEPT !.mem[w[i - 1]].next = s.mem[w[i]].next]

(* Mutant: the remainder starts one page early. *)
split_short(s, p, count) ==
  LET n == s.mem[p]
  IN  IF n.num_pages > count
      THEN push_list(s, n.pa + count - 1, n.num_pages - count + 1) ELSE s

(* Mutant: the page is cleared before it is handed out. *)
split_scrubs(s, p, count) ==
  LET n == s.mem[p]
      t == IF n.num_pages > count
           THEN push_list(s, n.pa + count, n.num_pages - count) ELSE s
  IN  [t EXCEPT !.mem[p].pa = 0]

(* What the run at p has beyond count pages goes back.                     *)
split(s, p, count) ==
  LET n == s.mem[p]
  IN  IF n.num_pages > count
      THEN push_list(s, n.pa + count, n.num_pages - count) ELSE s
-----------------------------------------------------------------------------
List == [mem |-> mem, head |-> freelist_head]

Install(s) == mem' = s.mem /\ freelist_head' = s.head

(* init_pmm.                                                               *)
Init ==
  /\ \E g \in Garbage :
       LET s == push_entries([mem |-> [p \in Pages |-> g], head |-> 0], "usable")
       IN  mem = s.mem /\ freelist_head = s.head
  /\ g_ref_alloc = 0
  /\ curr = [c \in Callers |-> None]
  /\ held = {}
  /\ reclaimed = FALSE

(* alloc(count) up to release(): the first run that fits is taken.         *)
Alloc(c, count) ==
  /\ curr[c] = None
  /\ Fits(List, count) # {}
  /\ LET fits == Fits(List, count)
         i    == CHOOSE i \in fits : \A j \in fits : i <= j
         p    == Walk(List)[i]
     IN  /\ Install(split(unlink(List, i), p, count))
         /\ curr' = [curr EXCEPT ![c] = [pa |-> p, pages |-> count]]
  /\ g_ref_alloc' = g_ref_alloc + 1
  /\ UNCHANGED <<held, reclaimed>>

(* return curr->pa.                                                        *)
AllocReturn(c) ==
  /\ curr[c] # None
  /\ held' = held \cup {[pa |-> mem[curr[c].pa].pa, pages |-> curr[c].pages]}
  /\ curr' = [curr EXCEPT ![c] = None]
  /\ UNCHANGED <<mem, freelist_head, g_ref_alloc, reclaimed>>

(* alloc(count) finds no run and returns 0.                                *)
AllocFails(c, count) ==
  curr[c] = None /\ Fits(List, count) = {} /\ UNCHANGED vars

(* Mutant: the count is not lowered. *)
release_run_uncounted(r) == Install(push_list(List, r.pa, r.pages)) /\ UNCHANGED g_ref_alloc

(* free(r.pa, r.pages): turned down when nothing is outstanding.           *)
release_run(r) ==
  IF g_ref_alloc = 0 THEN UNCHANGED <<mem, freelist_head, g_ref_alloc>>
  ELSE Install(push_list(List, r.pa, r.pages)) /\ g_ref_alloc' = g_ref_alloc - 1

(* An owner gives a run back.                                              *)
Free(r) ==
  /\ r \in held
  /\ release_run(r)
  /\ held' = held \ {r}
  /\ UNCHANGED <<curr, reclaimed>>

(* An owner writes to its pages.                                           *)
Write(p, g) ==
  /\ mem' = [mem EXCEPT ![p] = g]
  /\ UNCHANGED <<freelist_head, g_ref_alloc, curr, held, reclaimed>>

(* reclaim_bootloader, for every range of the memory map.                  *)
Reclaim ==
  /\ ~reclaimed
  /\ Install(push_entries(List, "bootloader"))
  /\ reclaimed' = TRUE
  /\ UNCHANGED <<g_ref_alloc, curr, held>>

(* What these callers do with these runs.                                  *)
Use(callers, runs) ==
  \/ \E c \in callers, n \in Counts : Alloc(c, n) \/ AllocFails(c, n)
  \/ \E c \in callers : AllocReturn(c)
  \/ \E r \in runs : Free(r)
  \/ \E r \in runs, g \in Garbage : \E p \in Run(r.pa, r.pages) : Write(p, g)
  \/ Reclaim

Next == Use(Callers, held)

Spec == Init /\ [][Next]_vars
-----------------------------------------------------------------------------
Taken == held \cup ({curr[c] : c \in Callers} \ {None})

Given == UNION {Run(e.base, e.pages) :
                  e \in Entries("usable") \cup
                           IF reclaimed THEN Entries("bootloader") ELSE {}}

(* The sets in free and in owned are disjoint and make up given.           *)
Partition(free, owned, given) ==
  /\ \A i, j \in DOMAIN free : i # j => free[i] \cap free[j] = {}
  /\ \A a, b \in owned : a # b => a \cap b = {}
  /\ \A i \in DOMAIN free, a \in owned : free[i] \cap a = {}
  /\ (UNION owned) \cup (UNION {free[i] : i \in DOMAIN free}) = given

(* Every page of the memory map that the allocator was given is in exactly *)
(* one run, free or handed out: no page is handed out twice and none leaks.*)
PagesPartitioned ==
  LET w == Walk(List)
  IN  Partition([i \in DOMAIN w |-> Run(w[i], mem[w[i]].num_pages)],
                {Run(r.pa, r.pages) : r \in Taken}, Given)

(* g_ref_alloc is the number of allocations outstanding, so free() never   *)
(* turns an owner down.                                                    *)
RefCountExact ==
  g_ref_alloc = Cardinality(held) + Cardinality({c \in Callers : curr[c] # None})

(* The address alloc() reads after it released the lock is still that of   *)
(* the run it unlinked.                                                    *)
ReturnReadsOwnRun == \A c \in Callers : curr[c] # None => mem[curr[c].pa].pa = curr[c].pa
=============================================================================
