-------------------------------- MODULE Heap --------------------------------
(***************************************************************************)
(* The kernel heap, kernel/memory/heap.cpp: kmalloc takes whole pages from *)
(* Pmm and keeps their number in a KmallocHeader at the start of the first *)
(* one, where KmallocHeader::pages overlays FreeList::next.  operator new  *)
(* and operator delete call these two.  Other callers, page tables and     *)
(* kernel stacks among them, take their pages from Pmm directly.           *)
(*                                                                         *)
(* kmalloc does not look whether Pmm::alloc returned 0.  It then puts the  *)
(* header into page 0, which no memory map lists, and returns a block      *)
(* there.  The first use of such a block that reaches the allocator or a   *)
(* page of the memory map sets astray, and is followed no further.         *)
(***************************************************************************)
EXTENDS Pmm

CONSTANTS
  HeapCallers,  \* the callers that use kmalloc
  Sizes,      \* arguments of kmalloc, in units of sizeof(KmallocHeader)
  PAGE_SIZE,  \* in the same unit
  SizeRange   \* std::size_t counts modulo this

VARIABLES
  want,       \* caller -> the kb of its kmalloc under way
  blocks,     \* the live pointers: their page and the kb asked for
  astray      \* whether a block was used that has no memory

hvars == <<vars, want, blocks, astray>>

(* The header is added to a size without wrapping.                         *)
ASSUME HeapAssumption ==
  /\ PAGE_SIZE \in Nat \ {0, 1} /\ SizeRange \in Nat \ {0}
  /\ Sizes \subseteq 0 .. SizeRange - 2 /\ HeapCallers \subseteq Callers

bytes_to_pages(bytes) ==
  bytes \div PAGE_SIZE + (IF bytes % PAGE_SIZE # 0 THEN 1 ELSE 0)

kmalloc_pages(kb) == bytes_to_pages((kb + 1) % SizeRange)

HeapInit == Init /\ want = [c \in Callers |-> 0] /\ blocks = {} /\ astray = FALSE

(* kmalloc(kb) inside Pmm::alloc, up to the release of its lock.           *)
Kmalloc(c, kb) ==
  /\ ~astray
  /\ Alloc(c, kmalloc_pages(kb))
  /\ want' = [want EXCEPT ![c] = kb]
  /\ UNCHANGED <<blocks, astray>>

(* Pmm::alloc returns 0, and kmalloc goes on.                              *)
KmallocFails(c, kb) ==
  /\ ~astray
  /\ AllocFails(c, kmalloc_pages(kb))
  /\ blocks' = blocks \cup {[pa |-> 0, kb |-> kb]}
  /\ UNCHANGED <<want, astray>>

(* Mutant: the header records the size in bytes. *)
header_pages_bytes(c) == want[c]

header_pages(c) == kmalloc_pages(want[c])

(* Pmm::alloc returns the address and kmalloc writes the header.           *)
KmallocReturn(c) ==
  /\ ~astray
  /\ curr[c] # None
  /\ LET pa == mem[curr[c].pa].pa
     IN  /\ mem' = [mem EXCEPT ![pa].next = header_pages(c)]
         /\ held' = held \cup {[pa |-> pa, pages |-> curr[c].pages]}
         /\ blocks' = blocks \cup {[pa |-> pa, kb |-> want[c]]}
  /\ curr' = [curr EXCEPT ![c] = None]
  /\ UNCHANGED <<freelist_head, g_ref_alloc, reclaimed, want, astray>>

(* kmalloc_free: the header says how many pages go back.                   *)
KmallocFree(b) ==
  /\ ~astray
  /\ b \in blocks /\ b.pa # 0
  /\ release_run([pa |-> b.pa, pages |-> mem[b.pa].next])
  /\ held' = {r \in held : r.pa # b.pa}
  /\ blocks' = blocks \ {b}
  /\ UNCHANGED <<curr, reclaimed, want, astray>>

(* The user of a block writes to it, everywhere but in the header.         *)
WriteBlock(b, p, g) ==
  /\ ~astray
  /\ b \in blocks
  /\ \E r \in held : r.pa = b.pa /\ p \in Run(r.pa, r.pages)
  /\ mem' = [mem EXCEPT ![p] = IF p = b.pa THEN [@ EXCEPT !.pa = g.pa] ELSE g]
  /\ UNCHANGED <<freelist_head, g_ref_alloc, curr, held, reclaimed, want, blocks, astray>>

(* kmalloc_free of a block in page 0: Pmm::free turns it down as long as   *)
(* nothing is outstanding.                                                 *)
FreeNull(b) ==
  /\ ~astray
  /\ b \in blocks /\ b.pa = 0
  /\ g_ref_alloc = 0
  /\ blocks' = blocks \ {b}
  /\ UNCHANGED <<vars, want, astray>>

(* Otherwise it puts page 0 on the free list, as a run of the pages that   *)
(* follow it; and a write to the block reaches those pages.                *)
UseNull(b) ==
  /\ ~astray
  /\ b \in blocks /\ b.pa = 0
  /\ g_ref_alloc # 0 \/ Run(0, kmalloc_pages(b.kb)) \cap Pages # {}
  /\ astray' = TRUE
  /\ UNCHANGED <<vars, want, blocks>>

(* The runs the direct users of Pmm hold.                                  *)
DirectRuns == {r \in held : \A b \in blocks : b.pa # r.pa}

DirectUse ==
  /\ ~astray
  /\ Use(Callers \ HeapCallers, DirectRuns)
  /\ UNCHANGED <<want, blocks, astray>>

HeapNext ==
  \/ \E c \in HeapCallers, kb \in Sizes : Kmalloc(c, kb) \/ KmallocFails(c, kb)
  \/ \E c \in HeapCallers : KmallocReturn(c)
  \/ \E b \in blocks : KmallocFree(b)
  \/ \E b \in blocks, p \in Pages, g \in Garbage : WriteBlock(b, p, g)
  \/ \E b \in blocks : FreeNull(b) \/ UseNull(b)
  \/ DirectUse

HeapSpec == HeapInit /\ [][HeapNext]_hvars

-----------------------------------------------------------------------------
(* The header of a live block names the run Pmm handed out, whatever the   *)
(* block's user wrote, so kmalloc_free gives back exactly that run; only   *)
(* what kmalloc returned without memory lies in page 0 and has no run.     *)
HeaderNamesRun ==
  \A b \in blocks : b.pa # 0 => [pa |-> b.pa, pages |-> mem[b.pa].next] \in held
=============================================================================
