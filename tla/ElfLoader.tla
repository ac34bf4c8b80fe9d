----------------------------- MODULE ElfLoader -----------------------------
(***************************************************************************)
(* elf_load, kernel/exe/elf_loader.cpp: the checks of the file header, the *)
(* loop that checks every program header, and the loop that gives every    *)
(* LOAD segment its pages and copies it.  One program header is one step,  *)
(* since Pmm may run out of memory between two of them.                    *)
(*                                                                         *)
(* Numbers are unsigned and MOD wide, as 64 bits are in the code; sizes    *)
(* and limits are constants so that small values meet every edge.  A byte  *)
(* of the file is its offset plus 1, so that a byte in memory tells where  *)
(* it came from; 0 is what memset writes.                                  *)
(***************************************************************************)
EXTENDS Integers, Sequences, FiniteSets

CONSTANTS
  MOD, PAGE_SIZE, USER_ADDR_END,
  TABLE_PAGES,                             \* pages a page map tells apart, 2^36
  EHDR_SIZE, PHDR_SIZE,                    \* sizeof(Elf64_Header), sizeof(Elf64_Phdr)
  PHNUM_LIMIT, PHENTSIZE_LIMIT, PHOFF_LIMIT,  \* 512, 512 and UINT32_MAX in the code
  Files      \* files: the header, with the size of the file, and the program headers

VARIABLES
  ehdr, phdrs,          \* the file
  pc, i,                \* where elf_load is, and its loop counter
  image_base, base_found, image_end, prev_page_end,
  space,                \* page -> the physical page and the flags it maps to
  phys                  \* the allocated physical pages and what they hold

vars == <<ehdr, phdrs, pc, i, image_base, base_found, image_end, prev_page_end, space, phys>>

ASSUME LimitsFit ==
  /\ {PHNUM_LIMIT, PHENTSIZE_LIMIT, PHOFF_LIMIT, MOD} \subseteq Nat \ {0}
  /\ (PHOFF_LIMIT - 1) + (PHNUM_LIMIT - 1) * (PHENTSIZE_LIMIT - 1) < MOD

(* The user half ends with a page, a page below the end of all addresses,  *)
(* and a page map has an entry of its own for each of its pages.           *)
ASSUME PagesFit ==
  /\ {PAGE_SIZE, USER_ADDR_END} \subseteq Nat \ {0} /\ PHDR_SIZE \in Nat
  /\ USER_ADDR_END % PAGE_SIZE = 0 /\ USER_ADDR_END + PAGE_SIZE <= MOD
  /\ TABLE_PAGES \in Nat \ {0} /\ USER_ADDR_END \div PAGE_SIZE <= TABLE_PAGES

Headers ==
  [size : 0 .. MOD - 1, magic : BOOLEAN, supported : BOOLEAN, e_type : STRING,
   e_phnum : Nat, e_phentsize : Nat, e_phoff : Nat, e_entry : Nat]

Phdrs ==
  [p_type : STRING, p_flags : SUBSET STRING, p_offset : 0 .. MOD - 1,
   p_vaddr : 0 .. MOD - 1, p_filesz : 0 .. MOD - 1, p_memsz : 0 .. MOD - 1]

ASSUME FilesAssumption == Files \subseteq [ehdr : Headers, phdrs : [1 .. PHNUM_LIMIT - 1 -> Phdrs]]

add(a, b) == (a + b) % MOD

sub(a, b) == (a - b) % MOD

align_down(a) == a - (a % PAGE_SIZE)

align_up(a) == align_down(add(a, PAGE_SIZE - 1))

InFile(first, n) == first + n <= ehdr.size
-----------------------------------------------------------------------------
elf_check_file(h) == h.magic

(* Mutant: an offset of the table near the top of the range gets by. *)
elf_check_supported_any_phoff(h) ==
  /\ h.supported
  /\ h.e_type \in {"Exec", "Rel"}
  /\ h.e_phnum < PHNUM_LIMIT
  /\ h.e_phentsize < PHENTSIZE_LIMIT

(* h.supported: 64 bits, little endian, x86-64.                            *)
elf_check_supported(h) ==
  /\ h.supported
  /\ h.e_type \in {"Exec", "Rel"}
  /\ h.e_phnum < PHNUM_LIMIT
  /\ h.e_phentsize < PHENTSIZE_LIMIT
  /\ h.e_phoff < PHOFF_LIMIT

table_fits(h) ==
  /\ h.e_phentsize >= PHDR_SIZE
  /\ add(h.e_phoff, h.e_phnum * h.e_phentsize) <= h.size

(* Mutant: page 0 may be mapped. *)
segment_bounds_from_zero(p) ==
  /\ p.p_filesz <= p.p_memsz
  /\ p.p_offset <= ehdr.size /\ p.p_filesz <= ehdr.size - p.p_offset
  /\ p.p_memsz <= sub(USER_ADDR_END, p.p_vaddr)

(* What a LOAD segment has to satisfy by itself.                           *)
segment_bounds(p) ==
  /\ p.p_filesz <= p.p_memsz
  /\ p.p_offset <= ehdr.size /\ p.p_filesz <= ehdr.size - p.p_offset
  /\ p.p_vaddr >= PAGE_SIZE
  /\ p.p_memsz <= sub(USER_ADDR_END, p.p_vaddr)

page_start(p) == align_down(p.p_vaddr)

page_end(p) == align_up(add(p.p_vaddr, p.p_memsz))

(* Mutant: segments are compared by address and not by page. *)
overlaps_bytes(p) == base_found /\ p.p_vaddr < image_end

(* Segments come in ascending order and share no page.                     *)
overlaps(p) == base_found /\ page_start(p) < prev_page_end

aligned_size(p) == align_up(add(p.p_memsz, p.p_vaddr % PAGE_SIZE))

pages(p) == aligned_size(p) \div PAGE_SIZE

(* Vmm::map: the entry for the k-th page.  Addresses wrap, and only some   *)
(* of their bits choose an entry.                                          *)
entry(p, k) == (add(page_start(p), k * PAGE_SIZE) \div PAGE_SIZE) % TABLE_PAGES

entries(p) == {entry(p, k) : k \in 0 .. pages(p) - 1}

(* The last page written to an entry is the one that stays there.          *)
page_at(p, v) ==
  CHOOSE k \in 0 .. pages(p) - 1 :
    entry(p, k) = v /\ \A j \in k + 1 .. pages(p) - 1 : entry(p, j) # v

flags_of(p) ==
  {"PRESENT", "USER"} \cup (IF "W" \in p.p_flags THEN {"WRITEABLE"} ELSE {})
                      \cup (IF "X" \in p.p_flags THEN {} ELSE {"NX"})
-----------------------------------------------------------------------------
Locals == <<image_base, base_found, image_end, prev_page_end>>

Init ==
  /\ \E f \in Files : ehdr = f.ehdr /\ phdrs = f.phdrs
  /\ pc = "header" /\ i = 0
  /\ image_base = 0 /\ base_found = FALSE /\ image_end = 0 /\ prev_page_end = 0
  /\ space = <<>>
  /\ phys = <<>>

Return(result) == pc' = result /\ UNCHANGED i

(* The checks before the first loop.                                       *)
CheckHeader ==
  /\ pc = "header"
  /\ IF /\ ehdr.size >= EHDR_SIZE
        /\ elf_check_file(ehdr) /\ elf_check_supported(ehdr) /\ table_fits(ehdr)
     THEN pc' = "check" /\ i' = 1 ELSE Return("Invalid")
  /\ UNCHANGED <<ehdr, phdrs, Locals, space, phys>>

(* One round of the first loop.                                            *)
CheckPhdr ==
  /\ pc = "check" /\ i <= ehdr.e_phnum
  /\ LET p == phdrs[i]
     IN  \/ /\ p.p_type # "Load"
            /\ i' = i + 1 /\ UNCHANGED <<pc, Locals>>
         \/ /\ p.p_type = "Load"
            /\ ~segment_bounds(p) \/ overlaps(p)
            /\ Return("Invalid") /\ UNCHANGED Locals
         \/ /\ p.p_type = "Load" /\ segment_bounds(p) /\ ~overlaps(p)
            /\ prev_page_end' = page_end(p)
            /\ image_base' = IF base_found THEN image_base ELSE p.p_vaddr
            /\ base_found' = TRUE
            /\ image_end' = LET e == add(p.p_vaddr, p.p_memsz)
                            IN  IF e > image_end THEN e ELSE image_end
            /\ i' = i + 1 /\ UNCHANGED pc
  /\ UNCHANGED <<ehdr, phdrs, space, phys>>

(* Between the loops: the entry point lies between the first segment's     *)
(* start and the last one's end.                                           *)
CheckEntry ==
  /\ pc = "check" /\ i > ehdr.e_phnum
  /\ IF base_found /\ ehdr.e_entry >= image_base /\ ehdr.e_entry < image_end
     THEN pc' = "load" /\ i' = 1 ELSE Return("Invalid")
  /\ UNCHANGED <<ehdr, phdrs, Locals, space, phys>>

(* memset, then memcpy: what page k of the segment holds.                  *)
page_bytes(p, k) ==
  [b \in 0 .. PAGE_SIZE - 1 |->
     LET at == k * PAGE_SIZE + b - (p.p_vaddr % PAGE_SIZE)
     IN  IF at \in 0 .. p.p_filesz - 1 THEN p.p_offset + at + 1 ELSE 0]

(* One round of the second loop: alloc, map, memset, memcpy.  A segment so *)
(* long that aligned_size wraps to 0 gets no page, and its bytes go where  *)
(* neither space nor phys shows them.                                      *)
LoadPhdr ==
  /\ pc = "load" /\ i <= ehdr.e_phnum
  /\ LET p  == phdrs[i]
         pa == Len(phys) + 1
     IN  \/ /\ p.p_type # "Load"
            /\ UNCHANGED <<space, phys>>
         \/ /\ p.p_type = "Load"
            /\ space' = [v \in (DOMAIN space) \cup entries(p) |->
                           IF v \in entries(p)
                           THEN [pa |-> pa + page_at(p, v), flags |-> flags_of(p)] ELSE space[v]]
            /\ phys' = phys \o [k \in 1 .. pages(p) |-> page_bytes(p, k - 1)]
  /\ i' = i + 1
  /\ UNCHANGED <<ehdr, phdrs, pc, Locals>>

(* Pmm::alloc returns 0; what was loaded before stays.                     *)
LoadNoMemory ==
  /\ pc = "load" /\ i <= ehdr.e_phnum
  /\ phdrs[i].p_type = "Load"
  /\ Return("NoMemory")
  /\ UNCHANGED <<ehdr, phdrs, Locals, space, phys>>

Finish ==
  /\ pc = "load" /\ i > ehdr.e_phnum
  /\ Return("Loaded")
  /\ UNCHANGED <<ehdr, phdrs, Locals, space, phys>>

Next == CheckHeader \/ CheckPhdr \/ CheckEntry \/ LoadPhdr \/ LoadNoMemory \/ Finish

Spec == Init /\ [][Next]_vars
-----------------------------------------------------------------------------
Loads == {phdrs[k] : k \in {k \in 1 .. ehdr.e_phnum : phdrs[k].p_type = "Load"}}

(* The file asks for nothing that starts beyond the user's half, where     *)
(* USER_ADDR_END - p_vaddr wraps and bounds nothing.                       *)
LinkedLow == \A p \in Loads : p.p_vaddr <= USER_ADDR_END

(* A loaded program that was linked low finds each of its segments in      *)
(* memory: the bytes of the file at their addresses, zeros after them up   *)
(* to p_memsz (.bss), and every page with that segment's rights, whatever  *)
(* was loaded after it.                                                    *)
LoadedAsLinked ==
  pc = "Loaded" /\ LinkedLow =>
    \A p \in Loads : \A k \in 0 .. p.p_memsz - 1 :
      LET a == p.p_vaddr + k
          v == a \div PAGE_SIZE
      IN  /\ v \in DOMAIN space
          /\ space[v].flags = flags_of(p)
          /\ phys[space[v].pa][a % PAGE_SIZE] = IF k < p.p_filesz THEN p.p_offset + k + 1 ELSE 0

(* A segment that starts in the user's half, or right behind it, never     *)
(* gets a page outside that half, nor page 0, also when loading fails      *)
(* halfway: all the other pages that elf_load maps belong to segments that *)
(* start beyond, whose size it does not bound.                             *)
MapsUserPagesOnly ==
  \A v \in DOMAIN space :
    \/ v \in 1 .. (USER_ADDR_END \div PAGE_SIZE) - 1
    \/ \E p \in Loads : p.p_vaddr > USER_ADDR_END /\ v \in entries(p)

(* elf_load never reads outside the file it was given: neither a program   *)
(* header nor the bytes of a segment.                                      *)
ReadsInsideFile ==
  /\ pc \in {"check", "load"} /\ i <= ehdr.e_phnum =>
       InFile(ehdr.e_phoff + (i - 1) * ehdr.e_phentsize, PHDR_SIZE)
  /\ pc = "load" => \A p \in Loads : InFile(p.p_offset, p.p_filesz)
=============================================================================
