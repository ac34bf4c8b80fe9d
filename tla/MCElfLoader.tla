---------------------------- MODULE MCElfLoader ----------------------------
(* Two byte pages, a user half of eight bytes, 5 bit addresses of which    *)
(* the page map looks at 4.                                                *)
EXTENDS ElfLoader

GoodHeader ==
  [size |-> 8, magic |-> TRUE, supported |-> TRUE, e_type |-> "Exec",
   e_phnum |-> 2, e_phentsize |-> 2, e_phoff |-> 2, e_entry |-> 3]

(* Every field of the header at and around its limits.                     *)
MCHeaders ==
  [size : {1, 2, 6, 8}, magic : BOOLEAN, supported : BOOLEAN,
   e_type : {"Exec", "Rel", "Dynx"}, e_phnum : 0 .. 3, e_phentsize : 1 .. 4,
   e_phoff : {0, 2, 4, 7, 8, 30}, e_entry : {3}]

MCOnePhdr ==
  {[p_type |-> "Load", p_flags |-> {"X"}, p_offset |-> 4, p_vaddr |-> 3, p_filesz |-> 1,
    p_memsz |-> 1]}

MCGoodHeaders == {[GoodHeader EXCEPT !.e_phnum = n, !.e_entry = e] : n \in 0 .. 2, e \in {3, 12}}

(* Segments of every alignment, overlapping or not, reaching the end of    *)
(* the file and of the user half, and one past them.                       *)
MCLowPhdrs ==
  [p_type : {"Load"}, p_flags : {{"W"}, {"X"}}, p_offset : {0, 6, 8}, p_vaddr : {1, 2, 3, 5, 8},
   p_filesz : {0, 2, 3}, p_memsz : {0, 1, 3}]

(* Segments beyond the user half: right behind it, where the page map      *)
(* takes their addresses for user pages again, and at the top, of sizes    *)
(* that stay there, that reach the user half from above and that wrap.     *)
MCHighPhdrs ==
  [p_type : {"Load"}, p_flags : {{"W"}}, p_offset : {6}, p_vaddr : {9, 12, 17, 31},
   p_filesz : {0, 2}, p_memsz : {1, 3, 9, 21, 31}]

MCPhdrs ==
  MCLowPhdrs \cup MCHighPhdrs
    \cup {[p_type |-> "Null", p_flags |-> {}, p_offset |-> 31, p_vaddr |-> 31, p_filesz |-> 31,
           p_memsz |-> 0]}

(* Every header with one segment, and every two segments with a good       *)
(* header.                                                                 *)
MCFiles ==
  [ehdr : MCHeaders, phdrs : [1 .. 2 -> MCOnePhdr]]
    \cup [ehdr : MCGoodHeaders, phdrs : [1 .. 2 -> MCPhdrs]]
=============================================================================
