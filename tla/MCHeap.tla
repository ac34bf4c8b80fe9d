------------------------------- MODULE MCHeap -------------------------------
(* A memory map of two usable ranges with a bootloader range between them; *)
(* a page holds four headers.                                              *)
EXTENDS Heap

MCMemmap == << [base |-> 1, pages |-> 2, type |-> "usable"],
               [base |-> 3, pages |-> 1, type |-> "bootloader"],
               [base |-> 4, pages |-> 1, type |-> "usable"] >>

(* Data that reads as a large run at page 1, linked to page 4.             *)
MCGarbage == {[next |-> 4, num_pages |-> 9, pa |-> 1]}
=============================================================================
