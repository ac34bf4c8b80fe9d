------------------------------- MODULE MCVmm -------------------------------
(* Three levels of two entries: pages 0 to 3 are the user's, 4 to 7 the    *)
(* kernel's.  The second half of a lower table is one that free_table()    *)
(* does not visit.  Eleven frames hold the kernel's tables and two         *)
(* processes with a page each, and run out in many orders.                 *)
EXTENDS Vmm

MCFrames == 1 .. 11

(* What is mapped at boot lies behind the one entry of the upper half, or  *)
(* behind another one that the model does not have.                        *)
MCKernelMaps ==
  {<<[pa |-> 1, va |-> 4, pages |-> 1, flags |-> {"WRITEABLE", "NX"}]>>, <<>>}

MCLaterRanges == {[pa |-> 9, va |-> 5, pages |-> 2, flags |-> {"WRITEABLE"}]}

MCUserRanges ==
  {[va |-> 0, pages |-> 1, flags |-> {"USER", "WRITEABLE"}],
   [va |-> 1, pages |-> 2, flags |-> {"USER", "NX"}]}

ProcSymmetry == Permutations(Procs)
=============================================================================
