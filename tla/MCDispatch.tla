----------------------------- MODULE MCDispatch -----------------------------
(* The threads are interchangeable: their process is chosen at Spawn.      *)
EXTENDS Dispatch, TLC

ThreadSymmetry == Permutations(Threads)
=============================================================================
