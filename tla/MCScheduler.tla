---------------------------- MODULE MCScheduler ----------------------------
(* Instances of Scheduler for TLC.                                         *)
EXTENDS Scheduler, TLC

(* The threads are interchangeable: their process is chosen at Spawn.      *)
ThreadSymmetry == Permutations(Threads)
=============================================================================
