----------------------------- MODULE MCProcess -----------------------------
(* Threads are interchangeable.                                            *)
EXTENDS Process, TLC

ThreadSymmetry == Permutations(Threads)

MCStatuses == {-1, 42}
=============================================================================
