------------------------------- MODULE MCLocks -------------------------------
(* Locks for TLC; the threads are interchangeable. *)
EXTENDS Locks, TLC

Symmetry == Permutations(Threads)
=============================================================================
