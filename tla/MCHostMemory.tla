---------------------------- MODULE MCHostMemory ----------------------------
(* The instances of HostMemory for TLC. *)
EXTENDS HostMemory, TLC

\* No thread is special.
ThreadSymmetry == Permutations(Threads)
=============================================================================
