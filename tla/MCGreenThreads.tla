--------------------------- MODULE MCGreenThreads ---------------------------
(* GreenThreads on small instances: model values for threads, mutexes,     *)
(* condition variables and descriptors, numbers for signals and delays.    *)
EXTENDS GreenThreads

\* The threads other than the root and the signal runner are interchangeable.
ThreadSymmetry == Permutations(Threads \ {Root, Runner})
=============================================================================
