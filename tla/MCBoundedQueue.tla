---------------------------- MODULE MCBoundedQueue ----------------------------
(* Small instances of BoundedQueue for TLC.                                *)
EXTENDS BoundedQueue, TLC

(* Threads of one kind are interchangeable (used without liveness only).   *)
Symmetry == Permutations(Producers) \cup Permutations(Consumers)
===============================================================================
