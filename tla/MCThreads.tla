------------------------------ MODULE MCThreads ------------------------------
(* Threads with its tasks and topics as model values.                        *)
EXTENDS Threads, TLC

Symmetry == Permutations(Tasks) \cup Permutations(Topics)
=============================================================================
