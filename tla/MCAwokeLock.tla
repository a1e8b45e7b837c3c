---------------------------- MODULE MCAwokeLock ----------------------------
(* Model values for AwokeLock: threads are interchangeable.                *)
EXTENDS AwokeLock, TLC

MCTypes == {"SEM", "MUX", "unknown"}
Symmetry == Permutations(Threads)

=============================================================================
