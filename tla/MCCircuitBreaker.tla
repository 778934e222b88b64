-------------------------- MODULE MCCircuitBreaker --------------------------
(* Small instances of CircuitBreaker for TLC.                                *)
EXTENDS CircuitBreaker, TLC

\* Goroutines, configurations and addresses are interchangeable.
MCSymmetry == Permutations(Workers) \cup Permutations(Configs) \cup Permutations(Cells)
=============================================================================
