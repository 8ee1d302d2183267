-------------------------- MODULE MCStrategyEngine --------------------------
(* Constants of StrategyEngine for TLC. *)
EXTENDS StrategyEngine, TLC

\* Labels and thread ids are interchangeable.
Symmetry == Permutations(Labels) \cup Permutations(ThreadIds) \cup Permutations(Callers)
=============================================================================
