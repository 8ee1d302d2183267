---------------------------- MODULE MCCatalogue ----------------------------
(* Constants of Catalogue for TLC. *)
EXTENDS Catalogue, TLC

\* Labels of a kind are interchangeable.
Symmetry == UNION {Permutations(Indicators), Permutations(Signals),
                   Permutations(Rules), Permutations(Strategies)}
=============================================================================
