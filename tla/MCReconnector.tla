----------------------------- MODULE MCReconnector -----------------------------
(* Small instances of Reconnector for TLC.                                  *)
EXTENDS Reconnector, TLC

\* Generations, and callers, are interchangeable.
Symmetry == Permutations(Conns) \cup Permutations(Callers)
=============================================================================
