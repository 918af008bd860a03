--------------------------- MODULE MCOwonSession ---------------------------
(* Symmetric instances of OwonSession for the safety runs.                 *)
EXTENDS OwonSession, TLC

Symmetry ==
  Permutations(Operations) \cup Permutations(Commands) \cup Permutations(Closers)

=============================================================================
