--------------------------- MODULE MCTokenProvider ---------------------------
(* Small instances of TokenProvider.                                       *)
EXTENDS TokenProvider, TLC

\* Sound for the safety runs: no definition singles out a member of these sets.
Symmetry == Permutations(Pairs) \cup Permutations(Grants) \cup Permutations(Calls)

=============================================================================
