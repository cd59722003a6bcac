---------------------------- MODULE MCTokenEndpoint ----------------------------
(* Small instances of TokenEndpoint.                                       *)
EXTENDS TokenEndpoint, TLC

\* Sound for the safety runs: no definition singles out a member of these sets.
Symmetry == Permutations(Tokens) \cup Permutations(SessionTokens) \cup Permutations(Codes)
            \cup Permutations(Calls) \cup Permutations(Families)
            \cup Permutations(Users) \cup Permutations(Clients)

=============================================================================
