------------------------- MODULE MCRefreshTokenService -------------------------
(* Small instances of RefreshTokenService.                                 *)
EXTENDS RefreshTokenService, TLC

\* Sound for the safety runs: no definition singles out a member of these sets.
Symmetry == Permutations(Tokens) \cup Permutations(Calls) \cup Permutations(Families)
            \cup Permutations(Users)

=============================================================================
