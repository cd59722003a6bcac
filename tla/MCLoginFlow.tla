------------------------------ MODULE MCLoginFlow ------------------------------
(* Small instances of LoginFlow.                                           *)
EXTENDS LoginFlow, TLC

\* Sound for the safety runs: no definition singles out a member of these sets.
Symmetry == Permutations(Browsers) \cup Permutations(Clients) \cup Permutations(Uris)
            \cup Permutations(States)
            \cup Permutations(Calls) \cup Permutations(Users)

=============================================================================
