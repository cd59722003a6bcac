------------------------------ MODULE MCToolCall ------------------------------
(* Small instances of ToolCall.                                            *)
EXTENDS ToolCall, TLC

\* Sound for the safety runs: no definition singles out a member of these sets.
Symmetry == Permutations(Users) \cup Permutations(Calls)

=============================================================================
