--------------------------- MODULE MCDiffPagination ---------------------------
(* Small instances of DiffPagination.                                      *)
EXTENDS DiffPagination

=============================================================================
