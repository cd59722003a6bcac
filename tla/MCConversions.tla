---------------------------- MODULE MCConversions ----------------------------
(* Small instances of Conversions.                                         *)
EXTENDS Conversions

=============================================================================
