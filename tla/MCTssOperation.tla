--------------------------- MODULE MCTssOperation ---------------------------
(*****************************************************************************)
(* TssOperation on small instances.                                          *)
(*****************************************************************************)
EXTENDS TssOperation

CONSTANTS keygen, m1     \* model values: message ids
=============================================================================
