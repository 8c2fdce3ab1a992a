----------------------------- MODULE MCMultiSig -----------------------------
(*****************************************************************************)
(* MultiSig on small instances: two of three guards.                         *)
(*****************************************************************************)
EXTENDS MultiSig
=============================================================================
