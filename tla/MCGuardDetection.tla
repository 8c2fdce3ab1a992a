-------------------------- MODULE MCGuardDetection --------------------------
(***************************************************************************)
(* GuardDetection on small instances.                                      *)
(***************************************************************************)
EXTENDS GuardDetection, TLC
=============================================================================
