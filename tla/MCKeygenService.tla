-------------------------- MODULE MCKeygenService --------------------------
(*****************************************************************************)
(* KeygenService on small instances.                                         *)
(*****************************************************************************)
EXTENDS KeygenService

CONSTANTS p1, p2, r1, u1    \* model values: guards, a relay, an application
=============================================================================
