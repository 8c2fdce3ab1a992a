---------------------------- MODULE MCSignQueue ----------------------------
(***************************************************************************)
(* SignQueue on small instances: a few handlers of any kind.               *)
(***************************************************************************)
EXTENDS SignQueue, TLC

\* The handlers are interchangeable, and so are the messages.
Symmetry == Permutations(Tasks) \cup Permutations(Msgs)

\* Up to two handlers of a kind.
TwoEach == [k \in Kinds |-> 2]
=============================================================================
