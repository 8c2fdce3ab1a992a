---------------------------- MODULE MCTssSigner ----------------------------
(***************************************************************************)
(* TssSigner on small instances: two or three guards.                      *)
(***************************************************************************)
EXTENDS TssSigner, TLC

\* Every guard has one p2p identifier, the same for all that know it.
True(g) == [guard |-> g, peer |-> "p"]

\* Everybody knows everybody.
FullView == [g \in Guards |-> {{True(h) : h \in Guards}}]

\* Guard 2 may hold an identifier that guard 0 no longer has, and guard 0 may
\* have lost sight of guard 1.
MixedView ==
  [FullView EXCEPT ![0] = @ \cup {{True(0), True(2)}},
                   ![2] = @ \cup {{[guard |-> 0, peer |-> "old"], True(1), True(2)}}]
=============================================================================
