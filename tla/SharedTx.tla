------------------------------ MODULE SharedTx ------------------------------
(*****************************************************************************)
(* What the multi-sig protocol promises: a guard takes a transaction for     *)
(* signed only when enough guards, each of which was asked by its own        *)
(* application to sign it, gave a proof for one and the same round, that is  *)
(* for the same commitments and the same simulation of the guards left out.  *)
(*****************************************************************************)
EXTENDS Integers, FiniteSets

CONSTANTS Guards,    \* the guards
          Required   \* how many of them have to sign

VARIABLES asked,     \* guards whose application called sign
          proofs,    \* proofs given: [by, n, round], n the secret used;
                     \* round.com has each guard's commitment, 0 if left out
          resolved   \* guards that took the transaction for signed

vars == <<asked, proofs, resolved>>

Signers(r) == {g \in Guards : r.com[g] # 0}

\* enough guards committed to round r, and each gave the proof that belongs to
\* its commitment
Complete(r, given) ==
    /\ Cardinality(Signers(r)) >= Required
    /\ \A g \in Signers(r) : [by |-> g, n |-> r.com[g], round |-> r] \in given

Init == asked = {} /\ proofs = {} /\ resolved = {}

Ask(g) == asked' = asked \cup {g} /\ UNCHANGED <<proofs, resolved>>

Prove(g) ==
    /\ g \in asked
    /\ proofs \subseteq proofs'
    /\ \A p \in proofs' \ proofs : p.by = g
    /\ UNCHANGED <<asked, resolved>>

Resolve(g) ==
    /\ g \in asked
    /\ \E p \in proofs : Complete(p.round, proofs)
    /\ resolved' = resolved \cup {g}
    /\ UNCHANGED <<asked, proofs>>

Next == \E g \in Guards : Ask(g) \/ Prove(g) \/ Resolve(g)

Spec == Init /\ [][Next]_vars
=============================================================================
