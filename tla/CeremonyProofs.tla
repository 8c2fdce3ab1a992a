--------------------------- MODULE CeremonyProofs ---------------------------
(***************************************************************************)
(* The abstract ceremony keeps what it promises, whatever the guards are.  *)
(***************************************************************************)
EXTENDS Ceremony, TLAPS

Inv == Agreement /\ Authorised

LEMMA InvInit == Init => Inv
  BY DEF Init, Inv, Agreement, Authorised

LEMMA InvStep == Inv /\ [Next]_vars => Inv'
<1> SUFFICES ASSUME Inv, [Next]_vars PROVE Inv'
  OBVIOUS
<1>1. ASSUME agreed \subseteq agreed', UNCHANGED started PROVE Inv'
  BY <1>1 DEF Inv, Agreement, Authorised
<1>2. CASE UNCHANGED vars
  BY <1>1, <1>2 DEF vars
<1>3. ASSUME NEW g \in Guard, Propose(g) PROVE Inv'
  BY <1>1, <1>3 DEF Propose
<1>4. ASSUME NEW g \in Guard, NEW r \in requested, Agree(g, r) PROVE Inv'
  BY <1>1, <1>4 DEF Agree
<1>5. ASSUME NEW r \in requested, NEW peers \in SUBSET r.guards, Start(r, peers)
      PROVE  Inv'
  <2> DEFINE new == [guard |-> r.from, request |-> r, peers |-> peers]
  <2>1. UNCHANGED agreed /\ started' = started \cup {new}
    BY <1>5 DEF Start
  <2>2. \A s \in started : s.request # new.request
    BY <1>5 DEF Start
  <2>3. /\ new.guard \in Names(new.peers)
        /\ Cardinality(new.peers) >= Threshold
        /\ \A g \in Names(new.peers) : <<g, new.request>> \in agreed
    BY <1>5 DEF Start
  <2> HIDE DEF new
  <2>4. Agreement'
    BY <2>1, <2>2 DEF Inv, Agreement
  <2>5. Authorised'
    BY <2>1, <2>3 DEF Inv, Authorised
  <2>6. QED
    BY <2>4, <2>5 DEF Inv
<1>6. ASSUME NEW g \in Guard, NEW s \in started, Join(g, s)
      PROVE  Inv'
  <2> DEFINE new == [guard |-> g, request |-> s.request, peers |-> s.peers]
  <2>1. UNCHANGED agreed /\ started' = started \cup {new}
    BY <1>6 DEF Join
  <2>2. new.request = s.request /\ new.peers = s.peers
    OBVIOUS
  <2>3. /\ new.guard \in Names(new.peers)
        /\ Cardinality(new.peers) >= Threshold
        /\ \A h \in Names(new.peers) : <<h, new.request>> \in agreed
    BY <1>6 DEF Join, Inv, Authorised
  <2> HIDE DEF new
  <2>4. Agreement'
    BY <2>1, <2>2 DEF Inv, Agreement
  <2>5. Authorised'
    BY <2>1, <2>3 DEF Inv, Authorised
  <2>6. QED
    BY <2>4, <2>5 DEF Inv
<1>7. QED
  BY <1>2, <1>3, <1>4, <1>5, <1>6 DEF Next

\* The guards in the ceremony of one request agree on its peers, who are
\* enough and all agreed to the request.
THEOREM CeremonySafe == Spec => [](Agreement /\ Authorised)
<1>1. Inv => Agreement /\ Authorised
  BY DEF Inv
<1>2. QED
  BY <1>1, InvInit, InvStep, PTL DEF Spec
=============================================================================
