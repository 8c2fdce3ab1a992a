------------------------------ MODULE Ceremony ------------------------------
(***************************************************************************)
(* What the signing protocol of packages/tss promises, without turns,      *)
(* messages or clocks: guards request signatures, agree to requests, and   *)
(* start ceremonies.  All the guards that start the ceremony of a request  *)
(* start it with the same peers, who are enough and all agreed to it.      *)
(***************************************************************************)
EXTENDS Integers, FiniteSets

CONSTANTS
  Guard,       \* the guards
  Request,     \* requests; r.from made r, which lists r.guards
  Threshold    \* size of a quorum

VARIABLES
  requested,   \* the requests made
  agreed,      \* <<g, r>>: guard g agreed to request r
  started      \* [guard, request, peers]: guard started r's ceremony with peers

vars == <<requested, agreed, started>>

Names(peers) == {a.guard : a \in peers}

Init == requested = {} /\ agreed = {} /\ started = {}

\* A guard makes some requests, which it agrees to itself.
Propose(g) ==
  LET made == requested' \ requested
  IN /\ requested \subseteq requested'
     /\ made \subseteq Request
     /\ \A r \in made : r.from = g
     /\ agreed' = agreed \cup {<<g, r>> : r \in made}
     /\ UNCHANGED started

\* A guard agrees to a request.
Agree(g, r) ==
  /\ r \in requested
  /\ agreed' = agreed \cup {<<g, r>>}
  /\ UNCHANGED <<requested, started>>

\* The guard who made a request starts its ceremony, once.
Start(r, peers) ==
  /\ r \in requested
  /\ \A s \in started : s.request # r
  /\ peers \subseteq r.guards
  /\ \A g \in Names(peers) : <<g, r>> \in agreed
  /\ r.from \in Names(peers)
  /\ Cardinality(peers) >= Threshold
  /\ started' = started \cup {[guard |-> r.from, request |-> r, peers |-> peers]}
  /\ UNCHANGED <<requested, agreed>>

\* A peer joins the ceremony that s started.
Join(g, s) ==
  /\ s \in started
  /\ g \in Names(s.peers)
  /\ started' = started \cup {[guard |-> g, request |-> s.request, peers |-> s.peers]}
  /\ UNCHANGED <<requested, agreed>>

Next ==
  \/ \E g \in Guard : Propose(g)
  \/ \E g \in Guard : \E r \in requested : Agree(g, r)
  \/ \E r \in requested : \E peers \in SUBSET r.guards : Start(r, peers)
  \/ \E g \in Guard : \E s \in started : Join(g, s)

Spec == Init /\ [][Next]_vars

-----------------------------------------------------------------------------
\* Guards in the ceremony of one request have the same list of peers
\* (TssSigner's startSign), so that tss-api can complete it.
Agreement ==
  \A s, t \in started : s.request = t.request => s.peers = t.peers

\* The peers of a ceremony are enough, and all agreed to the request.
Authorised ==
  \A s \in started :
    /\ s.guard \in Names(s.peers)
    /\ Cardinality(s.peers) >= Threshold
    /\ \A g \in Names(s.peers) : <<g, s.request>> \in agreed
=============================================================================
