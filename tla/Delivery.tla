------------------------------ MODULE Delivery ------------------------------
(*****************************************************************************)
(* What the keygen service's dialer promises of the messages it accepts: each*)
(* is handed at most once to each application that subscribed at its receiver*)
(* and after it was given up it is not handed over any more.                 *)
(*****************************************************************************)
EXTENDS Naturals

CONSTANTS Ids,     \* messages
          Urls     \* applications that may subscribe

VARIABLES open,    \* messages on their way
          posts    \* posts[i][u]: how often message i was posted to u

vars == <<open, posts>>

Init == open = {} /\ posts = [i \in Ids |-> [u \in Urls |-> 0]]

\* A message is new: nobody got it yet.
Accept ==
  \E new \in SUBSET (Ids \ open) :
    /\ \A i \in new : \A u \in Urls : posts[i][u] = 0
    /\ open' = open \cup new
    /\ UNCHANGED posts

Deliver ==
  \E i \in open, to \in SUBSET Urls :
    /\ open' = open \ {i}
    /\ posts' = [posts EXCEPT ![i] = [u \in Urls |-> IF u \in to THEN 1 ELSE 0]]

GiveUp == open' \subseteq open /\ UNCHANGED posts

Next == Accept \/ Deliver \/ GiveUp

Spec == Init /\ [][Next]_vars
=============================================================================
