-------------------------- MODULE TssSignerProofs --------------------------
(***************************************************************************)
(* Proofs about TssSigner, for any number of guards, messages and turns.   *)
(***************************************************************************)
EXTENDS TssSigner, TLAPS

-----------------------------------------------------------------------------
\* The inductive invariant

\* Signatures are not invented: what a queue holds was sent in an approval, or
\* is the initiator's own signature of a request it made.
OwnSignature(r) == Signed(r.from, r.msg, r.guards, r.from, r.timestamp)

SigsSaid ==
  \A g \in Guards, m \in Msgs, h \in Guards :
    /\ HasSign(g, m)
    /\ signs[g][m].sigs[h] # None
    => \/ signs[g][m].sigs[h] \in approves
       \/ \E r \in requests : signs[g][m].sigs[h] = OwnSignature(r)

\* Requests are not invented either, and nobody answers its own.
RequestsMade ==
  /\ \A a \in approves : RequestOf(a) \in requests /\ a.from # a.init
  /\ \A g \in Guards, m \in Msgs : pending[g][m] # None =>
       pending[g][m] \in requests /\ pending[g][m].from # g
  /\ \A g \in Guards : \A w \in waiting[g] : w[1] \in requests /\ w[1].from # g

\* The request g's queue holds is one that g made, lists g, and is approved
\* by g itself.
OwnRequest ==
  \A g \in Guards, m \in Msgs :
    HasSign(g, m) /\ signs[g][m].request # None =>
      LET q == signs[g][m].request
          r == [from |-> g, msg |-> m, guards |-> q.guards, timestamp |-> q.timestamp]
      IN /\ r \in requests
         /\ signs[g][m].sigs[g] = OwnSignature(r)
         /\ \E a \in q.guards : a.guard = g

\* A guard that made a request knows the threshold.
ThresholdKnown ==
  \A g \in Guards, m \in Msgs :
    HasSign(g, m) /\ signs[g][m].request # None => threshold[g] = Threshold

\* A guard makes one batch of requests per second at most.
RequestsPast ==
  \A r \in requests :
    /\ r.timestamp <= now
    /\ r.timestamp = now /\ Up(r.from) => lastRound[r.from] = Round(now)

\* A start message tells the peers of a ceremony its sender started.
StartsFollow ==
  \A s \in starts : \E p \in posts :
    /\ p.guard = s.from /\ p.init = s.from
    /\ RequestOf(p) = [from |-> s.from, msg |-> s.msg, guards |-> s.guards,
                       timestamp |-> s.timestamp]
    /\ p.peers = PeersOf(s)
    /\ \A g \in s.to : \E a \in p.peers : a.guard = g

\* The ceremony of a request still in the queue, not posted, has not started.
StartedOnce ==
  \A g \in Guards, m \in Msgs :
    HasUnposted(g, m) /\ signs[g][m].request # None =>
      \A p \in posts : p.init = g /\ p.msg = m =>
        p.timestamp # signs[g][m].request.timestamp

PostsMade == \A p \in posts : RequestOf(p) \in requests

\* A start message that a guard accepted was sent, and to it.
JoinsReceived ==
  \A g \in Guards : \A s \in joining[g] : s \in starts /\ g \in s.to

IInv ==
  /\ TypeOK
  /\ SigsSaid
  /\ RequestsMade
  /\ OwnRequest
  /\ RequestsPast
  /\ StartsFollow
  /\ StartedOnce
  /\ PostsMade
  /\ JoinsReceived
  /\ PeersAgreed
  /\ SamePeers
  /\ StartedTogether

-----------------------------------------------------------------------------
\* Type correctness

LEMMA RoundType == \A t \in Nat : Round(t) \in Nat
  BY TimeAssumption DEF Round

LEMMA SignedType ==
  ASSUME NEW g \in Guards, NEW r \in Request, NEW h \in Guards
  PROVE  Signed(g, r.msg, r.guards, h, r.timestamp) \in Signature
  BY DEF Signed, Signature, Request

\* Every active guard that detection reports is one.
LEMMA ViewType ==
  ASSUME NEW g \in Guards, NEW active \in Views[g]
  PROVE  active \subseteq ActiveGuard
  BY ViewsAssumption

LEMMA NoSigsType == NoSigs \in Sigs
  BY DEF NoSigs, Sigs

\* Handling a request answers with well-formed messages.
LEMMA HandleRequestType ==
  ASSUME TypeOK, NEW g \in Guards, NEW r \in Request, NEW active, NEW later,
         NEW queued, HandleRequest(g, r, active, later, queued)
  PROVE  /\ approves' \subseteq Signature
         /\ cacheds' \subseteq Cached
         /\ pending' \in [Guards -> [Msgs -> Request \cup {None}]]
<1>1. CASE UNCHANGED <<approves, cacheds, pending>>
  BY <1>1 DEF TypeOK
<1>2. CASE /\ cacheds' = cacheds \cup {[from |-> g, to |-> r.from, msg |-> r.msg,
                                     timestamp |-> r.timestamp]}
           /\ UNCHANGED <<approves, pending>>
  BY <1>2 DEF TypeOK, Cached, Request
<1>3. CASE /\ approves' = approves \cup {Signed(g, r.msg, r.guards, r.from, r.timestamp)}
           /\ UNCHANGED <<cacheds, pending>>
  <2>1. r.from \in Guards
    BY DEF Request
  <2>2. QED
    BY <1>3, <2>1, SignedType DEF TypeOK
<1>4. CASE /\ pending' = [pending EXCEPT ![g][r.msg] = r]
           /\ UNCHANGED <<approves, cacheds>>
  BY <1>4 DEF TypeOK, Request
<1>5. QED
  BY <1>1, <1>2, <1>3, <1>4 DEF HandleRequest

LEMMA RegistrationsType ==
  ASSUME NEW g \in Guards, NEW r \in Request, NEW active, NEW later, NEW queued
  PROVE  Registrations(g, r, active, later, queued) \subseteq Request \X Guards
  BY DEF Registrations, UnknownGuards, Request, ActiveGuard

LEMMA CleanSignsType ==
  ASSUME TypeOK, NEW g \in Guards
  PROVE  CleanSigns(g) \in [Msgs -> Entry \cup {None}]
  BY DEF TypeOK, CleanSigns, HasSign

LEMMA CleanPendingType ==
  ASSUME TypeOK, NEW g \in Guards
  PROVE  CleanPending(g) \in [Msgs -> Request \cup {None}]
  BY DEF TypeOK, CleanPending

LEMMA RequestedType ==
  ASSUME TypeOK, NEW g \in Guards, NEW active \in Views[g],
         NEW queue \in [Msgs -> Entry \cup {None}], NEW new \in SUBSET Msgs,
         \A m \in new : queue[m] \in Entry
  PROVE  /\ RequestsFor(g, new, active) \subseteq Request
         /\ Requested(g, queue, new, active) \in [Msgs -> Entry \cup {None}]
<1>1. active \in SUBSET ActiveGuard /\ now \in Nat
  BY ViewType DEF TypeOK
<1>2. RequestsFor(g, new, active) \subseteq Request
  BY <1>1 DEF RequestsFor, Request
<1>3. ASSUME NEW m \in new
      PROVE  [queue[m] EXCEPT !.request = [guards |-> active, timestamp |-> now],
                              !.sigs = OwnSig(g, m, active)] \in Entry
  <2>1. Signed(g, m, active, g, now) \in Signature
    BY <1>1 DEF Signed, Signature
  <2>2. OwnSig(g, m, active) \in Sigs
    BY <2>1 DEF OwnSig, Sigs
  <2>3. QED
    BY <1>1, <2>2 DEF Entry
<1>4. QED
  BY <1>2, <1>3 DEF Requested

LEMMA ApprovedType ==
  ASSUME NEW m, NEW guards, NEW init, NEW timestamp, NEW sigs
  PROVE  ApprovedGuards(m, guards, init, timestamp, sigs) \subseteq guards
  BY DEF ApprovedGuards

LEMMA StartSignType ==
  ASSUME TypeOK, NEW g \in Guards, NEW m \in Msgs, NEW entry \in Entry,
         NEW guards \in SUBSET ActiveGuard, NEW peers \in SUBSET guards,
         NEW init \in Guards, NEW timestamp \in Nat,
         StartSign(g, m, entry, peers, init, guards, timestamp)
  PROVE  /\ signs' \in [Guards -> [Msgs -> Entry \cup {None}]]
         /\ running' \subseteq Post
         /\ posts' \subseteq Post
<1>1. [entry EXCEPT !.posted = TRUE] \in Entry
  BY DEF Entry
<1>2. Deadline(entry) \in Int
  BY TimeAssumption DEF Deadline, Entry
<1>3. QED
  BY <1>1, <1>2 DEF TypeOK, StartSign, Post

LEMMA TypeInit == Init => TypeOK
  BY TimeAssumption DEF Init, TypeOK

LEMMA TypeStep == TypeOK /\ [Next]_vars => TypeOK'
<1> SUFFICES ASSUME TypeOK, [Next]_vars PROVE TypeOK'
  OBVIOUS
<1>1. CASE UNCHANGED vars
  BY <1>1 DEF vars, net, TypeOK
<1>2. CASE Tick
  BY <1>2 DEF Tick, net, TypeOK
<1>3. ASSUME NEW g \in Guards, NEW m \in Msgs, SignMsg(g, m) PROVE TypeOK'
  <2>1. [request |-> None, sigs |-> NoSigs, addedTime |-> now, posted |-> FALSE] \in Entry
    BY NoSigsType DEF TypeOK, Entry
  <2>2. signs' \in [Guards -> [Msgs -> Entry \cup {None}]]
    BY <1>3, <2>1 DEF SignMsg, TypeOK
  <2>3. CASE UNCHANGED <<approves, cacheds, pending, waiting>>
    BY <1>3, <2>2, <2>3 DEF SignMsg, TypeOK
  <2>4. CASE /\ pending[g][m] # None
             /\ \E active, later \in Views[g] :
                  /\ HandleRequest(g, pending[g][m], active, later, TRUE)
                  /\ waiting' = [waiting EXCEPT ![g] =
                                   @ \cup Registrations(g, pending[g][m], active, later, TRUE)]
    <3>1. pending[g][m] \in Request
      BY <2>4 DEF TypeOK
    <3>2. PICK active, later \in Views[g] :
            /\ HandleRequest(g, pending[g][m], active, later, TRUE)
            /\ waiting' = [waiting EXCEPT ![g] =
                             @ \cup Registrations(g, pending[g][m], active, later, TRUE)]
      BY <2>4
    <3>3. /\ approves' \subseteq Signature
          /\ cacheds' \subseteq Cached
          /\ pending' \in [Guards -> [Msgs -> Request \cup {None}]]
      BY <3>1, <3>2, HandleRequestType
    <3>4. waiting' \in [Guards -> SUBSET (Request \X Guards)]
      BY <3>1, <3>2, RegistrationsType DEF TypeOK
    <3>5. QED
      BY <1>3, <2>2, <3>3, <3>4 DEF SignMsg, TypeOK
  <2>5. QED
    BY <1>3, <2>3, <2>4 DEF SignMsg
<1>4. ASSUME NEW g \in Guards, NEW m \in Msgs, CacheExpires(g, m) PROVE TypeOK'
  BY <1>4 DEF CacheExpires, Fault, net, TypeOK
<1>5. ASSUME NEW g \in Guards, UpdateCleanup(g) PROVE TypeOK'
  BY <1>5, CleanSignsType, CleanPendingType DEF UpdateCleanup, net, TypeOK
<1>6. ASSUME NEW g \in Guards, UpdateThreshold(g) PROVE TypeOK'
  <2>1. FetchedThreshold(g) \subseteq Nat \cup {-1}
    BY SizeAssumption DEF FetchedThreshold, TypeOK
  <2>2. QED
    BY <1>6, <2>1 DEF UpdateThreshold, net, TypeOK
<1>7. ASSUME NEW g \in Guards, UpdateRequest(g) PROVE TypeOK'
  <2> DEFINE queue == signs[g]
             new(first) == {m \in first : ~queue[m].posted}
  <2>1. PICK value \in FetchedThreshold(g), active \in Views[g], first \in FirstSigns(queue) :
          /\ threshold' = [threshold EXCEPT ![g] = value]
          /\ requests' = requests \cup RequestsFor(g, new(first), active)
          /\ signs' = [signs EXCEPT ![g] = Requested(g, queue, new(first), active)]
    BY <1>7 DEF UpdateRequest
  <2>2. queue \in [Msgs -> Entry \cup {None}]
    BY DEF TypeOK
  <2>3. new(first) \in SUBSET Msgs /\ \A m \in new(first) : queue[m] \in Entry
    BY <2>2 DEF FirstSigns
  <2>4. /\ requests' \subseteq Request
        /\ Requested(g, queue, new(first), active) \in [Msgs -> Entry \cup {None}]
    BY <2>1, <2>2, <2>3, RequestedType DEF TypeOK
  <2>5. signs' \in [Guards -> [Msgs -> Entry \cup {None}]]
    BY <2>1, <2>4 DEF TypeOK
  <2>6. threshold' \in [Guards -> Nat \cup {-1}]
    BY <2>1, SizeAssumption DEF FetchedThreshold, TypeOK
  <2>7. lastRound' \in [Guards -> Nat]
    BY <1>7, RoundType DEF UpdateRequest, TypeOK
  <2>8. QED
    BY <1>7, <2>4, <2>5, <2>6, <2>7 DEF UpdateRequest, TypeOK
<1>8. ASSUME NEW g \in Guards, NEW r \in requests, ReceiveRequest(g, r) PROVE TypeOK'
  <2>1. r \in Request
    BY DEF TypeOK
  <2>2. PICK active, later \in Views[g] :
          /\ HandleRequest(g, r, active, later, HasUnposted(g, r.msg))
          /\ waiting' = [waiting EXCEPT ![g] =
                           @ \cup Registrations(g, r, active, later, HasUnposted(g, r.msg))]
    BY <1>8 DEF ReceiveRequest
  <2>3. /\ approves' \subseteq Signature
        /\ cacheds' \subseteq Cached
        /\ pending' \in [Guards -> [Msgs -> Request \cup {None}]]
    BY <2>1, <2>2, HandleRequestType
  <2>4. waiting' \in [Guards -> SUBSET (Request \X Guards)]
    BY <2>1, <2>2, RegistrationsType DEF TypeOK
  <2>5. QED
    BY <1>8, <2>3, <2>4 DEF ReceiveRequest, TypeOK
<1>9. ASSUME NEW g \in Guards, NEW w \in waiting[g], Registered(g, w) PROVE TypeOK'
  <2>1. w[1] \in Request
    BY DEF TypeOK
  <2>2. PICK active, later \in Views[g] :
          HandleRequest(g, w[1], active, later, HasUnposted(g, w[1].msg))
    BY <1>9 DEF Registered
  <2>3. /\ approves' \subseteq Signature
        /\ cacheds' \subseteq Cached
        /\ pending' \in [Guards -> [Msgs -> Request \cup {None}]]
    BY <2>1, <2>2, HandleRequestType
  <2>4. QED
    BY <1>9, <2>3 DEF Registered, TypeOK
<1>10. ASSUME NEW g \in Guards, NEW a \in approves, HandleApprove(g, a) PROVE TypeOK'
  <2> DEFINE entry == [signs[g][a.msg] EXCEPT !.sigs[a.from] = a]
             req == signs[g][a.msg].request
             approved == ApprovedGuards(a.msg, req.guards, g, req.timestamp, entry.sigs)
  <2>1. a \in Signature /\ a.msg \in Msgs /\ a.from \in Guards
    BY DEF TypeOK, Signature
  <2>2. signs[g][a.msg] \in Entry /\ req \in [guards : SUBSET ActiveGuard, timestamp : Nat]
    <3>1. HasUnposted(g, a.msg) /\ signs[g][a.msg].request # None
      BY <1>10 DEF HandleApprove
    <3>2. signs \in [Guards -> [Msgs -> Entry \cup {None}]]
      BY DEF TypeOK
    <3>3. signs[g][a.msg] \in Entry
      BY <2>1, <3>1, <3>2 DEF HasUnposted, HasSign
    <3>. QED
      BY <3>1, <3>3 DEF Entry
  <2>3. entry \in Entry /\ entry.request = req
    BY <2>1, <2>2 DEF Entry, Sigs
  <2>4. req.guards \in SUBSET ActiveGuard /\ req.timestamp \in Nat /\ approved \in SUBSET req.guards
    BY <2>2, ApprovedType
  <2>5. CASE /\ starts' = starts \cup
                {[from |-> g, to |-> Receivers(g, req.guards, approved), msg |-> a.msg,
                  sigs |-> entry.sigs, guards |-> req.guards, timestamp |-> req.timestamp]}
             /\ StartSign(g, a.msg, entry, approved, g, req.guards, req.timestamp)
    <3> HIDE DEF entry, approved, req
    <3>1. /\ signs' \in [Guards -> [Msgs -> Entry \cup {None}]]
          /\ running' \subseteq Post
          /\ posts' \subseteq Post
      BY <2>1, <2>3, <2>4, <2>5, StartSignType
    <3>2. entry.sigs \in Sigs
      BY <2>3 DEF Entry
    <3>3. Receivers(g, req.guards, approved) \subseteq Guards
      BY <2>4 DEF Receivers, ActiveGuard
    <3>4. starts' \subseteq Start
      BY <2>1, <2>4, <2>5, <3>2, <3>3 DEF Start, TypeOK
    <3>5. QED
      BY <1>10, <3>1, <3>4 DEF HandleApprove, TypeOK
  <2>6. CASE /\ signs' = [signs EXCEPT ![g][a.msg] = entry]
             /\ UNCHANGED <<starts, running, posts>>
    <3> HIDE DEF entry
    <3> QED
      BY <1>10, <2>1, <2>3, <2>6 DEF HandleApprove, TypeOK
  <2>7. QED
    BY <1>10, <2>3, <2>5, <2>6 DEF HandleApprove
<1>11. ASSUME NEW g \in Guards, NEW s \in starts, HandleStart(g, s) PROVE TypeOK'
  <2>1. s \in Start
    BY DEF TypeOK
  <2>2. QED
    BY <1>11, <2>1 DEF HandleStart, net, TypeOK
<1>12. ASSUME NEW g \in Guards, NEW c \in cacheds, HandleCached(g, c) PROVE TypeOK'
  <2>1. c.msg \in Msgs
    BY DEF TypeOK, Cached
  <2>2. QED
    BY <1>12, <2>1 DEF HandleCached, net, TypeOK
<1>13. ASSUME NEW g \in Guards, Crash(g) PROVE TypeOK'
  BY <1>13 DEF Crash, Fault, net, TypeOK
<1>14. ASSUME NEW p \in running, PostFails(p) \/ ResultLost(p) PROVE TypeOK'
  <2>1. p.msg \in Msgs /\ p.guard \in Guards
    BY DEF TypeOK, Post
  <2>2. CASE PostFails(p)
    BY <2>1, <2>2 DEF PostFails, Fault, net, TypeOK
  <2>3. CASE ResultLost(p)
    BY <2>3 DEF ResultLost, Fault, net, TypeOK
  <2>4. QED
    BY <1>14, <2>2, <2>3
<1>15. ASSUME NEW p \in running, NEW ok \in BOOLEAN, HandleSignData(p, ok) PROVE TypeOK'
  <2>1. p.msg \in Msgs /\ p.guard \in Guards
    BY DEF TypeOK, Post
  <2>2. faults' \in Nat
    BY <1>15 DEF HandleSignData, Fault, TypeOK
  <2>3. QED
    BY <1>15, <2>1, <2>2 DEF HandleSignData, net, TypeOK
<1>16. ASSUME NEW g \in Guards, NEW s \in joining[g], Join(g, s) PROVE TypeOK'
  <2>1. /\ s \in Start
        /\ s.msg \in Msgs /\ s.from \in Guards /\ s.timestamp \in Nat
        /\ s.guards \in SUBSET ActiveGuard
    BY DEF TypeOK, Start
  <2>2. joining' \in [Guards -> SUBSET Start]
    BY <1>16 DEF Join, TypeOK
  <2>3. CASE /\ HasUnposted(g, s.msg)
             /\ StartSign(g, s.msg, signs[g][s.msg], PeersOf(s), s.from, s.guards, s.timestamp)
    <3>1. signs[g][s.msg] \in Entry
      BY <2>1, <2>3 DEF HasUnposted, HasSign, TypeOK
    <3>2. PeersOf(s) \in SUBSET s.guards
      BY ApprovedType DEF PeersOf
    <3>3. /\ signs' \in [Guards -> [Msgs -> Entry \cup {None}]]
          /\ running' \subseteq Post
          /\ posts' \subseteq Post
      BY <2>1, <2>3, <3>1, <3>2, StartSignType
    <3>4. QED
      BY <1>16, <2>2, <3>3 DEF Join, net, TypeOK
  <2>4. CASE UNCHANGED <<signs, running, posts>>
    BY <1>16, <2>2, <2>4 DEF Join, net, TypeOK
  <2>5. QED
    BY <1>16, <2>3, <2>4 DEF Join
<1>17. QED
  BY <1>1, <1>2, <1>3, <1>4, <1>5, <1>6, <1>7, <1>8, <1>9, <1>10, <1>11, <1>12,
     <1>13, <1>14, <1>15, <1>16 DEF Next

\* Every variable always has its type.
THEOREM TypeCorrect == Spec => []TypeOK
  BY TypeInit, TypeStep, PTL DEF Spec

-----------------------------------------------------------------------------
\* What a step may do

LEMMA Grow ==
  [Next]_vars => /\ requests \subseteq requests' /\ approves \subseteq approves'
                 /\ starts \subseteq starts' /\ posts \subseteq posts'
<1> SUFFICES ASSUME [Next]_vars
             PROVE  /\ requests \subseteq requests' /\ approves \subseteq approves'
                    /\ starts \subseteq starts' /\ posts \subseteq posts'
  OBVIOUS
<1>1. ASSUME NEW g, NEW r, NEW active, NEW later, NEW queued,
             HandleRequest(g, r, active, later, queued)
      PROVE  approves \subseteq approves'
  BY <1>1 DEF HandleRequest
<1>2. CASE UNCHANGED vars
  BY <1>2 DEF vars, net
<1>3. ASSUME NEW g \in Guards, NEW m \in Msgs, SignMsg(g, m)
      PROVE  /\ approves \subseteq approves'
             /\ UNCHANGED <<requests, starts, posts>>
  BY <1>1, <1>3 DEF SignMsg
<1>4. ASSUME NEW g \in Guards, NEW r \in requests, ReceiveRequest(g, r)
      PROVE  /\ approves \subseteq approves'
             /\ UNCHANGED <<requests, starts, posts>>
  BY <1>1, <1>4 DEF ReceiveRequest
<1>5. ASSUME NEW g \in Guards, NEW w \in waiting[g], Registered(g, w)
      PROVE  /\ approves \subseteq approves'
             /\ UNCHANGED <<requests, starts, posts>>
  BY <1>1, <1>5 DEF Registered
<1>6. ASSUME NEW g \in Guards, UpdateRequest(g)
      PROVE  requests \subseteq requests' /\ UNCHANGED <<approves, starts, posts>>
  BY <1>6 DEF UpdateRequest
<1>7. ASSUME NEW g \in Guards, NEW a \in approves, HandleApprove(g, a)
      PROVE  /\ starts \subseteq starts' /\ posts \subseteq posts'
             /\ UNCHANGED <<requests, approves>>
  BY <1>7 DEF HandleApprove, StartSign
<1>8. ASSUME NEW g \in Guards, NEW s \in joining[g], Join(g, s)
      PROVE  posts \subseteq posts' /\ UNCHANGED net
  BY <1>8 DEF Join, StartSign
<1>9. CASE Tick
  BY <1>9 DEF Tick, net
<1>10. ASSUME NEW g \in Guards,
              \/ UpdateCleanup(g) \/ UpdateThreshold(g) \/ Crash(g)
              \/ \E m \in Msgs : CacheExpires(g, m)
              \/ \E s \in starts : HandleStart(g, s)
              \/ \E c \in cacheds : HandleCached(g, c)
       PROVE  UNCHANGED net /\ UNCHANGED posts
  BY <1>10 DEF UpdateCleanup, UpdateThreshold, Crash, CacheExpires, HandleStart, HandleCached
<1>11. ASSUME NEW p \in running,
             PostFails(p) \/ ResultLost(p) \/ \E ok \in BOOLEAN : HandleSignData(p, ok)
       PROVE  UNCHANGED net /\ UNCHANGED posts
  BY <1>11 DEF PostFails, ResultLost, HandleSignData
<1>12. QED
  BY <1>2, <1>3, <1>4, <1>5, <1>6, <1>7, <1>8, <1>9, <1>10, <1>11 DEF Next, net

\* How the entry of m in g's queue comes to be what it is after a step.
Kept(g, m) ==
  /\ HasSign(g, m)
  /\ signs'[g][m].request = signs[g][m].request
  /\ signs'[g][m].sigs = signs[g][m].sigs
  /\ signs[g][m].posted => signs'[g][m].posted

Added(g, m) == signs'[g][m].request = None /\ signs'[g][m].sigs = NoSigs

MadeRequest(g, m) ==
  /\ UpdateRequest(g)
  /\ threshold'[g] \in FetchedThreshold(g)
  /\ \E active \in Views[g] :
       /\ signs'[g][m].request = [guards |-> active, timestamp |-> now]
       /\ signs'[g][m].sigs = OwnSig(g, m, active)
       /\ [from |-> g, msg |-> m, guards |-> active, timestamp |-> now] \in requests'

Collected(g, m) ==
  /\ HasSign(g, m)
  /\ signs'[g][m].request = signs[g][m].request
  /\ signs[g][m].posted => signs'[g][m].posted
  /\ \E a \in approves :
       /\ HandleApprove(g, a) /\ a.msg = m
       /\ signs'[g][m].sigs = [signs[g][m].sigs EXCEPT ![a.from] = a]

LEMMA CleanKept ==
  ASSUME TypeOK, NEW g \in Guards, NEW m \in Msgs, CleanSigns(g)[m] # None
  PROVE  HasSign(g, m) /\ CleanSigns(g)[m] = signs[g][m]
  BY DEF CleanSigns

LEMMA EntryChange ==
  ASSUME TypeOK, [Next]_vars, NEW g \in Guards, NEW m \in Msgs, signs'[g][m] # None
  PROVE  Kept(g, m) \/ Added(g, m) \/ MadeRequest(g, m) \/ Collected(g, m)
<1>1. CASE UNCHANGED signs
  BY <1>1 DEF Kept, HasSign
<1>2. ASSUME NEW h \in Guards, NEW k \in Msgs, SignMsg(h, k)
      PROVE  Kept(g, m) \/ Added(g, m)
  <2>1. signs' = [signs EXCEPT ![h][k] =
          [request |-> None, sigs |-> NoSigs, addedTime |-> now, posted |-> FALSE]]
    BY <1>2 DEF SignMsg
  <2>2. CASE h = g /\ k = m
    BY <2>1, <2>2 DEF Added, TypeOK
  <2>3. CASE h # g \/ k # m
    BY <2>1, <2>3 DEF Kept, HasSign, TypeOK
  <2>4. QED
    BY <2>2, <2>3
<1>3. ASSUME NEW h \in Guards, UpdateCleanup(h)
      PROVE  Kept(g, m)
  <2>1. signs' = [signs EXCEPT ![h] = CleanSigns(h)]
    BY <1>3 DEF UpdateCleanup
  <2>2. HasSign(g, m) /\ signs'[g][m] = signs[g][m]
    BY <2>1, CleanKept DEF HasSign, TypeOK
  <2>3. QED
    BY <2>2 DEF Kept
<1>4. ASSUME NEW h \in Guards, UpdateRequest(h)
      PROVE  Kept(g, m) \/ MadeRequest(g, m)
  <2> DEFINE queue == signs[h]
             new(first) == {k \in first : ~queue[k].posted}
  <2>1. PICK value \in FetchedThreshold(h), active \in Views[h], first \in FirstSigns(queue) :
          /\ threshold' = [threshold EXCEPT ![h] = value]
          /\ requests' = requests \cup RequestsFor(h, new(first), active)
          /\ signs' = [signs EXCEPT ![h] = Requested(h, queue, new(first), active)]
    BY <1>4 DEF UpdateRequest
  <2>2. CASE h # g
    BY <2>1, <2>2 DEF Kept, HasSign, TypeOK
  <2>3. CASE h = g /\ m \notin new(first)
    <3>1. signs'[g][m] = signs[g][m]
      BY <2>1, <2>3 DEF Requested, TypeOK
    <3>2. QED
      BY <3>1 DEF Kept, HasSign
  <2>4. CASE h = g /\ m \in new(first)
    <3>1. queue[m] \in Entry
      BY <2>4 DEF FirstSigns, TypeOK
    <3>2. signs'[g][m] = [queue[m] EXCEPT !.request = [guards |-> active, timestamp |-> now],
                                          !.sigs = OwnSig(g, m, active)]
      BY <2>1, <2>4 DEF Requested, TypeOK
    <3>3. /\ signs'[g][m].request = [guards |-> active, timestamp |-> now]
          /\ signs'[g][m].sigs = OwnSig(g, m, active)
      BY <3>1, <3>2 DEF Entry
    <3>4. [from |-> g, msg |-> m, guards |-> active, timestamp |-> now] \in requests'
      BY <2>1, <2>4 DEF RequestsFor
    <3>5. threshold'[g] \in FetchedThreshold(g)
      BY <2>1, <2>4 DEF TypeOK
    <3>6. QED
      BY <1>4, <2>4, <3>3, <3>4, <3>5 DEF MadeRequest
  <2>5. QED
    BY <2>2, <2>3, <2>4
<1>5. ASSUME NEW h \in Guards, NEW a \in approves, HandleApprove(h, a)
      PROVE  Kept(g, m) \/ Collected(g, m)
  <2> DEFINE entry == [signs[h][a.msg] EXCEPT !.sigs[a.from] = a]
             posted == [entry EXCEPT !.posted = TRUE]
  <2>1. a.msg \in Msgs /\ a.from \in Guards /\ a \in Signature
    BY DEF TypeOK, Signature
  <2>2. signs[h][a.msg] \in Entry /\ HasSign(h, a.msg)
    <3>1. HasUnposted(h, a.msg)
      BY <1>5 DEF HandleApprove
    <3>2. signs \in [Guards -> [Msgs -> Entry \cup {None}]]
      BY DEF TypeOK
    <3>3. signs[h][a.msg] \in Entry
      BY <2>1, <3>1, <3>2 DEF HasUnposted, HasSign
    <3>. QED
      BY <3>1, <3>3 DEF HasUnposted, HasSign
  <2>3. /\ signs' = [signs EXCEPT ![h][a.msg] = entry] \/
           signs' = [signs EXCEPT ![h][a.msg] = posted]
    BY <1>5 DEF HandleApprove, StartSign
  <2>4. CASE h # g \/ a.msg # m
    <3> HIDE DEF entry, posted
    <3> QED
      BY <2>1, <2>3, <2>4 DEF Kept, HasSign, TypeOK
  <2>5. CASE h = g /\ a.msg = m
    <3>1. /\ entry.request = signs[g][m].request
          /\ posted.request = signs[g][m].request
          /\ entry.sigs = [signs[g][m].sigs EXCEPT ![a.from] = a]
          /\ posted.sigs = [signs[g][m].sigs EXCEPT ![a.from] = a]
          /\ signs[g][m].posted => entry.posted /\ posted.posted
      BY <2>2, <2>5 DEF Entry, Sigs
    <3>2. signs'[g][m] = entry \/ signs'[g][m] = posted
      <4> HIDE DEF entry, posted
      <4> QED
        BY <2>3, <2>5 DEF TypeOK
    <3> HIDE DEF entry, posted
    <3>3. QED
      BY <1>5, <2>2, <2>5, <3>1, <3>2 DEF Collected
  <2>6. QED
    BY <2>4, <2>5
<1>6. ASSUME NEW h \in Guards, NEW s \in joining[h], Join(h, s)
      PROVE  Kept(g, m)
  <2>1. s.msg \in Msgs
    BY DEF TypeOK, Start
  <2>2. CASE UNCHANGED signs
    BY <2>2 DEF Kept, HasSign
  <2>3. CASE /\ HasUnposted(h, s.msg)
             /\ signs' = [signs EXCEPT ![h][s.msg] = [signs[h][s.msg] EXCEPT !.posted = TRUE]]
    <3>1. signs[h][s.msg] \in Entry /\ HasSign(h, s.msg)
      BY <2>1, <2>3 DEF HasUnposted, HasSign, TypeOK
    <3>2. QED
      BY <2>1, <2>3, <3>1 DEF Kept, HasSign, TypeOK, Entry
  <2>4. QED
    BY <1>6, <2>2, <2>3 DEF Join, StartSign
<1>7. ASSUME NEW h \in Guards, NEW k \in Msgs, signs' = [signs EXCEPT ![h][k] = None]
      PROVE  Kept(g, m)
  BY <1>7 DEF Kept, HasSign, TypeOK
<1>8. ASSUME NEW h \in Guards, NEW c \in cacheds, HandleCached(h, c)
      PROVE  Kept(g, m)
  <2>1. c.msg \in Msgs
    BY DEF TypeOK, Cached
  <2>2. signs' = [signs EXCEPT ![h][c.msg] = None]
    BY <1>8 DEF HandleCached
  <2>3. QED
    BY <1>7, <2>1, <2>2
<1>9. ASSUME NEW h \in Guards, Crash(h)
      PROVE  Kept(g, m)
  BY <1>9 DEF Crash, Kept, HasSign, TypeOK
<1>10. ASSUME NEW p \in running,
             PostFails(p) \/ ResultLost(p) \/ \E ok \in BOOLEAN : HandleSignData(p, ok)
       PROVE  Kept(g, m)
  <2>1. p.guard \in Guards /\ p.msg \in Msgs
    BY DEF TypeOK, Post
  <2>2. signs' = signs \/ signs' = [signs EXCEPT ![p.guard][p.msg] = None]
    BY <1>10 DEF PostFails, ResultLost, HandleSignData
  <2>3. QED
    BY <1>7, <2>1, <2>2 DEF Kept, HasSign
<1>11. ASSUME NEW h \in Guards,
              \/ UpdateThreshold(h)
              \/ \E r \in requests : ReceiveRequest(h, r)
              \/ \E w \in waiting[h] : Registered(h, w)
              \/ \E s \in starts : HandleStart(h, s)
              \/ \E k \in Msgs : CacheExpires(h, k)
       PROVE  UNCHANGED signs
  BY <1>11 DEF UpdateThreshold, ReceiveRequest, Registered, HandleStart, CacheExpires
<1>12. Tick \/ UNCHANGED vars => UNCHANGED signs
  BY DEF Tick, vars
<1>13. QED
  BY <1>1, <1>2, <1>3, <1>4, <1>5, <1>6, <1>8, <1>9, <1>10, <1>11, <1>12 DEF Next

\* What handling request r of another guard adds.
LEMMA HandleRequestAdds ==
  ASSUME TypeOK, NEW g \in Guards, NEW r \in Request, NEW active, NEW later, NEW queued,
         HandleRequest(g, r, active, later, queued)
  PROVE  /\ \A a \in approves' : a \in approves \/ a = Signed(g, r.msg, r.guards, r.from, r.timestamp)
         /\ \A h \in Guards, m \in Msgs :
              \/ pending'[h][m] = pending[h][m]
              \/ h = g /\ pending'[h][m] = r
<1>1. CASE UNCHANGED <<approves, pending>>
  BY <1>1
<1>2. CASE /\ approves' = approves \cup {Signed(g, r.msg, r.guards, r.from, r.timestamp)}
           /\ UNCHANGED pending
  BY <1>2
<1>3. CASE UNCHANGED approves /\ pending' = [pending EXCEPT ![g][r.msg] = r]
  BY <1>3 DEF TypeOK
<1>4. QED
  BY <1>1, <1>2, <1>3 DEF HandleRequest

LEMMA SignedRequest ==
  ASSUME NEW g, NEW r \in Request
  PROVE  LET a == Signed(g, r.msg, r.guards, r.from, r.timestamp)
         IN RequestOf(a) = r /\ a.from = g /\ a.init = r.from
  BY DEF Signed, RequestOf, Request

LEMMA RequestsMadeStep ==
  ASSUME TypeOK, RequestsMade, [Next]_vars
  PROVE  RequestsMade'
<1>1. requests \subseteq requests'
  BY Grow
<1>2. ASSUME NEW g \in Guards, NEW r \in requests, NEW active, NEW later, NEW queued,
             r.from # g, HandleRequest(g, r, active, later, queued),
             \A h \in Guards : \A w \in waiting'[h] : w \in waiting[h] \/ (h = g /\ w[1] = r)
      PROVE  RequestsMade'
  <2>1. r \in Request
    BY DEF TypeOK
  <2>2. \A a \in approves' : a \in approves \/ a = Signed(g, r.msg, r.guards, r.from, r.timestamp)
    BY <1>2, <2>1, HandleRequestAdds
  <2>3. \A h \in Guards, m \in Msgs :
          pending'[h][m] = pending[h][m] \/ (h = g /\ pending'[h][m] = r)
    BY <1>2, <2>1, HandleRequestAdds
  <2>4. \A a \in approves' : RequestOf(a) \in requests' /\ a.from # a.init
    <3> SUFFICES ASSUME NEW a \in approves'
                 PROVE  RequestOf(a) \in requests' /\ a.from # a.init
      OBVIOUS
    <3>1. CASE a \in approves
      BY <1>1, <3>1 DEF RequestsMade
    <3>2. CASE a = Signed(g, r.msg, r.guards, r.from, r.timestamp)
      BY <1>1, <1>2, <2>1, <3>2, SignedRequest
    <3>3. QED
      BY <2>2, <3>1, <3>2
  <2>5. \A h \in Guards, m \in Msgs : pending'[h][m] # None =>
          pending'[h][m] \in requests' /\ pending'[h][m].from # h
    BY <1>1, <1>2, <2>3 DEF RequestsMade
  <2>6. \A h \in Guards : \A w \in waiting'[h] : w[1] \in requests' /\ w[1].from # h
    BY <1>1, <1>2 DEF RequestsMade
  <2>7. \A a \in approves' : RequestOf(a)' = RequestOf(a)
    BY DEF RequestOf
  <2>8. QED
    BY <2>4, <2>5, <2>6 DEF RequestsMade, RequestOf
<1>3. ASSUME UNCHANGED <<approves, pending, waiting>>
      PROVE  RequestsMade'
  BY <1>1, <1>3 DEF RequestsMade, RequestOf
<1>4. ASSUME NEW r \in Request, NEW g \in Guards, NEW active, NEW later, NEW queued,
             waiting' = [waiting EXCEPT ![g] =
                           @ \cup Registrations(g, r, active, later, queued)]
      PROVE  \A h \in Guards : \A w \in waiting'[h] : w \in waiting[h] \/ (h = g /\ w[1] = r)
  BY <1>4 DEF TypeOK, Registrations
<1>5. ASSUME NEW g \in Guards, NEW m \in Msgs, SignMsg(g, m)
      PROVE  RequestsMade'
  <2>1. CASE UNCHANGED <<approves, cacheds, pending, waiting>>
    BY <1>3, <2>1
  <2>2. ASSUME pending[g][m] # None, NEW active \in Views[g], NEW later \in Views[g],
               HandleRequest(g, pending[g][m], active, later, TRUE),
               waiting' = [waiting EXCEPT ![g] =
                             @ \cup Registrations(g, pending[g][m], active, later, TRUE)]
        PROVE  RequestsMade'
    <3>1. /\ pending[g][m] \in requests /\ pending[g][m].from # g
          /\ pending[g][m] \in Request
      BY <2>2 DEF RequestsMade, TypeOK
    <3>2. \A h \in Guards : \A w \in waiting'[h] :
            w \in waiting[h] \/ (h = g /\ w[1] = pending[g][m])
      BY <1>4, <2>2, <3>1, ZenonT(60)
    <3>3. QED
      BY <1>2, <2>2, <3>1, <3>2
  <2>3. QED
    BY <1>5, <2>1, <2>2 DEF SignMsg
<1>6. ASSUME NEW g \in Guards, NEW r \in requests, ReceiveRequest(g, r)
      PROVE  RequestsMade'
  <2>1. r \in Request
    BY DEF TypeOK
  <2>2. PICK active, later \in Views[g] :
          /\ HandleRequest(g, r, active, later, HasUnposted(g, r.msg))
          /\ waiting' = [waiting EXCEPT ![g] =
                           @ \cup Registrations(g, r, active, later, HasUnposted(g, r.msg))]
    BY <1>6 DEF ReceiveRequest
  <2>3. \A h \in Guards : \A w \in waiting'[h] : w \in waiting[h] \/ (h = g /\ w[1] = r)
    BY <1>4, <2>1, <2>2, ZenonT(120)
  <2>4. r.from # g
    BY <1>6 DEF ReceiveRequest
  <2>5. QED
    BY <1>2, <2>2, <2>3, <2>4
<1>7. ASSUME NEW g \in Guards, NEW w \in waiting[g], Registered(g, w)
      PROVE  RequestsMade'
  <2>1. w[1] \in requests /\ w[1].from # g
    BY DEF RequestsMade
  <2>2. \A h \in Guards : waiting'[h] \subseteq waiting[h]
    BY <1>7 DEF Registered, TypeOK
  <2>3. QED
    BY <1>2, <1>7, <2>1, <2>2 DEF Registered
<1>8. ASSUME NEW g \in Guards, UpdateCleanup(g)
      PROVE  RequestsMade'
  <2>1. /\ UNCHANGED <<approves, waiting>>
        /\ pending' = [pending EXCEPT ![g] = CleanPending(g)]
    BY <1>8 DEF UpdateCleanup, net
  <2>2. \A h \in Guards, m \in Msgs :
          pending'[h][m] = pending[h][m] \/ pending'[h][m] = None
    BY <2>1 DEF CleanPending, TypeOK
  <2>3. QED
    BY <1>1, <2>1, <2>2 DEF RequestsMade, RequestOf
<1>9. ASSUME NEW g \in Guards, Crash(g)
      PROVE  RequestsMade'
  <2>1. /\ UNCHANGED approves
        /\ \A h \in Guards : waiting'[h] \subseteq waiting[h]
        /\ \A h \in Guards, m \in Msgs :
             pending'[h][m] = pending[h][m] \/ pending'[h][m] = None
    BY <1>9 DEF Crash, net, TypeOK
  <2>2. QED
    BY <1>1, <2>1 DEF RequestsMade, RequestOf
<1>10. ASSUME NEW g \in Guards,
              \/ UpdateThreshold(g) \/ UpdateRequest(g)
              \/ \E a \in approves : HandleApprove(g, a)
              \/ \E s \in starts : HandleStart(g, s)
              \/ \E s \in joining[g] : Join(g, s)
              \/ \E c \in cacheds : HandleCached(g, c)
              \/ \E m \in Msgs : CacheExpires(g, m)
       PROVE  UNCHANGED <<approves, pending, waiting>>
  BY <1>10 DEF UpdateThreshold, UpdateRequest, HandleApprove, HandleStart, Join,
               HandleCached, CacheExpires, net
<1>11. ASSUME NEW p \in running,
             PostFails(p) \/ ResultLost(p) \/ \E ok \in BOOLEAN : HandleSignData(p, ok)
       PROVE  UNCHANGED <<approves, pending, waiting>>
  BY <1>11 DEF PostFails, ResultLost, HandleSignData, net
<1>12. Tick \/ UNCHANGED vars => UNCHANGED <<approves, pending, waiting>>
  BY DEF Tick, vars, net
<1>13. QED
  BY <1>3, <1>5, <1>6, <1>7, <1>8, <1>9, <1>10, <1>11, <1>12 DEF Next

LEMMA SigsSaidStep ==
  ASSUME TypeOK, SigsSaid, [Next]_vars
  PROVE  SigsSaid'
<1> SUFFICES ASSUME NEW g \in Guards, NEW m \in Msgs, NEW h \in Guards,
                    signs'[g][m] # None, signs'[g][m].sigs[h] # None
             PROVE  \/ signs'[g][m].sigs[h] \in approves'
                    \/ \E r \in requests' : signs'[g][m].sigs[h] = OwnSignature(r)
  BY DEF SigsSaid, HasSign, OwnSignature, Signed
<1>1. requests \subseteq requests' /\ approves \subseteq approves'
  BY Grow
<1>2. ASSUME HasSign(g, m), signs'[g][m].sigs[h] = signs[g][m].sigs[h]
      PROVE  \/ signs'[g][m].sigs[h] \in approves'
             \/ \E r \in requests' : signs'[g][m].sigs[h] = OwnSignature(r)
  BY <1>1, <1>2 DEF SigsSaid
<1>3. CASE Kept(g, m)
  BY <1>2, <1>3 DEF Kept
<1>4. CASE Added(g, m)
  BY <1>4 DEF Added, NoSigs
<1>5. CASE MadeRequest(g, m)
  <2>1. PICK active \in Views[g] :
          /\ signs'[g][m].sigs = OwnSig(g, m, active)
          /\ [from |-> g, msg |-> m, guards |-> active, timestamp |-> now] \in requests'
    BY <1>5 DEF MadeRequest
  <2>2. signs'[g][m].sigs[h] = Signed(g, m, active, g, now)
    BY <2>1 DEF OwnSig
  <2>3. QED
    BY <2>1, <2>2 DEF OwnSignature
<1>6. CASE Collected(g, m)
  <2>1. PICK a \in approves : signs'[g][m].sigs = [signs[g][m].sigs EXCEPT ![a.from] = a]
    BY <1>6 DEF Collected
  <2>2. signs[g][m].sigs \in Sigs
    BY <1>6 DEF Collected, HasSign, TypeOK, Entry
  <2>3. CASE h = a.from
    BY <1>1, <2>1, <2>2, <2>3 DEF Sigs
  <2>4. CASE h # a.from
    BY <1>2, <1>6, <2>1, <2>2, <2>4 DEF Sigs, Collected
  <2>5. QED
    BY <2>3, <2>4
<1>7. QED
  BY <1>3, <1>4, <1>5, <1>6, EntryChange

LEMMA OwnRequestStep ==
  ASSUME TypeOK, OwnRequest, RequestsMade, [Next]_vars
  PROVE  OwnRequest'
<1> DEFINE q(g, m) == signs[g][m].request
           r(g, m) == [from |-> g, msg |-> m, guards |-> q(g, m).guards,
                       timestamp |-> q(g, m).timestamp]
<1> SUFFICES ASSUME NEW g \in Guards, NEW m \in Msgs,
                    signs'[g][m] # None, signs'[g][m].request # None
             PROVE  /\ r(g, m)' \in requests'
                    /\ signs'[g][m].sigs[g] = OwnSignature(r(g, m)')
                    /\ \E a \in q(g, m)'.guards : a.guard = g
  BY DEF OwnRequest, HasSign, OwnSignature, Signed
<1>1. requests \subseteq requests'
  BY Grow
<1>2. ASSUME HasSign(g, m), signs'[g][m].sigs[g] = signs[g][m].sigs[g],
             signs'[g][m].request = signs[g][m].request
      PROVE  /\ r(g, m)' \in requests'
             /\ signs'[g][m].sigs[g] = OwnSignature(r(g, m)')
             /\ \E a \in q(g, m)'.guards : a.guard = g
  BY <1>1, <1>2 DEF OwnRequest
<1>3. CASE Kept(g, m)
  BY <1>2, <1>3 DEF Kept
<1>4. CASE Added(g, m)
  BY <1>4 DEF Added
<1>5. CASE MadeRequest(g, m)
  <2>1. PICK active \in Views[g] :
          /\ signs'[g][m].request = [guards |-> active, timestamp |-> now]
          /\ signs'[g][m].sigs = OwnSig(g, m, active)
          /\ [from |-> g, msg |-> m, guards |-> active, timestamp |-> now] \in requests'
    BY <1>5 DEF MadeRequest
  <2>2. signs'[g][m].sigs[g] = Signed(g, m, active, g, now)
    BY <2>1 DEF OwnSig
  <2>3. \E a \in active : a.guard = g
    BY ViewsAssumption
  <2>4. QED
    BY <2>1, <2>2, <2>3 DEF OwnSignature
<1>6. CASE Collected(g, m)
  <2>1. PICK a \in approves :
          /\ HandleApprove(g, a)
          /\ signs'[g][m].sigs = [signs[g][m].sigs EXCEPT ![a.from] = a]
    BY <1>6 DEF Collected
  <2>2. a.from # g
    BY <2>1 DEF HandleApprove, RequestsMade
  <2>3. signs[g][m].sigs \in Sigs
    BY <1>6 DEF Collected, HasSign, TypeOK, Entry
  <2>4. signs'[g][m].sigs[g] = signs[g][m].sigs[g]
    BY <2>1, <2>2, <2>3 DEF Sigs
  <2>5. QED
    BY <1>2, <1>6, <2>4 DEF Collected
<1>7. QED
  BY <1>3, <1>4, <1>5, <1>6, EntryChange

LEMMA ThresholdKnownStep ==
  ASSUME TypeOK, ThresholdKnown, ~ThresholdMayFail, [Next]_vars
  PROVE  ThresholdKnown'
<1> SUFFICES ASSUME NEW g \in Guards, NEW m \in Msgs,
                    signs'[g][m] # None, signs'[g][m].request # None
             PROVE  threshold'[g] = Threshold
  BY DEF ThresholdKnown, HasSign
<1>1. \/ threshold'[g] = threshold[g]
      \/ threshold'[g] = Threshold
      \/ Crash(g)
  <2>1. ASSUME NEW h \in Guards, UpdateThreshold(h) \/ UpdateRequest(h)
        PROVE  threshold'[g] = threshold[g] \/ threshold'[g] = Threshold
    <3>1. PICK value \in FetchedThreshold(h) : threshold' = [threshold EXCEPT ![h] = value]
      BY <2>1 DEF UpdateThreshold, UpdateRequest
    <3>2. value = Threshold
      BY DEF FetchedThreshold
    <3>3. QED
      BY <3>1, <3>2 DEF TypeOK
  <2>2. ASSUME NEW h \in Guards, Crash(h), h # g
        PROVE  threshold'[g] = threshold[g]
    BY <2>2 DEF Crash, TypeOK
  <2>3. ASSUME NEW h \in Guards,
               \/ UpdateCleanup(h)
               \/ \E k \in Msgs : SignMsg(h, k) \/ CacheExpires(h, k)
               \/ \E r \in requests : ReceiveRequest(h, r)
               \/ \E w \in waiting[h] : Registered(h, w)
               \/ \E a \in approves : HandleApprove(h, a)
               \/ \E s \in starts : HandleStart(h, s)
               \/ \E s \in joining[h] : Join(h, s)
               \/ \E c \in cacheds : HandleCached(h, c)
        PROVE  UNCHANGED threshold
    BY <2>3 DEF UpdateCleanup, SignMsg, CacheExpires, ReceiveRequest, Registered,
                HandleApprove, HandleStart, Join, HandleCached
  <2>4. ASSUME NEW p \in running,
             PostFails(p) \/ ResultLost(p) \/ \E ok \in BOOLEAN : HandleSignData(p, ok)
        PROVE  UNCHANGED threshold
    BY <2>4 DEF PostFails, ResultLost, HandleSignData
  <2>5. Tick \/ UNCHANGED vars => UNCHANGED threshold
    BY DEF Tick, vars
  <2>6. QED
    BY <2>1, <2>2, <2>3, <2>4, <2>5 DEF Next
<1>2. ~Crash(g)
  BY DEF Crash, TypeOK
<1>3. CASE Kept(g, m) \/ Collected(g, m)
  BY <1>1, <1>2, <1>3 DEF Kept, Collected, ThresholdKnown
<1>4. CASE Added(g, m)
  BY <1>4 DEF Added
<1>5. CASE MadeRequest(g, m)
  BY <1>5 DEF MadeRequest, FetchedThreshold
<1>6. QED
  BY <1>3, <1>4, <1>5, EntryChange

LEMMA RequestsPastStep ==
  ASSUME TypeOK, RequestsPast, [Next]_vars
  PROVE  RequestsPast'
<1>1. CASE UNCHANGED <<now, requests, lastRound, restartAt>>
  BY <1>1 DEF RequestsPast, Up, Round
<1>2. CASE Tick
  <2>1. /\ now' = now + 1
        /\ UNCHANGED requests
    BY <1>2 DEF Tick, net
  <2>2. \A r \in requests : r.timestamp \in Nat /\ now \in Nat
    BY DEF TypeOK, Request
  <2>3. \A r \in requests : r.timestamp <= now' /\ r.timestamp # now'
    BY <2>1, <2>2 DEF RequestsPast
  <2>4. QED
    BY <2>1, <2>3 DEF RequestsPast
<1>3. ASSUME NEW g \in Guards, Crash(g)
      PROVE  RequestsPast'
  <2>1. /\ UNCHANGED <<now, requests>>
        /\ restartAt' = [restartAt EXCEPT ![g] = now + 1]
        /\ lastRound' = [lastRound EXCEPT ![g] = 0]
    BY <1>3 DEF Crash, net
  <2>2. \A r \in requests : r.from \in Guards
    BY DEF TypeOK, Request
  <2>3. now \in Nat
    BY DEF TypeOK
  <2>4. \A h \in Guards : Up(h)' => Up(h) /\ lastRound'[h] = lastRound[h]
    BY <2>1, <2>3 DEF Up, TypeOK
  <2>5. Round(now)' = Round(now)
    BY <2>1 DEF Round
  <2>6. QED
    BY <2>1, <2>2, <2>4, <2>5 DEF RequestsPast
<1>4. ASSUME NEW g \in Guards, UpdateRequest(g)
      PROVE  RequestsPast'
  <2>1. /\ UNCHANGED <<now, restartAt>>
        /\ lastRound' = [lastRound EXCEPT ![g] = Round(now)]
        /\ \E new, active : requests' = requests \cup RequestsFor(g, new, active)
    BY <1>4 DEF UpdateRequest
  <2>2. \A r \in requests' : r \in requests \/ (r.from = g /\ r.timestamp = now)
    BY <2>1 DEF RequestsFor
  <2>3. \A h \in Guards : /\ Up(h)' = Up(h)
                          /\ lastRound'[h] = IF h = g THEN Round(now) ELSE lastRound[h]
    BY <2>1 DEF Up, TypeOK
  <2>4. Round(now)' = Round(now)
    BY <2>1 DEF Round
  <2>5. \A r \in requests : r.from \in Guards
    BY DEF TypeOK, Request
  <2>6. now \in Nat
    BY DEF TypeOK
  <2>7. QED
    BY <2>1, <2>2, <2>3, <2>4, <2>5, <2>6 DEF RequestsPast
<1>5. ASSUME NEW g \in Guards,
             \/ UpdateCleanup(g) \/ UpdateThreshold(g)
             \/ \E k \in Msgs : SignMsg(g, k) \/ CacheExpires(g, k)
             \/ \E r \in requests : ReceiveRequest(g, r)
             \/ \E w \in waiting[g] : Registered(g, w)
             \/ \E a \in approves : HandleApprove(g, a)
             \/ \E s \in starts : HandleStart(g, s)
             \/ \E s \in joining[g] : Join(g, s)
             \/ \E c \in cacheds : HandleCached(g, c)
      PROVE  UNCHANGED <<now, requests, lastRound, restartAt>>
  BY <1>5 DEF UpdateCleanup, UpdateThreshold, SignMsg, CacheExpires, ReceiveRequest,
              Registered, HandleApprove, HandleStart, Join, HandleCached, net
<1>6. ASSUME NEW p \in running,
             PostFails(p) \/ ResultLost(p) \/ \E ok \in BOOLEAN : HandleSignData(p, ok)
      PROVE  UNCHANGED <<now, requests, lastRound, restartAt>>
  BY <1>6 DEF PostFails, ResultLost, HandleSignData, net
<1>7. UNCHANGED vars => UNCHANGED <<now, requests, lastRound, restartAt>>
  BY DEF vars, net
<1>8. QED
  BY <1>1, <1>2, <1>3, <1>4, <1>5, <1>6, <1>7 DEF Next

\* Only accepting a start message adds to those a guard is to act on.
LEMMA JoiningChange ==
  ASSUME TypeOK, [Next]_vars, NEW g \in Guards, NEW s \in joining'[g]
  PROVE  s \in joining[g] \/ (s \in starts /\ HandleStart(g, s))
<1>1. ASSUME NEW h \in Guards, NEW x \in starts, HandleStart(h, x)
      PROVE  s \in joining[g] \/ (s \in starts /\ HandleStart(g, s))
  <2>1. joining' = [joining EXCEPT ![h] = @ \cup {x}]
    BY <1>1 DEF HandleStart
  <2>2. s \in joining[g] \/ (h = g /\ x = s)
    BY <2>1 DEF TypeOK
  <2>3. QED
    BY <1>1, <2>2
<1>2. ASSUME NEW h \in Guards, Crash(h) \/ \E x \in joining[h] : Join(h, x)
      PROVE  s \in joining[g]
  <2>1. \E left \in SUBSET joining[h] : joining' = [joining EXCEPT ![h] = left]
    BY <1>2 DEF Crash, Join, TypeOK
  <2>2. QED
    BY <2>1 DEF TypeOK
<1>3. ASSUME NEW h \in Guards,
             \/ UpdateCleanup(h) \/ UpdateThreshold(h) \/ UpdateRequest(h)
             \/ \E k \in Msgs : SignMsg(h, k) \/ CacheExpires(h, k)
             \/ \E r \in requests : ReceiveRequest(h, r)
             \/ \E w \in waiting[h] : Registered(h, w)
             \/ \E a \in approves : HandleApprove(h, a)
             \/ \E c \in cacheds : HandleCached(h, c)
      PROVE  UNCHANGED joining
  BY <1>3 DEF UpdateCleanup, UpdateThreshold, UpdateRequest, SignMsg, CacheExpires,
              ReceiveRequest, Registered, HandleApprove, HandleCached
<1>4. ASSUME NEW p \in running,
             PostFails(p) \/ ResultLost(p) \/ \E ok \in BOOLEAN : HandleSignData(p, ok)
      PROVE  UNCHANGED joining
  BY <1>4 DEF PostFails, ResultLost, HandleSignData
<1>5. Tick \/ UNCHANGED vars => UNCHANGED joining
  BY DEF Tick, vars
<1>6. QED
  BY <1>1, <1>2, <1>3, <1>4, <1>5 DEF Next

LEMMA JoinsReceivedStep ==
  ASSUME TypeOK, JoinsReceived, [Next]_vars
  PROVE  JoinsReceived'
<1>1. starts \subseteq starts'
  BY Grow
<1>2. ASSUME NEW g \in Guards, NEW s \in joining'[g]
      PROVE  s \in starts /\ g \in s.to
  <2>1. CASE s \in joining[g]
    BY <2>1 DEF JoinsReceived
  <2>2. CASE s \in starts /\ HandleStart(g, s)
    BY <2>2 DEF HandleStart
  <2>3. QED
    BY <2>1, <2>2, JoiningChange
<1>3. QED
  BY <1>1, <1>2 DEF JoinsReceived

-----------------------------------------------------------------------------
\* Ceremonies

\* A ceremony is started by the initiator, who collected the approvals, or
\* joined by a guard that accepted its start message.
Initiates(g, p) ==
  \E a \in approves :
    LET q == signs[g][a.msg].request
        sigs == [signs[g][a.msg].sigs EXCEPT ![a.from] = a]
    IN /\ HandleApprove(g, a)
       /\ HasUnposted(g, a.msg) /\ q # None
       /\ p.guard = g /\ p.init = g /\ p.msg = a.msg
       /\ p.guards = q.guards /\ p.timestamp = q.timestamp
       /\ p.peers = ApprovedGuards(p.msg, p.guards, g, p.timestamp, sigs)
       /\ Cardinality(p.peers) >= threshold[g]
       /\ signs'[g][p.msg].posted = TRUE
       /\ starts' = starts \cup
            {[from |-> g, to |-> Receivers(g, p.guards, p.peers), msg |-> p.msg,
              sigs |-> sigs, guards |-> p.guards, timestamp |-> p.timestamp]}
       /\ posts' = posts \cup {p}

Joins(g, p) ==
  \E s \in joining[g] :
    /\ Join(g, s)
    /\ p.guard = g /\ p.init = s.from /\ p.msg = s.msg
    /\ p.guards = s.guards /\ p.timestamp = s.timestamp
    /\ p.peers = PeersOf(s)
    /\ UNCHANGED net
    /\ posts' = posts \cup {p}

LEMMA PostsChange ==
  ASSUME TypeOK, [Next]_vars
  PROVE  \/ UNCHANGED <<starts, posts>>
         \/ \E g \in Guards, p \in Post : Initiates(g, p) \/ Joins(g, p)
<1>1. ASSUME NEW g \in Guards, NEW a \in approves, HandleApprove(g, a)
      PROVE  UNCHANGED <<starts, posts>> \/ \E p \in Post : Initiates(g, p)
  <2> DEFINE entry == [signs[g][a.msg] EXCEPT !.sigs[a.from] = a]
             sigs == [signs[g][a.msg].sigs EXCEPT ![a.from] = a]
             req == signs[g][a.msg].request
             approved == ApprovedGuards(a.msg, req.guards, g, req.timestamp, sigs)
             post == [guard |-> g, msg |-> a.msg, peers |-> approved, init |-> g,
                      guards |-> req.guards, timestamp |-> req.timestamp, at |-> now,
                      deadline |-> Deadline(entry)]
  <2>1. a \in Signature /\ a.msg \in Msgs /\ a.from \in Guards
    BY DEF TypeOK, Signature
  <2>2. signs[g][a.msg] \in Entry /\ req \in [guards : SUBSET ActiveGuard, timestamp : Nat]
    <3>1. HasUnposted(g, a.msg) /\ signs[g][a.msg].request # None
      BY <1>1 DEF HandleApprove
    <3>2. signs \in [Guards -> [Msgs -> Entry \cup {None}]]
      BY DEF TypeOK
    <3>3. signs[g][a.msg] \in Entry
      BY <2>1, <3>1, <3>2 DEF HasUnposted, HasSign
    <3>. QED
      BY <3>1, <3>3 DEF Entry
  <2>3. entry \in Entry /\ entry.request = req /\ entry.sigs = sigs
    BY <2>1, <2>2 DEF Entry, Sigs
  <2>4. approved \in SUBSET req.guards /\ req.guards \in SUBSET ActiveGuard
    BY <2>2, ApprovedType
  <2>5. post \in Post
    <3>1. Deadline(entry) \in Int
      BY <2>3, TimeAssumption DEF Deadline, Entry
    <3>2. now \in Nat /\ req.timestamp \in Nat
      BY <2>2 DEF TypeOK
    <3> HIDE DEF entry, approved, req
    <3>3. QED
      BY <2>1, <2>4, <3>1, <3>2 DEF Post
  <2>6. CASE /\ Cardinality(approved) >= threshold[g]
             /\ starts' = starts \cup
                {[from |-> g, to |-> Receivers(g, req.guards, approved), msg |-> a.msg,
                  sigs |-> sigs, guards |-> req.guards, timestamp |-> req.timestamp]}
             /\ StartSign(g, a.msg, entry, approved, g, req.guards, req.timestamp)
    <3>1. posts' = posts \cup {post} /\ signs' = [signs EXCEPT ![g][a.msg] = [entry EXCEPT !.posted = TRUE]]
      BY <2>6 DEF StartSign
    <3>2. signs'[g][a.msg].posted = TRUE
      <4>1. [entry EXCEPT !.posted = TRUE].posted = TRUE
        BY <2>3 DEF Entry
      <4> HIDE DEF entry
      <4>2. QED
        BY <2>1, <3>1, <4>1 DEF TypeOK
    <3>3. HasUnposted(g, a.msg) /\ req # None
      BY <1>1 DEF HandleApprove
    <3>4. Initiates(g, post)
      BY <1>1, <2>6, <3>1, <3>2, <3>3 DEF Initiates
    <3>5. QED
      BY <2>5, <3>4
  <2>7. QED
    BY <1>1, <2>3, <2>6 DEF HandleApprove
<1>2. ASSUME NEW g \in Guards, NEW s \in joining[g], Join(g, s)
      PROVE  UNCHANGED <<starts, posts>> \/ \E p \in Post : Joins(g, p)
  <2> DEFINE entry == signs[g][s.msg]
             post == [guard |-> g, msg |-> s.msg, peers |-> PeersOf(s), init |-> s.from,
                      guards |-> s.guards, timestamp |-> s.timestamp, at |-> now,
                      deadline |-> Deadline(entry)]
  <2>1. /\ s \in Start
        /\ s.msg \in Msgs /\ s.from \in Guards /\ s.timestamp \in Nat
        /\ s.guards \in SUBSET ActiveGuard
    BY DEF TypeOK, Start
  <2>2. CASE HasUnposted(g, s.msg)
    <3>1. entry \in Entry
      BY <2>1, <2>2 DEF HasUnposted, HasSign, TypeOK
    <3>2. PeersOf(s) \in SUBSET ActiveGuard
      BY <2>1, ApprovedType DEF PeersOf
    <3>3. Deadline(entry) \in Int /\ now \in Nat
      BY <3>1, TimeAssumption DEF Deadline, Entry, TypeOK
    <3>4. post \in Post
      <4> HIDE DEF entry
      <4> QED
        BY <2>1, <3>2, <3>3 DEF Post
    <3>5. posts' = posts \cup {post} /\ UNCHANGED net
      BY <1>2, <2>2 DEF Join, StartSign
    <3>6. Joins(g, post)
      BY <1>2, <3>5 DEF Joins
    <3>7. QED
      BY <3>4, <3>6
  <2>3. CASE ~HasUnposted(g, s.msg)
    BY <1>2, <2>3 DEF Join, net
  <2>4. QED
    BY <2>2, <2>3
<1>3. ASSUME NEW g \in Guards,
             \/ UpdateCleanup(g) \/ UpdateThreshold(g) \/ UpdateRequest(g) \/ Crash(g)
             \/ \E k \in Msgs : SignMsg(g, k) \/ CacheExpires(g, k)
             \/ \E r \in requests : ReceiveRequest(g, r)
             \/ \E w \in waiting[g] : Registered(g, w)
             \/ \E s \in starts : HandleStart(g, s)
             \/ \E c \in cacheds : HandleCached(g, c)
      PROVE  UNCHANGED <<starts, posts>>
  BY <1>3 DEF UpdateCleanup, UpdateThreshold, UpdateRequest, Crash, SignMsg, CacheExpires,
              ReceiveRequest, Registered, HandleStart, HandleCached, net
<1>4. ASSUME NEW p \in running,
             PostFails(p) \/ ResultLost(p) \/ \E ok \in BOOLEAN : HandleSignData(p, ok)
      PROVE  UNCHANGED <<starts, posts>>
  BY <1>4 DEF PostFails, ResultLost, HandleSignData, net
<1>5. Tick \/ UNCHANGED vars => UNCHANGED <<starts, posts>>
  BY DEF Tick, vars, net
<1>6. QED
  BY <1>1, <1>2, <1>3, <1>4, <1>5 DEF Next

\* The signatures that initiator g counts are approvals of its request.
LEMMA InitiatorAgreed ==
  ASSUME IInv, [Next]_vars, NEW g \in Guards, NEW p \in Post, Initiates(g, p)
  PROVE  /\ RequestOf(p) \in requests
         /\ \A b \in p.peers : b \in p.guards /\ Agreed(b.guard, p)
         /\ \E b \in p.peers : b.guard = g
<1>1. PICK a \in approves :
        /\ HandleApprove(g, a)
        /\ HasUnposted(g, a.msg) /\ signs[g][a.msg].request # None
        /\ p.guard = g /\ p.init = g /\ p.msg = a.msg
        /\ p.guards = signs[g][a.msg].request.guards
        /\ p.timestamp = signs[g][a.msg].request.timestamp
        /\ p.peers = ApprovedGuards(p.msg, p.guards, g, p.timestamp,
                                    [signs[g][a.msg].sigs EXCEPT ![a.from] = a])
  BY DEF Initiates
<1> DEFINE sigs == [signs[g][a.msg].sigs EXCEPT ![a.from] = a]
           r == RequestOf(p)
<1>2. /\ a \in Signature /\ a.msg \in Msgs /\ a.from \in Guards
      /\ signs[g][a.msg] \in Entry
      /\ signs[g][a.msg].sigs \in Sigs
  <2>1. a \in Signature /\ a.msg \in Msgs /\ a.from \in Guards
    BY DEF IInv, TypeOK, Signature
  <2>2. signs[g][a.msg] \in Entry
    BY <1>1, <2>1 DEF IInv, TypeOK, HasUnposted, HasSign
  <2>3. QED
    BY <2>1, <2>2 DEF Entry
<1>3. /\ r \in requests
      /\ signs[g][p.msg].sigs[g] = OwnSignature(r)
      /\ \E b \in p.guards : b.guard = g
  BY <1>1, <1>2 DEF IInv, OwnRequest, RequestOf, HasUnposted
<1>4. \A b \in p.guards : b.guard \in Guards
  BY DEF Post, ActiveGuard
<1>5. ASSUME NEW b \in p.peers
      PROVE  b \in p.guards /\ Agreed(b.guard, p)
  <2>1. b \in p.guards /\ sigs[b.guard] = Signed(b.guard, p.msg, p.guards, g, p.timestamp)
    BY <1>1 DEF ApprovedGuards
  <2>2. b.guard \in Guards
    BY <1>4, <2>1
  <2>3. CASE b.guard = g
    BY <1>1, <1>3, <2>1, <2>3 DEF Agreed, RequestOf
  <2>4. CASE b.guard # g
    <3>1. CASE b.guard = a.from
      BY <1>1, <1>2, <2>1, <2>4, <3>1 DEF Agreed, Sigs
    <3>2. CASE b.guard # a.from
      <4>1. sigs[b.guard] = signs[g][p.msg].sigs[b.guard]
        BY <1>1, <1>2, <2>2, <3>2 DEF Sigs
      <4>2. Signed(b.guard, p.msg, p.guards, g, p.timestamp) \in Signature
        BY <2>2 DEF Post, Signed, Signature
      <4>3. /\ HasSign(g, p.msg) /\ p.msg \in Msgs
            /\ signs[g][p.msg].sigs[b.guard] # None
        BY <1>1, <1>2, <2>1, <4>1, <4>2, NoneAssumption DEF HasUnposted
      <4>4. \/ Signed(b.guard, p.msg, p.guards, g, p.timestamp) \in approves
            \/ \E q \in requests :
                 Signed(b.guard, p.msg, p.guards, g, p.timestamp) = OwnSignature(q)
        BY <2>1, <2>2, <4>1, <4>3 DEF IInv, SigsSaid
      <4>5. ASSUME NEW q \in requests
            PROVE  Signed(b.guard, p.msg, p.guards, g, p.timestamp) # OwnSignature(q)
        BY <2>4 DEF Signed, OwnSignature
      <4>6. QED
        BY <1>1, <2>1, <2>4, <4>4, <4>5 DEF Agreed
    <3>3. QED
      BY <3>1, <3>2
  <2>5. QED
    BY <2>1, <2>3, <2>4
<1>6. \E b \in p.peers : b.guard = g
  <2>1. a.from # g
    BY <1>1 DEF HandleApprove, IInv, RequestsMade
  <2>2. sigs[g] = OwnSignature(r)
    BY <1>1, <1>2, <1>3, <2>1 DEF Sigs
  <2>3. sigs[g] = Signed(g, p.msg, p.guards, g, p.timestamp)
    BY <1>1, <2>2 DEF OwnSignature, RequestOf
  <2>4. QED
    BY <1>1, <1>3, <2>3 DEF ApprovedGuards
<1>7. QED
  BY <1>3, <1>5, <1>6

\* A peer that joins follows a ceremony its initiator started.
LEMMA JoinFollows ==
  ASSUME IInv, NEW g \in Guards, NEW p \in Post, Joins(g, p)
  PROVE  \E q \in posts :
           /\ q.guard = p.init /\ q.init = p.init /\ RequestOf(q) = RequestOf(p)
           /\ q.peers = p.peers
           /\ \E b \in p.peers : b.guard = g
<1>1. PICK s \in starts :
        /\ g \in s.to
        /\ p.guard = g /\ p.init = s.from /\ p.msg = s.msg
        /\ p.guards = s.guards /\ p.timestamp = s.timestamp
        /\ p.peers = PeersOf(s)
  BY DEF Joins, IInv, JoinsReceived
<1>2. PICK q \in posts :
        /\ q.guard = s.from /\ q.init = s.from
        /\ RequestOf(q) = [from |-> s.from, msg |-> s.msg, guards |-> s.guards,
                           timestamp |-> s.timestamp]
        /\ q.peers = PeersOf(s)
        /\ \A h \in s.to : \E b \in q.peers : b.guard = h
  BY DEF IInv, StartsFollow
<1>3. QED
  BY <1>1, <1>2 DEF RequestOf

LEMMA SameRequest ==
  ASSUME NEW p, NEW q
  PROVE  /\ RequestOf(p) = RequestOf(q) =>
              p.init = q.init /\ p.msg = q.msg /\ p.guards = q.guards /\ p.timestamp = q.timestamp
         /\ RequestOf(p)' = RequestOf(p')
  BY DEF RequestOf

LEMMA PostsMadeStep ==
  ASSUME IInv, [Next]_vars
  PROVE  PostsMade'
<1>1. requests \subseteq requests' /\ TypeOK
  BY Grow DEF IInv
<1>2. CASE UNCHANGED posts
  BY <1>1, <1>2 DEF IInv, PostsMade, RequestOf
<1>3. ASSUME NEW g \in Guards, NEW p \in Post, Initiates(g, p) \/ Joins(g, p)
      PROVE  RequestOf(p) \in requests /\ posts' = posts \cup {p}
  <2>1. posts' = posts \cup {p}
    BY <1>3 DEF Initiates, Joins
  <2>2. CASE Initiates(g, p)
    BY <2>1, <2>2, InitiatorAgreed
  <2>3. CASE Joins(g, p)
    BY <2>1, <2>3, JoinFollows DEF IInv, PostsMade
  <2>4. QED
    BY <1>3, <2>2, <2>3
<1>4. QED
  BY <1>1, <1>2, <1>3, PostsChange DEF IInv, PostsMade, RequestOf

LEMMA StartsFollowStep ==
  ASSUME IInv, [Next]_vars
  PROVE  StartsFollow'
<1> DEFINE Follows(s, p) ==
      /\ p.guard = s.from /\ p.init = s.from
      /\ RequestOf(p) = [from |-> s.from, msg |-> s.msg, guards |-> s.guards,
                         timestamp |-> s.timestamp]
      /\ p.peers = PeersOf(s)
      /\ \A g \in s.to : \E a \in p.peers : a.guard = g
<1>1. posts \subseteq posts' /\ TypeOK
  BY Grow DEF IInv
<1>2. \A s \in starts : \E p \in posts' : Follows(s, p)
  BY <1>1 DEF IInv, StartsFollow
<1>3. SUFFICES \A s \in starts' : \E p \in posts' : Follows(s, p)
  BY DEF StartsFollow, RequestOf, PeersOf, ApprovedGuards, Signed
<1>4. CASE UNCHANGED starts
  BY <1>2, <1>4
<1>5. ASSUME NEW g \in Guards, NEW p \in Post, Initiates(g, p)
      PROVE  \A s \in starts' : \E q \in posts' : Follows(s, q)
  <2>1. PICK sigs :
          /\ p.guard = g /\ p.init = g
          /\ p.peers = ApprovedGuards(p.msg, p.guards, g, p.timestamp, sigs)
          /\ starts' = starts \cup
               {[from |-> g, to |-> Receivers(g, p.guards, p.peers), msg |-> p.msg,
                 sigs |-> sigs, guards |-> p.guards, timestamp |-> p.timestamp]}
          /\ posts' = posts \cup {p}
    BY <1>5 DEF Initiates
  <2>2. Follows([from |-> g, to |-> Receivers(g, p.guards, p.peers), msg |-> p.msg,
                 sigs |-> sigs, guards |-> p.guards, timestamp |-> p.timestamp], p)
    BY <2>1 DEF RequestOf, PeersOf, Receivers
  <2>3. QED
    BY <1>2, <2>1, <2>2
<1>6. ASSUME NEW g \in Guards, NEW p \in Post, Joins(g, p)
      PROVE  UNCHANGED starts
  BY <1>6 DEF Joins, net
<1>7. QED
  BY <1>1, <1>4, <1>5, <1>6, PostsChange

LEMMA PeersAgreedStep ==
  ASSUME IInv, [Next]_vars
  PROVE  PeersAgreed'
<1>1. requests \subseteq requests' /\ approves \subseteq approves' /\ TypeOK
  BY Grow DEF IInv
<1>2. \A p, h : Agreed(h, p) => Agreed(h, p)'
  BY <1>1 DEF Agreed, Signed
<1>3. CASE UNCHANGED posts
  BY <1>2, <1>3 DEF IInv, PeersAgreed
<1>4. ASSUME NEW g \in Guards, NEW p \in Post, Initiates(g, p) \/ Joins(g, p)
      PROVE  /\ \A b \in p.peers : b \in p.guards /\ Agreed(b.guard, p)
             /\ posts' = posts \cup {p}
  <2>1. posts' = posts \cup {p}
    BY <1>4 DEF Initiates, Joins
  <2>2. CASE Initiates(g, p)
    BY <2>1, <2>2, InitiatorAgreed
  <2>3. CASE Joins(g, p)
    <3>1. PICK q \in posts : RequestOf(q) = RequestOf(p) /\ q.peers = p.peers
      BY <2>3, JoinFollows
    <3>2. QED
      BY <2>1, <3>1, SameRequest DEF IInv, PeersAgreed, Agreed
  <2>4. QED
    BY <1>4, <2>2, <2>3
<1>5. QED
  BY <1>1, <1>2, <1>3, <1>4, PostsChange DEF IInv, PeersAgreed

\* A request just made is new: no ceremony of it can have started.
LEMMA NewRequest ==
  ASSUME IInv, NEW g \in Guards, UpdateRequest(g), NEW p \in posts, p.init = g
  PROVE  p.timestamp # now
<1>1. RequestOf(p) \in requests
  BY DEF IInv, PostsMade
<1>2. RequestOf(p).from = g /\ RequestOf(p).timestamp = p.timestamp
  BY DEF RequestOf
<1>3. Up(g) /\ Round(now) # lastRound[g]
  BY DEF UpdateRequest, NewRound
<1>4. QED
  BY <1>1, <1>2, <1>3 DEF IInv, RequestsPast

LEMMA StartedOnceStep ==
  ASSUME IInv, [Next]_vars
  PROVE  StartedOnce'
<1> SUFFICES ASSUME NEW g \in Guards, NEW m \in Msgs,
                    signs'[g][m] # None, ~signs'[g][m].posted,
                    signs'[g][m].request # None,
                    NEW p \in posts', p.init = g, p.msg = m
             PROVE  p.timestamp # signs'[g][m].request.timestamp
  BY DEF StartedOnce, HasUnposted, HasSign
<1>1. TypeOK
  BY DEF IInv
<1>2. ASSUME HasSign(g, m), signs'[g][m].request = signs[g][m].request,
             signs[g][m].posted => signs'[g][m].posted
      PROVE  p.timestamp # signs'[g][m].request.timestamp
  <2>1. HasUnposted(g, m)
    BY <1>2 DEF HasUnposted
  <2>2. CASE p \in posts
    BY <1>2, <2>1, <2>2 DEF IInv, StartedOnce
  <2>3. ASSUME NEW h \in Guards, NEW q \in Post, Initiates(h, q), p \notin posts
        PROVE  FALSE
    BY <2>3 DEF Initiates
  <2>4. ASSUME NEW h \in Guards, NEW q \in Post, Joins(h, q), p \notin posts
        PROVE  p.timestamp # signs'[g][m].request.timestamp
    <3>1. p = q
      BY <2>4 DEF Joins
    <3>2. PICK first \in posts : first.init = p.init /\ RequestOf(first) = RequestOf(p)
      BY <2>4, <3>1, JoinFollows
    <3>3. first.msg = m /\ first.init = g /\ first.timestamp = p.timestamp
      BY <3>2, SameRequest
    <3>4. QED
      BY <1>2, <2>1, <3>3 DEF IInv, StartedOnce
  <2>5. QED
    BY <1>1, <2>2, <2>3, <2>4, PostsChange
<1>3. CASE Kept(g, m)
  BY <1>2, <1>3 DEF Kept
<1>4. CASE Added(g, m)
  BY <1>4 DEF Added
<1>5. CASE MadeRequest(g, m)
  <2>1. signs'[g][m].request.timestamp = now /\ UpdateRequest(g)
    BY <1>5 DEF MadeRequest
  <2>2. p \in posts
    BY <2>1 DEF UpdateRequest
  <2>3. QED
    BY <2>1, <2>2, NewRequest
<1>6. CASE Collected(g, m)
  BY <1>2, <1>6 DEF Collected
<1>7. QED
  BY <1>1, <1>3, <1>4, <1>5, <1>6, EntryChange

\* The ceremony an initiator starts has not started before.
LEMMA FirstStart ==
  ASSUME IInv, NEW g \in Guards, NEW p \in Post, Initiates(g, p),
         NEW q \in posts, q.init = g, q.msg = p.msg
  PROVE  q.timestamp # p.timestamp
<1>1. PICK a \in approves :
        /\ HasUnposted(g, a.msg) /\ signs[g][a.msg].request # None
        /\ p.msg = a.msg
        /\ p.timestamp = signs[g][a.msg].request.timestamp
  BY DEF Initiates
<1>2. a.msg \in Msgs
  BY DEF IInv, TypeOK, Signature
<1>3. QED
  BY <1>1, <1>2 DEF IInv, StartedOnce

LEMMA SamePeersStep ==
  ASSUME IInv, [Next]_vars
  PROVE  SamePeers'
<1>1. CASE UNCHANGED posts
  BY <1>1 DEF IInv, SamePeers
<1>2. ASSUME NEW g \in Guards, NEW p \in Post, Initiates(g, p)
      PROVE  SamePeers'
  <2>1. posts' = posts \cup {p} /\ p.init = g
    BY <1>2 DEF Initiates
  <2>2. \A q \in posts : q.init = g /\ q.msg = p.msg => q.timestamp # p.timestamp
    BY <1>2, FirstStart
  <2>3. QED
    BY <2>1, <2>2 DEF IInv, SamePeers
<1>3. ASSUME NEW g \in Guards, NEW p \in Post, Joins(g, p)
      PROVE  SamePeers'
  <2>1. posts' = posts \cup {p}
    BY <1>3 DEF Joins
  <2>2. PICK q \in posts :
          q.init = p.init /\ RequestOf(q) = RequestOf(p) /\ q.peers = p.peers
    BY <1>3, JoinFollows
  <2>3. q.msg = p.msg /\ q.timestamp = p.timestamp
    BY <2>2, SameRequest
  <2>4. QED
    BY <2>1, <2>2, <2>3 DEF IInv, SamePeers
<1>4. QED
  BY <1>1, <1>2, <1>3, PostsChange DEF IInv

LEMMA StartedTogetherStep ==
  ASSUME IInv, [Next]_vars
  PROVE  StartedTogether'
<1>1. CASE UNCHANGED posts
  BY <1>1 DEF IInv, StartedTogether
<1>2. ASSUME NEW g \in Guards, NEW p \in Post, Initiates(g, p)
      PROVE  StartedTogether'
  <2>1. posts' = posts \cup {p} /\ p.guard = g /\ p.init = g
    BY <1>2 DEF Initiates
  <2>2. \E b \in p.peers : b.guard = g
    BY <1>2, InitiatorAgreed
  <2>3. QED
    BY <2>1, <2>2 DEF IInv, StartedTogether
<1>3. ASSUME NEW g \in Guards, NEW p \in Post, Joins(g, p)
      PROVE  StartedTogether'
  <2>1. posts' = posts \cup {p} /\ p.guard = g
    BY <1>3 DEF Joins
  <2>2. PICK q \in posts :
          /\ q.guard = p.init /\ q.init = p.init /\ RequestOf(q) = RequestOf(p)
          /\ \E b \in p.peers : b.guard = g
    BY <1>3, JoinFollows
  <2>3. q.msg = p.msg /\ q.timestamp = p.timestamp
    BY <2>2, SameRequest
  <2>4. QED
    BY <2>1, <2>2, <2>3 DEF IInv, StartedTogether
<1>4. QED
  BY <1>1, <1>2, <1>3, PostsChange DEF IInv

-----------------------------------------------------------------------------
\* Theorems

LEMMA InitIInv == Init => IInv
<1> SUFFICES ASSUME Init PROVE IInv
  OBVIOUS
<1>1. TypeOK
  BY TypeInit
<1>2. \A g \in Guards, m \in Msgs : ~HasSign(g, m) /\ ~HasUnposted(g, m)
  BY DEF Init, HasSign, HasUnposted
<1>3. SigsSaid /\ OwnRequest /\ StartedOnce
  BY <1>2 DEF SigsSaid, OwnRequest, StartedOnce
<1>4. RequestsMade
  BY DEF Init, RequestsMade
<1>5. RequestsPast /\ StartsFollow /\ PostsMade /\ PeersAgreed /\ SamePeers /\ StartedTogether
  BY DEF Init, RequestsPast, StartsFollow, PostsMade, PeersAgreed, SamePeers, StartedTogether
<1>6. JoinsReceived
  BY DEF Init, JoinsReceived
<1>7. QED
  BY <1>1, <1>3, <1>4, <1>5, <1>6 DEF IInv

LEMMA NextIInv == IInv /\ [Next]_vars => IInv'
<1> SUFFICES ASSUME IInv, [Next]_vars PROVE IInv'
  OBVIOUS
<1>1. TypeOK /\ SigsSaid /\ RequestsMade /\ OwnRequest /\ RequestsPast /\ JoinsReceived
  BY DEF IInv
<1>2. TypeOK'
  BY <1>1, TypeStep
<1>3. SigsSaid' /\ RequestsMade' /\ OwnRequest' /\ RequestsPast'
  BY <1>1, SigsSaidStep, RequestsMadeStep, OwnRequestStep, RequestsPastStep
<1>4. StartsFollow' /\ StartedOnce' /\ PostsMade' /\ JoinsReceived'
  BY <1>1, StartsFollowStep, StartedOnceStep, PostsMadeStep, JoinsReceivedStep
<1>5. PeersAgreed' /\ SamePeers' /\ StartedTogether'
  BY PeersAgreedStep, SamePeersStep, StartedTogetherStep
<1>6. QED
  BY <1>2, <1>3, <1>4, <1>5 DEF IInv

LEMMA InvariantIInv == Spec => []IInv
  BY InitIInv, NextIInv, PTL DEF Spec

\* Every peer of every ceremony agreed to exactly the request the ceremony is
\* of, whichever messages are lost, late or repeated.
THEOREM AgreedPeers == Spec => []PeersAgreed
<1>1. IInv => PeersAgreed
  BY DEF IInv
<1>2. QED
  BY <1>1, InvariantIInv, PTL

\* Guards in the ceremony of one request name the same peers to tss-api.
THEOREM PeersMatch == Spec => []SamePeers
<1>1. IInv => SamePeers
  BY DEF IInv
<1>2. QED
  BY <1>1, InvariantIInv, PTL

\* No guard is in a ceremony that it is no peer of, or that the initiator of
\* its request did not start.
THEOREM Together == Spec => []StartedTogether
<1>1. IInv => StartedTogether
  BY DEF IInv
<1>2. QED
  BY <1>1, InvariantIInv, PTL

LEMMA QuorumStartStep ==
  ASSUME IInv, ThresholdKnown, QuorumStart, [Next]_vars
  PROVE  QuorumStart'
<1>1. TypeOK
  BY DEF IInv
<1>2. CASE UNCHANGED posts
  BY <1>2 DEF QuorumStart
<1>3. ASSUME NEW g \in Guards, NEW p \in Post, Initiates(g, p)
      PROVE  QuorumStart'
  <2>1. PICK a \in approves :
          /\ HasUnposted(g, a.msg) /\ signs[g][a.msg].request # None
          /\ Cardinality(p.peers) >= threshold[g]
          /\ posts' = posts \cup {p}
    BY <1>3 DEF Initiates
  <2>2. a.msg \in Msgs
    BY <1>1 DEF TypeOK, Signature
  <2>3. threshold[g] = Threshold
    BY <2>1, <2>2 DEF ThresholdKnown, HasUnposted
  <2>4. QED
    BY <2>1, <2>3 DEF QuorumStart
<1>4. ASSUME NEW g \in Guards, NEW p \in Post, Joins(g, p)
      PROVE  QuorumStart'
  <2>1. posts' = posts \cup {p} /\ \E q \in posts : q.peers = p.peers
    BY <1>4, JoinFollows DEF Joins
  <2>2. QED
    BY <2>1 DEF QuorumStart
<1>5. QED
  BY <1>1, <1>2, <1>3, <1>4, PostsChange

\* A ceremony has enough peers, provided that the threshold can be fetched.
THEOREM Quorum ==
  ASSUME ~ThresholdMayFail
  PROVE  Spec => []QuorumStart
<1> DEFINE Inv == IInv /\ ThresholdKnown /\ QuorumStart
<1>1. Init => Inv
  <2>1. Init => ThresholdKnown /\ QuorumStart
    BY DEF Init, ThresholdKnown, QuorumStart, HasSign
  <2>2. QED
    BY <2>1, InitIInv
<1>2. Inv /\ [Next]_vars => Inv'
  <2> SUFFICES ASSUME Inv, [Next]_vars PROVE Inv'
    OBVIOUS
  <2>1. TypeOK
    BY DEF IInv
  <2>2. ThresholdKnown'
    BY <2>1, ThresholdKnownStep
  <2>3. QED
    BY <2>2, NextIInv, QuorumStartStep
<1>3. Inv => QuorumStart
  OBVIOUS
<1>4. QED
  BY <1>1, <1>2, <1>3, PTL DEF Spec

-----------------------------------------------------------------------------
\* Refinement

LEMMA SameCardinality == \A s : C!Cardinality(s) = Cardinality(s)
  BY DEF C!Cardinality, Cardinality, C!IsFiniteSet, IsFiniteSet

LEMMA ApprovalAgrees ==
  ASSUME TypeOK, UNCHANGED <<requests, posts>>, NEW g \in Guards, NEW r \in requests,
         NEW active, NEW later, NEW queued, HandleRequest(g, r, active, later, queued)
  PROVE  [C!Next]_(C!vars)
<1>1. UNCHANGED started
  BY DEF started, RequestOf
<1>2. CASE UNCHANGED approves
  BY <1>1, <1>2 DEF C!vars, agreed, RequestOf
<1>3. CASE approves' = approves \cup {Signed(g, r.msg, r.guards, r.from, r.timestamp)}
  <2>1. r \in Request
    BY DEF TypeOK
  <2> DEFINE a == Signed(g, r.msg, r.guards, r.from, r.timestamp)
  <2>2. RequestOf(a) = r /\ a.from = g
    BY <2>1, SignedRequest
  <2> HIDE DEF a
  <2>3. agreed' = agreed \cup {<<g, r>>}
    BY <1>3, <2>2 DEF agreed, a, RequestOf
  <2>4. C!Agree(g, r)
    BY <1>1, <2>3 DEF C!Agree
  <2>5. QED
    BY <2>4 DEF C!Next
<1>4. QED
  BY <1>2, <1>3 DEF HandleRequest

LEMMA StepRefines ==
  ASSUME IInv, ThresholdKnown, [Next]_vars
  PROVE  [C!Next]_(C!vars)
<1>1. TypeOK
  BY DEF IInv
<1>2. ASSUME UNCHANGED <<requests, approves, posts>>
      PROVE  UNCHANGED C!vars
  BY <1>2 DEF C!vars, agreed, started, RequestOf
<1>3. ASSUME NEW g \in Guards, UpdateRequest(g)
      PROVE  C!Propose(g)
  <2> DEFINE made == requests' \ requests
  <2>1. UNCHANGED <<approves, posts>>
    BY <1>3 DEF UpdateRequest
  <2>2. requests \subseteq requests' /\ \A r \in made : r.from = g /\ r \in Request
    <3>1. \E new, active : requests' = requests \cup RequestsFor(g, new, active)
      BY <1>3 DEF UpdateRequest
    <3>2. requests' \subseteq Request
      BY <1>1, TypeStep DEF TypeOK
    <3>3. QED
      BY <3>1, <3>2 DEF RequestsFor
  <2>3. UNCHANGED started
    BY <2>1 DEF started, RequestOf
  <2>4. {<<r.from, r>> : r \in requests'} =
          {<<r.from, r>> : r \in requests} \cup {<<g, r>> : r \in made}
    BY <2>2
  <2>5. {<<a.from, RequestOf(a)>> : a \in approves}' = {<<a.from, RequestOf(a)>> : a \in approves}
    BY <2>1 DEF RequestOf
  <2>6. agreed' = agreed \cup {<<g, r>> : r \in made}
    BY <2>4, <2>5 DEF agreed
  <2>7. QED
    BY <2>2, <2>3, <2>6 DEF C!Propose
<1>4. ASSUME NEW g \in Guards, NEW p \in Post, Initiates(g, p)
      PROVE  C!Start(RequestOf(p), p.peers)
  <2> DEFINE r == RequestOf(p)
  <2>1. /\ UNCHANGED <<requests, approves>>
        /\ posts' = posts \cup {p}
        /\ p.guard = g /\ p.init = g
    BY <1>4 DEF Initiates, HandleApprove
  <2>2. /\ r \in requests
        /\ \A b \in p.peers : b \in p.guards /\ Agreed(b.guard, p)
        /\ \E b \in p.peers : b.guard = g
    BY <1>4, InitiatorAgreed
  <2>3. r.from = g /\ r.guards = p.guards
    BY <2>1 DEF RequestOf
  <2>4. \A s \in started : s.request # r
    <3> SUFFICES ASSUME NEW q \in posts, RequestOf(q) = r PROVE FALSE
      BY DEF started
    <3>1. q.init = g /\ q.msg = p.msg /\ q.timestamp = p.timestamp
      BY <2>1, SameRequest
    <3>2. QED
      BY <1>4, <3>1, FirstStart
  <2>5. ASSUME NEW h \in C!Names(p.peers) PROVE <<h, r>> \in agreed
    <3>1. Agreed(h, p)
      BY <2>2 DEF C!Names
    <3>2. CASE h = p.init
      BY <2>1, <2>2, <2>3, <3>2 DEF agreed
    <3>3. CASE h # p.init
      <4> DEFINE a == Signed(h, p.msg, p.guards, p.init, p.timestamp)
      <4>1. a \in approves /\ a.from = h /\ RequestOf(a) = r
        BY <3>1, <3>3 DEF Agreed, Signed, RequestOf
      <4> HIDE DEF a
      <4>2. QED
        BY <4>1 DEF agreed
    <3>4. QED
      BY <3>2, <3>3
  <2>6. Cardinality(p.peers) >= Threshold
    <3>1. PICK a \in approves :
            /\ HasUnposted(g, a.msg) /\ signs[g][a.msg].request # None
            /\ Cardinality(p.peers) >= threshold[g]
      BY <1>4 DEF Initiates
    <3>2. a.msg \in Msgs
      BY <1>1 DEF TypeOK, Signature
    <3>3. QED
      BY <3>1, <3>2 DEF ThresholdKnown, HasUnposted
  <2>7. started' = started \cup {[guard |-> g, request |-> r, peers |-> p.peers]}
    BY <2>1 DEF started, RequestOf
  <2>8. UNCHANGED agreed
    BY <2>1 DEF agreed, RequestOf
  <2>9. p.peers \subseteq r.guards /\ r.from \in C!Names(p.peers)
    BY <2>2, <2>3 DEF C!Names
  <2> HIDE DEF r
  <2>10. C!Start(r, p.peers)
    <3>1. r \in requests /\ (\A s \in started : s.request # r)
      BY <2>2, <2>4
    <3>2. \A h \in C!Names(p.peers) : <<h, r>> \in agreed
      BY <2>5
    <3>3. started' = started \cup {[guard |-> r.from, request |-> r, peers |-> p.peers]}
      BY <2>3, <2>7
    <3>4. UNCHANGED <<requests, agreed>>
      BY <2>1, <2>8
    <3>5. QED
      BY <2>6, <2>9, <3>1, <3>2, <3>3, <3>4, SameCardinality DEF C!Start
  <2>11. QED
    BY <2>10 DEF r
<1>5. ASSUME NEW g \in Guards, NEW p \in Post, Joins(g, p)
      PROVE  \E s \in started : C!Join(g, s)
  <2>1. /\ UNCHANGED <<requests, approves>>
        /\ posts' = posts \cup {p}
        /\ p.guard = g
    BY <1>5 DEF Joins, net
  <2>2. PICK q \in posts :
          /\ RequestOf(q) = RequestOf(p) /\ q.peers = p.peers
          /\ \E b \in p.peers : b.guard = g
    BY <1>5, JoinFollows
  <2> DEFINE s == [guard |-> q.guard, request |-> RequestOf(q), peers |-> q.peers]
  <2>3. s \in started
    BY DEF started
  <2>4. g \in C!Names(s.peers)
    BY <2>2 DEF C!Names
  <2>5. started' = started \cup {[guard |-> p.guard, request |-> RequestOf(p), peers |-> p.peers]}
    BY <2>1 DEF started, RequestOf
  <2>6. [guard |-> g, request |-> s.request, peers |-> s.peers] =
          [guard |-> p.guard, request |-> RequestOf(p), peers |-> p.peers]
    BY <2>1, <2>2
  <2>7. UNCHANGED agreed
    BY <2>1 DEF agreed, RequestOf
  <2> HIDE DEF s
  <2>8. C!Join(g, s)
    BY <2>1, <2>3, <2>4, <2>5, <2>6, <2>7 DEF C!Join
  <2>9. QED
    BY <2>3, <2>8
<1>6. ASSUME NEW g \in Guards, NEW m \in Msgs, SignMsg(g, m)
      PROVE  [C!Next]_(C!vars)
  <2>1. UNCHANGED <<requests, posts>>
    BY <1>6 DEF SignMsg
  <2>2. CASE UNCHANGED approves
    BY <1>2, <2>1, <2>2
  <2>3. ASSUME pending[g][m] # None, NEW active \in Views[g], NEW later \in Views[g],
               HandleRequest(g, pending[g][m], active, later, TRUE)
        PROVE  [C!Next]_(C!vars)
    <3>1. pending[g][m] \in requests
      BY <2>3 DEF IInv, RequestsMade
    <3>2. QED
      BY <1>1, <2>1, <2>3, <3>1, ApprovalAgrees
  <2>4. QED
    BY <1>6, <2>2, <2>3 DEF SignMsg
<1>7. ASSUME NEW g \in Guards, NEW r \in requests, ReceiveRequest(g, r)
      PROVE  [C!Next]_(C!vars)
  BY <1>1, <1>7, ApprovalAgrees DEF ReceiveRequest
<1>8. ASSUME NEW g \in Guards, NEW w \in waiting[g], Registered(g, w)
      PROVE  [C!Next]_(C!vars)
  <2>1. w[1] \in requests
    BY DEF IInv, RequestsMade
  <2>2. QED
    BY <1>1, <1>8, <2>1, ApprovalAgrees DEF Registered
<1>9. ASSUME NEW g \in Guards,
             \/ UpdateCleanup(g) \/ UpdateThreshold(g) \/ Crash(g)
             \/ \E k \in Msgs : CacheExpires(g, k)
             \/ \E s \in starts : HandleStart(g, s)
             \/ \E c \in cacheds : HandleCached(g, c)
      PROVE  UNCHANGED <<requests, approves, posts>>
  BY <1>9 DEF UpdateCleanup, UpdateThreshold, Crash, CacheExpires, HandleStart,
              HandleCached, net
<1>10. ASSUME NEW p \in running,
             PostFails(p) \/ ResultLost(p) \/ \E ok \in BOOLEAN : HandleSignData(p, ok)
       PROVE  UNCHANGED <<requests, approves, posts>>
  BY <1>10 DEF PostFails, ResultLost, HandleSignData, net
<1>11. Tick \/ UNCHANGED vars => UNCHANGED <<requests, approves, posts>>
  BY DEF Tick, vars, net
<1>12. ASSUME NEW g \in Guards,
              \/ \E a \in approves : HandleApprove(g, a)
              \/ \E s \in joining[g] : Join(g, s)
       PROVE  UNCHANGED <<requests, approves>>
  BY <1>12 DEF HandleApprove, Join, net
<1>13. ASSUME NEW g \in Guards, NEW p \in Post, Initiates(g, p) \/ Joins(g, p)
       PROVE  C!Next
  <2>1. CASE Initiates(g, p)
    <3>1. C!Start(RequestOf(p), p.peers)
      BY <1>4, <2>1
    <3>2. RequestOf(p) \in requests /\ p.peers \in SUBSET RequestOf(p).guards
      BY <3>1 DEF C!Start
    <3>3. QED
      BY <3>1, <3>2 DEF C!Next
  <2>2. CASE Joins(g, p)
    BY <1>5, <2>2 DEF C!Next
  <2>3. QED
    BY <1>13, <2>1, <2>2
<1>14. ASSUME NEW g \in Guards, UpdateRequest(g)
       PROVE  C!Next
  BY <1>3, <1>14 DEF C!Next
<1>15. UNCHANGED <<starts, posts>> \/ C!Next
  BY <1>1, <1>13, PostsChange
<1>16. QED
  BY <1>2, <1>6, <1>7, <1>8, <1>9, <1>10, <1>11, <1>12, <1>14, <1>15 DEF Next

\* The protocol implements the abstract ceremony, provided that the threshold
\* can be fetched.
THEOREM Refinement ==
  ASSUME ~ThresholdMayFail
  PROVE  Spec => Implements
<1> DEFINE Inv == IInv /\ ThresholdKnown
<1>1. Init => Inv /\ C!Init
  <2>1. Init => ThresholdKnown /\ C!Init
    BY DEF Init, ThresholdKnown, HasSign, C!Init, agreed, started
  <2>2. QED
    BY <2>1, InitIInv
<1>2. Inv /\ [Next]_vars => Inv'
  <2> SUFFICES ASSUME Inv, [Next]_vars PROVE Inv'
    OBVIOUS
  <2>1. TypeOK
    BY DEF IInv
  <2>2. ThresholdKnown'
    BY <2>1, ThresholdKnownStep
  <2>3. QED
    BY <2>2, NextIInv
<1>3. Inv /\ [Next]_vars => [C!Next]_(C!vars)
  BY StepRefines
<1>4. QED
  BY <1>1, <1>2, <1>3, PTL DEF Spec, Implements, C!Spec
=============================================================================
