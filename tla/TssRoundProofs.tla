--------------------------- MODULE TssRoundProofs ---------------------------
(***************************************************************************)
(* Proofs about the rounds of TssSigner, its running ceremonies and its    *)
(* caches, for any number of guards, messages, turns, faults and restarts. *)
(***************************************************************************)
EXTENDS TssSignerProofs, FiniteSetTheorems

-----------------------------------------------------------------------------
\* Requests of a round

\* A request is not of the future.
RequestsNotAhead == \A r \in requests : r.timestamp <= now

\* The queue is finite, the round of the last requests is not to come, and no
\* request of this life is of a later one.
RoundsPast ==
  \A g \in Guards :
    /\ IsFiniteSet({m \in Msgs : HasSign(g, m)})
    /\ lastRound[g] <= Round(now)
    /\ restartAt[g] <= now + 1
    /\ \A r \in requests : r.from = g /\ r.timestamp >= restartAt[g] =>
         Round(r.timestamp) <= lastRound[g]

RoundsFew ==
  \A g \in Guards, k \in Nat :
    /\ IsFiniteSet(RequestsOfRound(g, k))
    /\ Cardinality(RequestsOfRound(g, k)) <= SignPerRoundLimit

RoundInv == TypeOK /\ RequestsNotAhead /\ RoundsPast /\ RoundsFew

-----------------------------------------------------------------------------
\* Running ceremonies

\* A guard that was not restarted still has the entry of its running ceremony,
\* and cleanup leaves it until the time of the ceremony is up.
OneRunning(g, m) ==
  restartAt[g] = 0 /\ InTime(g, m) =>
    \A p \in running : p.guard = g /\ p.msg = m =>
      /\ HasSign(g, m) /\ signs[g][m].posted
      /\ p.deadline = Deadline(signs[g][m]) /\ now <= p.deadline
      /\ \A q \in running : q.guard = g /\ q.msg = m => q = p

RunningInv ==
  /\ TypeOK
  /\ \A g \in Guards, m \in Msgs : OneRunning(g, m)

-----------------------------------------------------------------------------
\* Cached signatures

SignedBy(m) == \E p \in posts : p.msg = m /\ Complete(p)

\* What a guard has cached, or tells another that it has, was signed.
CacheInv ==
  /\ TypeOK
  /\ running \subseteq posts
  /\ CacheSigned
  /\ \A c \in cacheds : SignedBy(c.msg)

-----------------------------------------------------------------------------
\* Rounds and turns

LEMMA DivBounds ==
  ASSUME NEW d \in Nat \ {0}, NEW t \in Nat
  PROVE  /\ t \div d \in Nat
         /\ d * (t \div d) <= t /\ t < d * (t \div d) + d
  OBVIOUS

LEMMA MultLeq ==
  ASSUME NEW d \in Nat, NEW i \in Nat, NEW j \in Nat, i <= j
  PROVE  d * i <= d * j
<1>1. PICK k \in Nat : j = i + k
  <2>1. j - i \in Nat /\ j = i + (j - i)
    OBVIOUS
  <2>2. QED
    BY <2>1
<1>2. d * (i + k) = d * i + d * k /\ d * k \in Nat /\ d * i \in Nat
  OBVIOUS
<1>3. QED
  BY <1>1, <1>2

LEMMA ModDiv ==
  ASSUME NEW n \in Nat \ {0}, NEW a \in Nat
  PROVE  \E i \in Nat : a = n * i + (a % n)
<1>1. a \div n \in Nat
  OBVIOUS
<1>2. a = n * (a \div n) + (a % n)
  BY Z3
<1>3. QED
  BY <1>1, <1>2

\* Rounds do not go back.
LEMMA RoundMonotone ==
  ASSUME NEW s \in Nat, NEW t \in Nat, s <= t
  PROVE  Round(s) <= Round(t)
<1> DEFINE d == TurnDuration
<1>1. d \in Nat \ {0}
  BY TimeAssumption
<1>2. /\ Round(s) \in Nat /\ Round(t) \in Nat
      /\ d * Round(s) <= s /\ s < d * Round(s) + d
      /\ d * Round(t) <= t /\ t < d * Round(t) + d
  BY <1>1, DivBounds DEF Round
<1> HIDE DEF d
<1>3. SUFFICES ASSUME Round(t) + 1 <= Round(s) PROVE FALSE
  BY <1>2
<1>4. d * (Round(t) + 1) <= d * Round(s)
  BY <1>1, <1>2, <1>3, MultLeq
<1>5. d * (Round(t) + 1) = d * Round(t) + d
  BY <1>1, <1>2
<1>6. QED
  BY <1>1, <1>2, <1>4, <1>5

\* Two rounds of one guard's turns are the same, or at least N apart.
LEMMA ModApart ==
  ASSUME NEW n \in Nat \ {0}, NEW a \in Nat, NEW b \in Nat, a < b, a % n = b % n
  PROVE  a + n <= b
<1>1. PICK i \in Nat : a = n * i + (a % n)
  BY ModDiv
<1>2. PICK j \in Nat : b = n * j + (b % n)
  BY ModDiv
<1>3. a % n \in Nat
  OBVIOUS
<1>4. i + 1 <= j
  <2>1. SUFFICES ASSUME j <= i PROVE FALSE
    OBVIOUS
  <2>2. n * j <= n * i
    BY <2>1, MultLeq
  <2>3. QED
    BY <1>1, <1>2, <1>3, <2>2
<1>5. n * (i + 1) <= n * j
  BY <1>4, MultLeq
<1>6. n * (i + 1) = n * i + n
  OBVIOUS
<1>7. QED
  BY <1>1, <1>2, <1>3, <1>5, <1>6

-----------------------------------------------------------------------------
\* A round's requests

\* The steps that neither make requests nor restart a guard, nor add to a queue.
LEMMA QuietSteps ==
  ASSUME NEW g \in Guards,
         \/ UpdateCleanup(g) \/ UpdateThreshold(g)
         \/ \E k \in Msgs : SignMsg(g, k) \/ CacheExpires(g, k)
         \/ \E r \in requests : ReceiveRequest(g, r)
         \/ \E w \in waiting[g] : Registered(g, w)
         \/ \E a \in approves : HandleApprove(g, a)
         \/ \E s \in starts : HandleStart(g, s)
         \/ \E s \in joining[g] : Join(g, s)
         \/ \E c \in cacheds : HandleCached(g, c)
  PROVE  UNCHANGED <<now, requests, lastRound, restartAt>>
  BY DEF UpdateCleanup, UpdateThreshold, SignMsg, CacheExpires, ReceiveRequest,
         Registered, HandleApprove, HandleStart, Join, HandleCached, net

LEMMA ResultSteps ==
  ASSUME NEW p \in running,
             PostFails(p) \/ ResultLost(p) \/ \E ok \in BOOLEAN : HandleSignData(p, ok)
  PROVE  UNCHANGED <<now, requests, lastRound, restartAt>>
  BY DEF PostFails, ResultLost, HandleSignData, net

\* What a step does to the requests made.
LEMMA RequestsChange ==
  ASSUME [Next]_vars
  PROVE  \/ UNCHANGED <<now, requests, lastRound, restartAt>>
         \/ Tick
         \/ \E g \in Guards : Crash(g) \/ UpdateRequest(g)
  BY QuietSteps, ResultSteps DEF Next, vars, net

\* g's queue before and after a step.
Queued(g) == {m \in Msgs : HasSign(g, m)}

\* A step adds one message to a queue at most.
LEMMA QueueChange ==
  ASSUME TypeOK, [Next]_vars, NEW g \in Guards
  PROVE  \E k \in Msgs \cup {None} : Queued(g)' \subseteq Queued(g) \cup {k}
<1>1. CASE \A m \in Msgs : HasSign(g, m)' => HasSign(g, m)
  BY <1>1 DEF Queued
<1>2. CASE \E k \in Msgs : Queued(g)' \subseteq Queued(g) \cup {k}
  BY <1>2
<1>3. ASSUME NEW h \in Guards, NEW k \in Msgs, SignMsg(h, k)
      PROVE  \E x \in Msgs : Queued(g)' \subseteq Queued(g) \cup {x}
  <2>1. \A m \in Msgs : m # k => signs'[g][m] = signs[g][m]
    BY <1>3 DEF SignMsg, TypeOK
  <2>2. Queued(g)' \subseteq Queued(g) \cup {k}
    BY <2>1 DEF Queued, HasSign
  <2>3. QED
    BY <2>2
<1>4. ASSUME NEW h \in Guards, UpdateCleanup(h)
      PROVE  \A m \in Msgs : HasSign(g, m)' => HasSign(g, m)
  <2>1. signs' = [signs EXCEPT ![h] = CleanSigns(h)]
    BY <1>4 DEF UpdateCleanup
  <2>2. QED
    BY <2>1 DEF TypeOK, HasSign, CleanSigns
<1>5. ASSUME NEW h \in Guards, UpdateRequest(h)
      PROVE  \A m \in Msgs : HasSign(g, m)' => HasSign(g, m)
  <2> DEFINE new(first) == {m \in first : ~signs[h][m].posted}
  <2>1. PICK active \in Views[h], first \in FirstSigns(signs[h]) :
          signs' = [signs EXCEPT ![h] = Requested(h, signs[h], new(first), active)]
    BY <1>5 DEF UpdateRequest
  <2>2. \A m \in new(first) : signs[h][m] # None
    BY DEF FirstSigns
  <2> HIDE DEF new
  <2>3. \A m \in Msgs : Requested(h, signs[h], new(first), active)[m] # None =>
                          signs[h][m] # None
    BY <2>2 DEF Requested
  <2>4. QED
    BY <2>1, <2>3 DEF TypeOK, HasSign
<1>6. ASSUME NEW h \in Guards, NEW k \in Msgs, NEW e, e = None \/ HasSign(h, k),
             signs' = [signs EXCEPT ![h][k] = e]
      PROVE  \A m \in Msgs : HasSign(g, m)' => HasSign(g, m)
  BY <1>6 DEF TypeOK, HasSign
<1>7. ASSUME NEW h \in Guards, NEW a \in approves, HandleApprove(h, a)
      PROVE  \A m \in Msgs : HasSign(g, m)' => HasSign(g, m)
  <2>1. a.msg \in Msgs /\ HasSign(h, a.msg) /\ \E e : signs' = [signs EXCEPT ![h][a.msg] = e]
    BY <1>7 DEF HandleApprove, HasUnposted, StartSign, TypeOK, Signature
  <2>2. QED
    BY <1>6, <2>1
<1>8. ASSUME NEW h \in Guards, NEW s \in joining[h], Join(h, s)
      PROVE  \A m \in Msgs : HasSign(g, m)' => HasSign(g, m)
  <2>1. s.msg \in Msgs
    BY DEF TypeOK, Start
  <2>2. CASE HasSign(h, s.msg) /\ \E e : signs' = [signs EXCEPT ![h][s.msg] = e]
    BY <1>6, <2>1, <2>2
  <2>3. CASE UNCHANGED signs
    BY <2>3 DEF HasSign
  <2>4. QED
    BY <1>8, <2>2, <2>3 DEF Join, HasUnposted, StartSign
<1>9. ASSUME NEW h \in Guards, NEW c \in cacheds, HandleCached(h, c)
      PROVE  \A m \in Msgs : HasSign(g, m)' => HasSign(g, m)
  <2>1. c.msg \in Msgs /\ signs' = [signs EXCEPT ![h][c.msg] = None]
    BY <1>9 DEF HandleCached, TypeOK, Cached
  <2>2. QED
    BY <1>6, <2>1
<1>10. ASSUME NEW h \in Guards, Crash(h)
       PROVE  \A m \in Msgs : HasSign(g, m)' => HasSign(g, m)
  BY <1>10 DEF Crash, TypeOK, HasSign
<1>11. ASSUME NEW p \in running,
             PostFails(p) \/ ResultLost(p) \/ \E ok \in BOOLEAN : HandleSignData(p, ok)
       PROVE  \A m \in Msgs : HasSign(g, m)' => HasSign(g, m)
  <2>1. p.msg \in Msgs /\ p.guard \in Guards
    BY DEF TypeOK, Post
  <2>2. UNCHANGED signs \/ signs' = [signs EXCEPT ![p.guard][p.msg] = None]
    BY <1>11 DEF PostFails, ResultLost, HandleSignData
  <2>3. QED
    BY <1>6, <2>1, <2>2 DEF HasSign
<1>12. ASSUME UNCHANGED signs PROVE \A m \in Msgs : HasSign(g, m)' => HasSign(g, m)
  BY <1>12 DEF HasSign
<1>13. ASSUME \/ Tick \/ UNCHANGED vars
              \/ \E h \in Guards :
                   \/ \E r \in requests : ReceiveRequest(h, r)
                   \/ \E w \in waiting[h] : Registered(h, w)
                   \/ \E s \in starts : HandleStart(h, s)
                   \/ \E m \in Msgs : CacheExpires(h, m)
                   \/ UpdateThreshold(h)
       PROVE  UNCHANGED signs
  BY <1>13 DEF Tick, vars, ReceiveRequest, Registered, HandleStart, CacheExpires,
               UpdateThreshold
<1>14. QED
  BY <1>1, <1>2, <1>3, <1>4, <1>5, <1>7, <1>8, <1>9, <1>10, <1>11, <1>12, <1>13 DEF Next

LEMMA QueueFinite ==
  ASSUME TypeOK, [Next]_vars, NEW g \in Guards, IsFiniteSet(Queued(g))
  PROVE  IsFiniteSet(Queued(g)')
<1>1. PICK k : Queued(g)' \subseteq Queued(g) \cup {k}
  BY QueueChange
<1>2. IsFiniteSet(Queued(g) \cup {k})
  BY FS_AddElement
<1>3. QED
  BY <1>1, <1>2, FS_Subset

\* The requests that UpdateRequest makes: at most so many.
LEMMA UpdateMakes ==
  ASSUME RoundInv, NEW g \in Guards, UpdateRequest(g)
  PROVE  \E new \in SUBSET Msgs, active \in Views[g] :
           /\ requests' = requests \cup RequestsFor(g, new, active)
           /\ IsFiniteSet(new) /\ Cardinality(new) <= SignPerRoundLimit
<1> DEFINE fresh(first) == {m \in first : ~signs[g][m].posted}
<1>1. PICK active \in Views[g], first \in FirstSigns(signs[g]) :
        requests' = requests \cup RequestsFor(g, fresh(first), active)
  BY DEF UpdateRequest
<1>2. first \subseteq Queued(g) /\ first \subseteq Msgs
  BY DEF FirstSigns, Queued, HasSign
<1>3. IsFiniteSet(first) /\ Cardinality(first) <= SignPerRoundLimit
  BY <1>2, FS_Subset DEF RoundInv, RoundsPast, Queued, FirstSigns
<1>4. fresh(first) \subseteq first
  OBVIOUS
<1>5. /\ IsFiniteSet(fresh(first)) /\ Cardinality(fresh(first)) <= Cardinality(first)
      /\ Cardinality(first) \in Nat /\ Cardinality(fresh(first)) \in Nat
  BY <1>3, <1>4, FS_Subset, FS_CardinalityType
<1>6. Cardinality(fresh(first)) <= SignPerRoundLimit
  BY <1>3, <1>5, TimeAssumption
<1>7. QED
  BY <1>1, <1>2, <1>4, <1>5, <1>6

LEMMA RequestsForFew ==
  ASSUME NEW g, NEW new, NEW active, IsFiniteSet(new)
  PROVE  /\ IsFiniteSet(RequestsFor(g, new, active))
         /\ Cardinality(RequestsFor(g, new, active)) <= Cardinality(new)
<1> DEFINE f == [m \in new |-> [from |-> g, msg |-> m, guards |-> active, timestamp |-> now]]
<1>1. f \in Surjection(new, RequestsFor(g, new, active))
  BY DEF Surjection, RequestsFor
<1>2. QED
  BY <1>1, FS_Surjection DEF ExistsSurjection

LEMMA RequestType ==
  ASSUME TypeOK, NEW r \in requests
  PROVE  r.from \in Guards /\ r.timestamp \in Nat /\ Round(r.timestamp) \in Nat
  BY RoundType DEF TypeOK, Request

LEMMA NotAheadStep ==
  ASSUME RoundInv, [Next]_vars
  PROVE  RequestsNotAhead'
<1>1. CASE UNCHANGED <<now, requests, lastRound, restartAt>>
  BY <1>1 DEF RoundInv, RequestsNotAhead
<1>2. CASE Tick
  <2>1. requests' = requests /\ now' = now + 1 /\ now \in Nat
    BY <1>2 DEF Tick, net, RoundInv, TypeOK
  <2>2. \A r \in requests : r.timestamp <= now => r.timestamp <= now'
    BY <2>1, RequestType DEF RoundInv
  <2>3. QED
    BY <2>1, <2>2 DEF RoundInv, RequestsNotAhead
<1>3. ASSUME NEW g \in Guards, Crash(g) PROVE RequestsNotAhead'
  BY <1>3 DEF Crash, net, RoundInv, RequestsNotAhead
<1>4. ASSUME NEW g \in Guards, UpdateRequest(g) PROVE RequestsNotAhead'
  <2>1. \A r \in requests' : r \in requests \/ (r.from = g /\ r.timestamp = now)
    <3>1. PICK new, active : requests' = requests \cup RequestsFor(g, new, active)
      BY <1>4, UpdateMakes
    <3>2. QED
      BY <3>1 DEF RequestsFor
  <2>2. now' = now /\ now \in Nat
    BY <1>4 DEF UpdateRequest, RoundInv, TypeOK
  <2>3. QED
    BY <2>1, <2>2 DEF RoundInv, RequestsNotAhead
<1>5. QED
  BY <1>1, <1>2, <1>3, <1>4, RequestsChange

LEMMA RoundsPastStep ==
  ASSUME RoundInv, [Next]_vars, TypeOK'
  PROVE  RoundsPast'
<1> SUFFICES ASSUME NEW g \in Guards
    PROVE  /\ IsFiniteSet(Queued(g)')
           /\ lastRound'[g] <= Round(now')
           /\ restartAt'[g] <= now' + 1
           /\ \A r \in requests' : r.from = g /\ r.timestamp >= restartAt'[g] =>
                Round(r.timestamp) <= lastRound'[g]
  BY DEF RoundsPast, Queued
<1>1. /\ lastRound[g] \in Nat /\ restartAt[g] \in Nat /\ now \in Nat /\ Round(now) \in Nat
      /\ lastRound[g] <= Round(now) /\ restartAt[g] <= now + 1
      /\ \A r \in requests : r.from = g /\ r.timestamp >= restartAt[g] =>
           Round(r.timestamp) <= lastRound[g]
  BY RoundType DEF RoundInv, TypeOK, RoundsPast
<1>2. IsFiniteSet(Queued(g)')
  BY QueueFinite DEF RoundInv, RoundsPast, Queued
<1>3. CASE UNCHANGED <<now, requests, lastRound, restartAt>>
  BY <1>1, <1>2, <1>3
<1>4. CASE Tick
  <2>1. now' = now + 1 /\ UNCHANGED <<requests, lastRound, restartAt>>
    BY <1>4 DEF Tick, net
  <2>2. Round(now) <= Round(now') /\ Round(now') \in Nat
    BY <1>1, <2>1, RoundMonotone, RoundType
  <2>3. QED
    BY <1>1, <1>2, <2>1, <2>2
<1>5. ASSUME NEW h \in Guards, Crash(h)
      PROVE  /\ lastRound'[g] <= Round(now')
             /\ restartAt'[g] <= now' + 1
             /\ \A r \in requests' : r.from = g /\ r.timestamp >= restartAt'[g] =>
                  Round(r.timestamp) <= lastRound'[g]
  <2>1. /\ UNCHANGED <<now, requests>>
        /\ restartAt' = [restartAt EXCEPT ![h] = now + 1]
        /\ lastRound' = [lastRound EXCEPT ![h] = 0]
    BY <1>5 DEF Crash, net
  <2>2. CASE g # h
    BY <1>1, <2>1, <2>2 DEF RoundInv, TypeOK
  <2>3. CASE g = h
    <3>1. restartAt'[g] = now + 1 /\ lastRound'[g] = 0
      BY <2>1, <2>3 DEF RoundInv, TypeOK
    <3>2. \A r \in requests : r.timestamp \in Nat /\ r.timestamp <= now
      BY RequestType DEF RoundInv, RequestsNotAhead
    <3>3. QED
      BY <1>1, <2>1, <3>1, <3>2
  <2>4. QED
    BY <2>2, <2>3
<1>6. ASSUME NEW h \in Guards, UpdateRequest(h)
      PROVE  /\ lastRound'[g] <= Round(now')
             /\ restartAt'[g] <= now' + 1
             /\ \A r \in requests' : r.from = g /\ r.timestamp >= restartAt'[g] =>
                  Round(r.timestamp) <= lastRound'[g]
  <2>1. /\ UNCHANGED <<now, restartAt>>
        /\ lastRound' = [lastRound EXCEPT ![h] = Round(now)]
    BY <1>6 DEF UpdateRequest
  <2>2. \A r \in requests' : r \in requests \/ (r.from = h /\ r.timestamp = now)
    <3>1. PICK new, active : requests' = requests \cup RequestsFor(h, new, active)
      BY <1>6, UpdateMakes
    <3>2. QED
      BY <3>1 DEF RequestsFor
  <2>3. lastRound'[g] = IF g = h THEN Round(now) ELSE lastRound[g]
    BY <2>1 DEF RoundInv, TypeOK
  <2>4. \A r \in requests : Round(r.timestamp) \in Nat
    BY RequestType DEF RoundInv
  <2>5. QED
    BY <1>1, <2>1, <2>2, <2>3, <2>4
<1>7. QED
  BY <1>2, <1>3, <1>4, <1>5, <1>6, RequestsChange

LEMMA RoundsFewStep ==
  ASSUME RoundInv, [Next]_vars
  PROVE  RoundsFew'
<1> SUFFICES ASSUME NEW g \in Guards, NEW k \in Nat
    PROVE  /\ IsFiniteSet(RequestsOfRound(g, k)')
           /\ Cardinality(RequestsOfRound(g, k)') <= SignPerRoundLimit
  BY DEF RoundsFew
<1>1. /\ IsFiniteSet(RequestsOfRound(g, k)) /\ Cardinality(RequestsOfRound(g, k)) \in Nat
      /\ Cardinality(RequestsOfRound(g, k)) <= SignPerRoundLimit
      /\ SignPerRoundLimit \in Nat
  BY FS_CardinalityType, TimeAssumption DEF RoundInv, RoundsFew
<1>2. SUFFICES ASSUME ~(RequestsOfRound(g, k)' \subseteq RequestsOfRound(g, k))
      PROVE  /\ IsFiniteSet(RequestsOfRound(g, k)')
             /\ Cardinality(RequestsOfRound(g, k)') <= SignPerRoundLimit
  <2>1. ASSUME RequestsOfRound(g, k)' \subseteq RequestsOfRound(g, k)
        PROVE  /\ IsFiniteSet(RequestsOfRound(g, k)')
               /\ Cardinality(RequestsOfRound(g, k)') <= SignPerRoundLimit
    <3>1. /\ IsFiniteSet(RequestsOfRound(g, k)')
          /\ Cardinality(RequestsOfRound(g, k)') <= Cardinality(RequestsOfRound(g, k))
      BY <1>1, <2>1, FS_Subset
    <3>2. Cardinality(RequestsOfRound(g, k)') \in Nat
      BY <3>1, FS_CardinalityType
    <3>3. QED
      BY <1>1, <3>1, <3>2
  <2>2. QED
    BY <2>1
<1>3. ~UNCHANGED <<requests, restartAt>>
  BY <1>2 DEF RequestsOfRound, Round
<1>4. ~Tick
  BY <1>3 DEF Tick, net
<1>5. ASSUME NEW h \in Guards, Crash(h) PROVE FALSE
  <2>1. /\ UNCHANGED <<now, requests>>
        /\ restartAt' = [restartAt EXCEPT ![h] = now + 1]
    BY <1>5 DEF Crash, net
  <2>2. restartAt[g] <= restartAt'[g] /\ restartAt[g] \in Nat /\ restartAt'[g] \in Nat
    <3>1. restartAt \in [Guards -> Nat] /\ now \in Nat /\ restartAt[g] <= now + 1
      BY DEF RoundInv, TypeOK, RoundsPast
    <3>2. QED
      BY <2>1, <3>1
  <2>3. \A r \in requests : r.timestamp \in Nat
    BY RequestType DEF RoundInv
  <2>4. QED
    BY <1>2, <2>1, <2>2, <2>3 DEF RequestsOfRound, Round
<1>6. ASSUME NEW h \in Guards, UpdateRequest(h)
      PROVE  /\ IsFiniteSet(RequestsOfRound(g, k)')
             /\ Cardinality(RequestsOfRound(g, k)') <= SignPerRoundLimit
  <2>1. PICK new \in SUBSET Msgs, active \in Views[h] :
          /\ requests' = requests \cup RequestsFor(h, new, active)
          /\ IsFiniteSet(new) /\ Cardinality(new) <= SignPerRoundLimit
    BY <1>6, UpdateMakes
  <2>2. UNCHANGED <<now, restartAt>> /\ Round(now) # lastRound[h]
    BY <1>6 DEF UpdateRequest, NewRound
  <2>3. \A r \in RequestsFor(h, new, active) : r.from = h /\ r.timestamp = now
    BY DEF RequestsFor
  <2>4. h = g /\ k = Round(now)
    BY <1>2, <2>1, <2>2, <2>3 DEF RequestsOfRound, Round
  <2>5. RequestsOfRound(g, k) = {}
    <3>1. \A r \in requests : r.from = g /\ r.timestamp >= restartAt[g] =>
            Round(r.timestamp) <= lastRound[g] /\ lastRound[g] < Round(now)
      <4>1. lastRound[g] \in Nat /\ Round(now) \in Nat
        BY RoundType DEF RoundInv, TypeOK
      <4>2. lastRound[g] < Round(now)
        <5>1. lastRound[g] <= Round(now)
          BY DEF RoundInv, RoundsPast
        <5>2. lastRound[g] # Round(now)
          BY <2>2, <2>4
        <5>3. QED
          BY <4>1, <5>1, <5>2
      <4>3. QED
        BY <4>2 DEF RoundInv, RoundsPast
    <3>2. \A r \in requests : Round(r.timestamp) \in Nat
      BY RequestType DEF RoundInv
    <3>3. lastRound[g] \in Nat /\ Round(now) \in Nat
      BY RoundType DEF RoundInv, TypeOK
    <3>4. QED
      BY <2>4, <3>1, <3>2, <3>3 DEF RequestsOfRound
  <2>6. RequestsOfRound(g, k)' \subseteq RequestsFor(h, new, active)
    BY <2>1, <2>2, <2>5 DEF RequestsOfRound, Round
  <2>7. /\ IsFiniteSet(RequestsFor(h, new, active))
        /\ Cardinality(RequestsFor(h, new, active)) <= Cardinality(new)
    BY <2>1, RequestsForFew
  <2>8. /\ IsFiniteSet(RequestsOfRound(g, k)')
        /\ Cardinality(RequestsOfRound(g, k)') <= Cardinality(RequestsFor(h, new, active))
    BY <2>6, <2>7, FS_Subset
  <2>9. /\ Cardinality(new) \in Nat /\ Cardinality(RequestsOfRound(g, k)') \in Nat
        /\ Cardinality(RequestsFor(h, new, active)) \in Nat
    BY <2>1, <2>7, <2>8, FS_CardinalityType
  <2>10. QED
    BY <1>1, <2>1, <2>7, <2>8, <2>9
<1>7. QED
  BY <1>3, <1>4, <1>5, <1>6, RequestsChange

LEMMA RoundInvariant == Spec => []RoundInv
<1>1. Init => RoundInv
  <2> SUFFICES ASSUME Init PROVE RoundInv
    OBVIOUS
  <2>1. TypeOK
    BY TypeInit
  <2>2. RequestsNotAhead
    BY DEF Init, RequestsNotAhead
  <2>3. RoundsPast
    <3>1. \A g \in Guards : {m \in Msgs : HasSign(g, m)} = {}
      BY DEF Init, HasSign
    <3>2. \A g \in Guards : lastRound[g] = 0 /\ restartAt[g] = 0
      BY DEF Init
    <3>3. Round(now) \in Nat /\ now \in Nat
      BY <2>1, RoundType DEF TypeOK
    <3>4. IsFiniteSet({})
      BY FS_EmptySet
    <3>5. requests = {}
      BY DEF Init
    <3>6. QED
      BY <3>1, <3>2, <3>3, <3>4, <3>5 DEF RoundsPast
  <2>4. RoundsFew
    <3>1. \A g \in Guards, k \in Nat : RequestsOfRound(g, k) = {}
      BY DEF Init, RequestsOfRound
    <3>2. QED
      BY <3>1, FS_EmptySet, TimeAssumption DEF RoundsFew
  <2>5. QED
    BY <2>1, <2>2, <2>3, <2>4 DEF RoundInv
<1>2. RoundInv /\ [Next]_vars => RoundInv'
  <2> SUFFICES ASSUME RoundInv, [Next]_vars PROVE RoundInv'
    OBVIOUS
  <2>1. TypeOK'
    BY TypeStep DEF RoundInv
  <2>2. QED
    BY <2>1, NotAheadStep, RoundsPastStep, RoundsFewStep DEF RoundInv
<1>3. QED
  BY <1>1, <1>2, PTL DEF Spec

\* A guard makes at most signPerRoundLimit requests in a round, in one life,
\* however often update runs in the round, and whatever happens to its queue.
THEOREM RoundLimitHolds == Spec => []RoundLimit
<1>1. RoundInv => RoundLimit
  BY RequestType DEF RoundInv, RoundsFew, RoundLimit
<1>2. QED
  BY <1>1, RoundInvariant, PTL

-----------------------------------------------------------------------------
\* Accepting a start message in the round of the request

\* A fresh message of a guard, received in a turn of it, is of this round.
LEMMA SameRound ==
  ASSUME NEW s \in Nat, NEW t \in Nat, s <= t, TurnAt(s) = TurnAt(t),
         t - MessageValid <= s, MessageValid <= (N - 1) * TurnDuration
  PROVE  Round(s) = Round(t)
<1> DEFINE d == TurnDuration
           a == Round(s)
           b == Round(t)
<1>1. /\ d \in Nat \ {0} /\ N \in Nat \ {0} /\ MessageValid \in Nat
      /\ a \in Nat /\ b \in Nat /\ a <= b /\ a % N = b % N
  BY TimeAssumption, SizeAssumption, RoundType, RoundMonotone DEF TurnAt
<1>2. d * b <= t /\ s < d * a + d
  BY <1>1, DivBounds DEF Round
<1>3. MessageValid <= (N - 1) * d
  OBVIOUS
<1> HIDE DEF a, b, d
<1>4. SUFFICES ASSUME a < b PROVE FALSE
  BY <1>1 DEF a, b
<1>5. a + N <= b
  BY <1>1, <1>4, ModApart
<1>6. d * (a + N) <= d * b
  BY <1>1, <1>5, MultLeq
<1>7. d * (a + N) = d * a + d * N /\ (N - 1) * d = d * N - d
  BY <1>1
<1>8. d * a \in Nat /\ d * N \in Nat /\ d * b \in Nat
  BY <1>1
<1>9. QED
  BY <1>1, <1>2, <1>3, <1>6, <1>7, <1>8

LEMMA AcceptedStep ==
  ASSUME IInv, [Next]_vars, MessageValid <= (N - 1) * TurnDuration,
         NEW g \in Guards, NEW s \in joining'[g], s \notin joining[g],
         TurnAt(s.timestamp) = s.from
  PROVE  Round(now) = Round(s.timestamp)
<1>1. s \in starts /\ HandleStart(g, s) /\ TypeOK
  BY JoiningChange DEF IInv
<1>2. Turn = s.from /\ now - MessageValid <= s.timestamp
  BY <1>1 DEF HandleStart, MayJoin, Fresh
<1>3. PICK q \in posts : RequestOf(q) = [from |-> s.from, msg |-> s.msg, guards |-> s.guards,
                                         timestamp |-> s.timestamp]
  BY <1>1 DEF IInv, StartsFollow
<1>4. RequestOf(q) \in requests /\ RequestOf(q).timestamp = s.timestamp
  BY <1>3 DEF IInv, PostsMade
<1>5. s.timestamp <= now
  BY <1>4 DEF IInv, RequestsPast
<1>6. s.timestamp \in Nat /\ now \in Nat
  BY <1>1 DEF TypeOK, Start
<1>7. QED
  BY <1>2, <1>5, <1>6, SameRound DEF Turn

\* If messages expire within N - 1 turns, a guard accepts a start message only in
\* the round in which its request was made, if that was in its sender's turn: the
\* turn of the initiator that the guard checks cannot be a later one.
THEOREM AcceptedInRoundHolds ==
  ASSUME MessageValid <= (N - 1) * TurnDuration
  PROVE  Spec => AcceptedInRound
<1> DEFINE InRound ==
      \A g \in Guards : \A s \in joining'[g] \ joining[g] :
        TurnAt(s.timestamp) = s.from => Round(now) = Round(s.timestamp)
<1>1. IInv /\ [Next]_vars => [InRound]_vars
  BY AcceptedStep
<1>2. AcceptedInRound <=> [][InRound]_vars
  BY DEF AcceptedInRound
<1> HIDE DEF InRound
<1>3. QED
  BY <1>1, <1>2, InvariantIInv, PTL DEF Spec

-----------------------------------------------------------------------------
\* One ceremony at a time

\* The ceremonies of m that run at g.
RunningOf(g, m) == {p \in running : p.guard = g /\ p.msg = m}

\* They are as OneRunning says: one at most, whose posted entry is still there.
Held(g, m) ==
  \A p \in RunningOf(g, m) :
    /\ HasSign(g, m) /\ signs[g][m].posted
    /\ p.deadline = Deadline(signs[g][m]) /\ now <= p.deadline
    /\ RunningOf(g, m) = {p}

LEMMA HeldRunning ==
  ASSUME NEW g, NEW m
  PROVE  /\ restartAt[g] = 0 /\ InTime(g, m) /\ OneRunning(g, m) => Held(g, m)
         /\ Held(g, m) => OneRunning(g, m)
<1>1. ASSUME restartAt[g] = 0, InTime(g, m), OneRunning(g, m)
      PROVE  Held(g, m)
  <2> SUFFICES ASSUME NEW p \in RunningOf(g, m)
      PROVE  /\ HasSign(g, m) /\ signs[g][m].posted
             /\ p.deadline = Deadline(signs[g][m]) /\ now <= p.deadline
             /\ RunningOf(g, m) = {p}
    BY DEF Held
  <2>1. p \in running /\ p.guard = g /\ p.msg = m
    BY DEF RunningOf
  <2>2. \A q \in running : q.guard = g /\ q.msg = m => q = p
    BY <1>1, <2>1 DEF OneRunning
  <2>3. RunningOf(g, m) = {p}
    BY <2>1, <2>2 DEF RunningOf
  <2>4. QED
    BY <1>1, <2>1, <2>3 DEF OneRunning
<1>2. ASSUME Held(g, m)
      PROVE  OneRunning(g, m)
  <2> SUFFICES ASSUME NEW p \in running, p.guard = g, p.msg = m
      PROVE  /\ HasSign(g, m) /\ signs[g][m].posted
             /\ p.deadline = Deadline(signs[g][m]) /\ now <= p.deadline
             /\ \A q \in running : q.guard = g /\ q.msg = m => q = p
    BY DEF OneRunning
  <2>1. p \in RunningOf(g, m)
    BY DEF RunningOf
  <2>2. RunningOf(g, m) = {p}
    BY <1>2, <2>1 DEF Held
  <2>3. \A q \in running : q.guard = g /\ q.msg = m => q = p
    BY <2>2 DEF RunningOf
  <2>4. QED
    BY <1>2, <2>1, <2>3 DEF Held
<1>3. QED
  BY <1>1, <1>2

\* A step that starts no ceremony of m at g, and leaves its entry alone as long as
\* one runs.
LEMMA HeldKept ==
  ASSUME NEW g, NEW m, Held(g, m), now' = now,
         RunningOf(g, m)' \subseteq RunningOf(g, m),
         RunningOf(g, m)' # {} => signs'[g][m] = signs[g][m]
  PROVE  Held(g, m)'
<1> SUFFICES ASSUME NEW p \in RunningOf(g, m)'
    PROVE  /\ HasSign(g, m)' /\ signs'[g][m].posted
           /\ p.deadline = Deadline(signs'[g][m]) /\ now' <= p.deadline
           /\ RunningOf(g, m)' = {p}
  BY DEF Held, Deadline
<1>1. p \in RunningOf(g, m) /\ signs'[g][m] = signs[g][m]
  OBVIOUS
<1>2. /\ HasSign(g, m) /\ signs[g][m].posted
      /\ p.deadline = Deadline(signs[g][m]) /\ now <= p.deadline
      /\ RunningOf(g, m) = {p}
  BY <1>1 DEF Held
<1>3. RunningOf(g, m)' = {p}
  BY <1>2
<1>4. QED
  BY <1>1, <1>2, <1>3 DEF HasSign

\* Cleanup leaves the entry of a running ceremony alone.
LEMMA CleanupHeld ==
  ASSUME TypeOK, ResponseDelay > 0, NEW g \in Guards, NEW m \in Msgs, Held(g, m),
         RunningOf(g, m) # {}
  PROVE  CleanSigns(g)[m] = signs[g][m] /\ CleanSigns(g)[m].posted
<1>1. PICK p \in RunningOf(g, m) : TRUE
  OBVIOUS
<1>2. /\ HasSign(g, m) /\ signs[g][m].posted
      /\ p.deadline = Deadline(signs[g][m]) /\ now <= p.deadline
  BY <1>1 DEF Held
<1>3. signs[g][m].addedTime \in Nat /\ now \in Nat
  BY <1>2 DEF HasSign, TypeOK, Entry
<1>4. signs[g][m].addedTime > now - Timeout
  BY <1>2, <1>3, TimeAssumption DEF Deadline
<1>5. QED
  BY <1>2, <1>4 DEF CleanSigns

\* The ceremony that a guard starts for an entry that is not posted is its only
\* one.
LEMMA StartHeld ==
  ASSUME TypeOK, NEW g \in Guards, NEW m \in Msgs, Held(g, m), InTime(g, m)',
         NEW h \in Guards, NEW k \in Msgs, HasUnposted(h, k), now' = now,
         NEW entry \in Entry, entry.addedTime = signs[h][k].addedTime,
         NEW peers, NEW init, NEW guards, NEW timestamp,
         StartSign(h, k, entry, peers, init, guards, timestamp)
  PROVE  Held(g, m)'
<1> DEFINE post == [guard |-> h, msg |-> k, peers |-> peers, init |-> init,
                    guards |-> guards, timestamp |-> timestamp, at |-> now,
                    deadline |-> Deadline(entry)]
<1>1. /\ signs' = [signs EXCEPT ![h][k] = [entry EXCEPT !.posted = TRUE]]
      /\ running' = running \cup {post} /\ posts' = posts \cup {post}
  BY DEF StartSign
<1>2. /\ post.guard = h /\ post.msg = k /\ post.at = now /\ post.deadline = Deadline(entry)
  OBVIOUS
<1> HIDE DEF post
<1>3. CASE h = g /\ k = m
  <2>1. RunningOf(g, m) = {}
    BY <1>3 DEF Held, HasUnposted
  <2>2. RunningOf(g, m)' = {post}
    BY <1>1, <1>2, <1>3, <2>1 DEF RunningOf
  <2>3. signs'[g][m] = [entry EXCEPT !.posted = TRUE]
    BY <1>1, <1>3 DEF TypeOK
  <2>4. /\ signs'[g][m].posted /\ signs'[g][m].addedTime = entry.addedTime
        /\ signs'[g][m] \in Entry
    BY <2>3 DEF Entry
  <2>5. None \notin Entry
    BY NoneAssumption
  <2>6. now < post.deadline /\ now \in Nat /\ post.deadline \in Int
    <3>1. post.at < post.deadline
      BY <1>1, <1>2, <1>3 DEF InTime
    <3>2. Deadline(entry) \in Int /\ now \in Nat
      BY TimeAssumption DEF Deadline, Entry, TypeOK
    <3>3. QED
      BY <1>2, <3>1, <3>2
  <2>7. Deadline(signs'[g][m]) = post.deadline
    BY <1>2, <2>4 DEF Deadline
  <2>8. HasSign(g, m)'
    BY <2>4, <2>5 DEF HasSign
  <2>9. QED
    BY <2>2, <2>4, <2>6, <2>7, <2>8 DEF Held, Deadline
<1>4. CASE ~(h = g /\ k = m)
  <2>1. RunningOf(g, m)' = RunningOf(g, m)
    BY <1>1, <1>2, <1>4 DEF RunningOf
  <2>2. signs'[g][m] = signs[g][m]
    BY <1>1, <1>4 DEF TypeOK
  <2>3. QED
    BY <2>1, <2>2, HeldKept
<1>5. QED
  BY <1>3, <1>4

LEMMA HeldStep ==
  ASSUME TypeOK, [Next]_vars, ResponseDelay > 0, NEW g \in Guards, NEW m \in Msgs,
         Held(g, m), InTime(g, m)', restartAt'[g] = 0
  PROVE  Held(g, m)'
<1> DEFINE Same == /\ now' = now /\ RunningOf(g, m)' \subseteq RunningOf(g, m)
                   /\ RunningOf(g, m)' # {} => signs'[g][m] = signs[g][m]
<1>1. Same => Held(g, m)'
  BY HeldKept
<1>2. UNCHANGED running => RunningOf(g, m)' = RunningOf(g, m)
  BY DEF RunningOf
<1>3. CASE UNCHANGED vars
  BY <1>1, <1>2, <1>3 DEF vars
<1>4. CASE Tick
  <2>1. /\ now' = now + 1 /\ UNCHANGED <<signs, running>>
        /\ \A p \in running : now < p.deadline
    BY <1>4 DEF Tick
  <2>2. \A p \in running : p.deadline \in Int /\ now \in Nat
    BY DEF TypeOK, Post
  <2>3. \A p \in RunningOf(g, m) : now' <= p.deadline
    BY <2>1, <2>2 DEF RunningOf
  <2>4. QED
    BY <1>2, <2>1, <2>3 DEF Held, HasSign, Deadline
<1>5. ASSUME NEW h \in Guards, NEW k \in Msgs, SignMsg(h, k) PROVE Same
  <2>1. UNCHANGED <<now, running>> /\ ~HasSign(h, k)
    BY <1>5 DEF SignMsg
  <2>2. h # g \/ k # m => signs'[g][m] = signs[g][m]
    BY <1>5 DEF SignMsg, TypeOK
  <2>3. h = g /\ k = m => RunningOf(g, m) = {}
    BY <2>1 DEF Held
  <2>4. QED
    BY <1>2, <2>1, <2>2, <2>3
<1>6. ASSUME NEW h \in Guards, UpdateCleanup(h) PROVE Same
  <2>1. UNCHANGED <<now, running>> /\ signs' = [signs EXCEPT ![h] = CleanSigns(h)]
    BY <1>6 DEF UpdateCleanup
  <2>2. h # g => signs'[g][m] = signs[g][m]
    BY <2>1 DEF TypeOK
  <2>3. h = g => signs'[g][m] = CleanSigns(g)[m]
    BY <2>1 DEF TypeOK
  <2>4. RunningOf(g, m) # {} => CleanSigns(g)[m] = signs[g][m]
    BY CleanupHeld
  <2>5. QED
    BY <1>2, <2>1, <2>2, <2>3, <2>4
<1>7. ASSUME NEW h \in Guards, UpdateRequest(h) PROVE Same
  <2> DEFINE new(first) == {x \in first : ~signs[h][x].posted}
  <2>1. UNCHANGED <<now, running>>
    BY <1>7 DEF UpdateRequest
  <2>2. PICK active \in Views[h], first \in FirstSigns(signs[h]) :
          signs' = [signs EXCEPT ![h] = Requested(h, signs[h], new(first), active)]
    BY <1>7 DEF UpdateRequest
  <2>3. h # g => signs'[g][m] = signs[g][m]
    BY <2>2 DEF TypeOK
  <2>4. h = g => signs'[g][m] = Requested(h, signs[h], new(first), active)[m]
    BY <2>2 DEF TypeOK
  <2>5. m \notin new(first) =>
          Requested(h, signs[h], new(first), active)[m] = signs[h][m]
    <3> HIDE DEF new
    <3>1. QED
      BY DEF Requested
  <2>6. h = g /\ RunningOf(g, m) # {} => m \notin new(first)
    BY DEF Held
  <2> HIDE DEF new
  <2>7. QED
    BY <1>2, <2>1, <2>3, <2>4, <2>5, <2>6
<1>8. ASSUME NEW h \in Guards,
             \/ UpdateThreshold(h)
             \/ \E r \in requests : ReceiveRequest(h, r)
             \/ \E w \in waiting[h] : Registered(h, w)
             \/ \E s \in starts : HandleStart(h, s)
             \/ \E k \in Msgs : CacheExpires(h, k)
      PROVE  Same
  <2>1. UNCHANGED <<now, running, signs>>
    BY <1>8 DEF UpdateThreshold, ReceiveRequest, Registered, HandleStart, CacheExpires
  <2>2. QED
    BY <1>2, <2>1
<1>9. ASSUME NEW h \in Guards, NEW a \in approves, HandleApprove(h, a) PROVE Held(g, m)'
  <2> DEFINE entry == [signs[h][a.msg] EXCEPT !.sigs[a.from] = a]
             req == entry.request
             approved == ApprovedGuards(a.msg, req.guards, h, req.timestamp, entry.sigs)
  <2>1. a.msg \in Msgs /\ a.from \in Guards /\ a \in Signature
    BY DEF TypeOK, Signature
  <2>2. HasUnposted(h, a.msg) /\ now' = now /\ signs[h][a.msg] \in Entry
    <3>1. HasUnposted(h, a.msg) /\ UNCHANGED now
      BY <1>9 DEF HandleApprove
    <3>2. signs \in [Guards -> [Msgs -> Entry \cup {None}]]
      BY DEF TypeOK
    <3>3. signs[h][a.msg] \in Entry
      BY <2>1, <3>1, <3>2 DEF HasUnposted, HasSign
    <3>. QED
      BY <3>1, <3>3 DEF HasUnposted, HasSign
  <2>3. entry \in Entry /\ entry.addedTime = signs[h][a.msg].addedTime
    BY <2>1, <2>2 DEF Entry, Sigs
  <2>4. CASE StartSign(h, a.msg, entry, approved, h, req.guards, req.timestamp)
    <3> HIDE DEF entry, approved, req
    <3>1. QED
      BY <2>1, <2>2, <2>3, <2>4, StartHeld
  <2>5. CASE /\ signs' = [signs EXCEPT ![h][a.msg] = entry]
             /\ UNCHANGED <<starts, running, posts>>
    <3>1. h # g \/ a.msg # m => signs'[g][m] = signs[g][m]
      BY <2>1, <2>5 DEF TypeOK
    <3>2. h = g /\ a.msg = m => RunningOf(g, m) = {}
      BY <2>2 DEF Held, HasUnposted
    <3>3. Same
      BY <1>2, <2>2, <2>5, <3>1, <3>2
    <3>4. QED
      BY <1>1, <3>3
  <2>6. QED
    BY <1>9, <2>4, <2>5 DEF HandleApprove
<1>10. ASSUME NEW h \in Guards, NEW s \in joining[h], Join(h, s) PROVE Held(g, m)'
  <2>1. s.msg \in Msgs /\ now' = now
    BY <1>10 DEF Join, TypeOK, Start
  <2>2. CASE /\ HasUnposted(h, s.msg)
             /\ StartSign(h, s.msg, signs[h][s.msg], PeersOf(s), s.from, s.guards, s.timestamp)
    <3>1. signs[h][s.msg] \in Entry
      BY <2>1, <2>2 DEF HasUnposted, HasSign, TypeOK
    <3>2. QED
      BY <2>1, <2>2, <3>1, StartHeld
  <2>3. CASE UNCHANGED <<signs, running, posts>>
    <3>1. Same
      BY <1>2, <2>1, <2>3
    <3>2. QED
      BY <1>1, <3>1
  <2>4. QED
    BY <1>10, <2>2, <2>3 DEF Join
<1>11. ASSUME NEW h \in Guards, NEW c \in cacheds, HandleCached(h, c) PROVE Same
  <2>1. /\ UNCHANGED <<now, running>> /\ HasUnposted(h, c.msg) /\ c.msg \in Msgs
        /\ signs' = [signs EXCEPT ![h][c.msg] = None]
    BY <1>11 DEF HandleCached, TypeOK, Cached
  <2>2. h # g \/ c.msg # m => signs'[g][m] = signs[g][m]
    BY <2>1 DEF TypeOK
  <2>3. h = g /\ c.msg = m => RunningOf(g, m) = {}
    BY <2>1 DEF Held, HasUnposted
  <2>4. QED
    BY <1>2, <2>1, <2>2, <2>3
<1>12. ASSUME NEW h \in Guards, Crash(h) PROVE Same
  <2>1. /\ UNCHANGED <<now, running>> /\ restartAt' = [restartAt EXCEPT ![h] = now + 1]
        /\ signs' = [signs EXCEPT ![h] = [x \in Msgs |-> None]]
    BY <1>12 DEF Crash
  <2>2. h # g
    BY <2>1 DEF TypeOK
  <2>3. signs'[g][m] = signs[g][m]
    BY <2>1, <2>2 DEF TypeOK
  <2>4. QED
    BY <1>2, <2>1, <2>3
<1>13. ASSUME NEW p \in running,
             PostFails(p) \/ ResultLost(p) \/ \E ok \in BOOLEAN : HandleSignData(p, ok)
       PROVE  Same
  <2>1. p.msg \in Msgs /\ p.guard \in Guards
    BY DEF TypeOK, Post
  <2>2. /\ running' = running \ {p} /\ now' = now
        /\ UNCHANGED signs \/ signs' = [signs EXCEPT ![p.guard][p.msg] = None]
    BY <1>13 DEF PostFails, ResultLost, HandleSignData
  <2>3. RunningOf(g, m)' \subseteq RunningOf(g, m)
    BY <2>2 DEF RunningOf
  <2>4. CASE p.guard = g /\ p.msg = m
    <3>1. RunningOf(g, m)' = {}
      BY <2>2, <2>4 DEF RunningOf, Held
    <3>2. QED
      BY <2>2, <2>3, <3>1
  <2>5. CASE ~(p.guard = g /\ p.msg = m)
    <3>1. signs'[g][m] = signs[g][m]
      BY <2>1, <2>2, <2>5 DEF TypeOK
    <3>2. QED
      BY <2>2, <2>3, <3>1
  <2>6. QED
    BY <2>4, <2>5
<1> HIDE DEF Same
<1>14. QED
  BY <1>1, <1>3, <1>4, <1>5, <1>6, <1>7, <1>8, <1>9, <1>10, <1>11, <1>12, <1>13 DEF Next

\* Only a restart sets restartAt, and never back to zero.
LEMMA NoRestart ==
  ASSUME TypeOK, [Next]_vars, NEW g \in Guards, restartAt'[g] = 0
  PROVE  restartAt[g] = 0
<1>1. ASSUME NEW h \in Guards, Crash(h) PROVE restartAt'[g] = restartAt[g]
  BY <1>1 DEF Crash, TypeOK
<1>2. ASSUME NEW h \in Guards, UpdateRequest(h) PROVE UNCHANGED restartAt
  BY <1>2 DEF UpdateRequest
<1>3. Tick => UNCHANGED restartAt
  BY DEF Tick
<1>4. QED
  BY <1>1, <1>2, <1>3, RequestsChange

LEMMA RunningInvariant ==
  ASSUME ResponseDelay > 0
  PROVE  Spec => []RunningInv
<1>1. Init => RunningInv
  BY TypeInit DEF Init, RunningInv, OneRunning
<1>2. ASSUME RunningInv, [Next]_vars PROVE RunningInv'
  <2>1. TypeOK'
    BY <1>2, TypeStep DEF RunningInv
  <2>2. ASSUME NEW g \in Guards, NEW m \in Msgs, restartAt'[g] = 0, InTime(g, m)'
        PROVE  OneRunning(g, m)'
    <3>1. InTime(g, m)
      BY <1>2, <2>2, Grow DEF InTime
    <3>2. Held(g, m)
      BY <1>2, <2>2, <3>1, NoRestart, HeldRunning DEF RunningInv
    <3>3. Held(g, m)'
      BY <1>2, <2>2, <3>2, HeldStep DEF RunningInv
    <3>4. Held(g, m)' => OneRunning(g, m)'
      BY HeldRunning, PTL
    <3>5. QED
      BY <3>3, <3>4
  <2>3. \A g \in Guards, m \in Msgs : OneRunning(g, m)'
    BY <2>2 DEF OneRunning, InTime, Deadline, HasSign
  <2>4. QED
    BY <2>1, <2>3 DEF RunningInv
<1>3. QED
  BY <1>1, <1>2, PTL DEF Spec

\* A guard that was not restarted, and posted every ceremony of a message in
\* time, runs one of them at a time: if tss-api has any time to answer before
\* the entry expires, cleanup never drops the entry of a running ceremony.
THEOREM OneCeremonyHolds ==
  ASSUME ResponseDelay > 0
  PROVE  Spec => []OneCeremony
<1>1. RunningInv => OneCeremony
  <2> SUFFICES ASSUME RunningInv, NEW p \in running, NEW q \in running,
                      p.guard = q.guard, p.msg = q.msg, restartAt[p.guard] = 0,
                      InTime(p.guard, p.msg)
      PROVE  p = q
    BY DEF OneCeremony
  <2>1. p.guard \in Guards /\ p.msg \in Msgs
    BY DEF RunningInv, TypeOK, Post
  <2>2. QED
    BY <2>1 DEF RunningInv, OneRunning
<1>2. QED
  BY <1>1, RunningInvariant, PTL

-----------------------------------------------------------------------------
\* Cached signatures

LEMMA SignedGrows ==
  ASSUME [Next]_vars, NEW m, SignedBy(m)
  PROVE  SignedBy(m)'
<1>1. PICK p \in posts : p.msg = m /\ Complete(p)
  BY DEF SignedBy
<1>2. posts \subseteq posts'
  BY Grow
<1>3. Complete(p)'
  BY <1>1, <1>2 DEF Complete
<1>4. QED
  BY <1>1, <1>2, <1>3 DEF SignedBy

LEMMA CacheInvCaches ==
  ASSUME CacheInv, NEW g \in Guards, NEW m \in cache[g]
  PROVE  SignedBy(m)
  BY DEF CacheInv, CacheSigned, SignedBy

\* What may be new in the caches and in the cached messages after a step.
CachesGrow ==
  /\ running' \subseteq posts'
  /\ \A g \in Guards : \A m \in cache'[g] : m \in cache[g] \/ SignedBy(m)
  /\ \A c \in cacheds' : c \in cacheds \/ SignedBy(c.msg)

LEMMA CachesGrowStep ==
  ASSUME CacheInv, [Next]_vars
  PROVE  CachesGrow
<1> DEFINE Same == UNCHANGED <<cache, cacheds, running, posts>>
<1>1. Same => CachesGrow
  BY DEF CachesGrow, CacheInv
<1>2. ASSUME NEW g \in Guards, NEW r, NEW active, NEW later, NEW queued,
             HandleRequest(g, r, active, later, queued), UNCHANGED <<cache, running, posts>>
      PROVE  CachesGrow
  <2>1. \A c \in cacheds' : c \in cacheds \/ (c.msg = r.msg /\ r.msg \in cache[g])
    BY <1>2 DEF HandleRequest
  <2>2. r.msg \in cache[g] => SignedBy(r.msg)
    BY CacheInvCaches
  <2>3. QED
    BY <1>2, <2>1, <2>2 DEF CachesGrow, CacheInv
<1>3. ASSUME NEW g \in Guards, NEW m \in Msgs, SignMsg(g, m) PROVE CachesGrow
  <2>1. UNCHANGED <<cache, running, posts>>
    BY <1>3 DEF SignMsg
  <2>2. Same \/ \E active, later : HandleRequest(g, pending[g][m], active, later, TRUE)
    BY <1>3 DEF SignMsg
  <2>3. QED
    BY <1>1, <1>2, <2>1, <2>2
<1>4. ASSUME NEW g \in Guards, NEW r \in requests, ReceiveRequest(g, r) PROVE CachesGrow
  <2>1. /\ UNCHANGED <<cache, running, posts>>
        /\ \E active, later : HandleRequest(g, r, active, later, HasUnposted(g, r.msg))
    BY <1>4 DEF ReceiveRequest
  <2>2. QED
    BY <1>2, <2>1
<1>5. ASSUME NEW g \in Guards, NEW w \in waiting[g], Registered(g, w) PROVE CachesGrow
  <2>1. /\ UNCHANGED <<cache, running, posts>>
        /\ \E active, later : HandleRequest(g, w[1], active, later, HasUnposted(g, w[1].msg))
    BY <1>5 DEF Registered
  <2>2. QED
    BY <1>2, <2>1
<1>6. ASSUME NEW g, NEW m, NEW entry, NEW peers, NEW init, NEW guards, NEW timestamp,
             StartSign(g, m, entry, peers, init, guards, timestamp),
             UNCHANGED <<cache, cacheds>>
      PROVE  CachesGrow
  BY <1>6 DEF StartSign, CachesGrow, CacheInv
<1>7. ASSUME NEW g \in Guards, NEW a \in approves, HandleApprove(g, a) PROVE CachesGrow
  <2>1. UNCHANGED <<cache, cacheds>>
    BY <1>7 DEF HandleApprove
  <2>2. \/ Same
        \/ \E entry, peers, guards, timestamp :
             StartSign(g, a.msg, entry, peers, g, guards, timestamp)
    BY <1>7 DEF HandleApprove
  <2>3. QED
    BY <1>1, <1>6, <2>1, <2>2
<1>8. ASSUME NEW g \in Guards, NEW s \in joining[g], Join(g, s) PROVE CachesGrow
  <2>1. UNCHANGED <<cache, cacheds>>
    BY <1>8 DEF Join, net
  <2>2. Same \/ StartSign(g, s.msg, signs[g][s.msg], PeersOf(s), s.from, s.guards, s.timestamp)
    BY <1>8, <2>1 DEF Join
  <2>3. QED
    BY <1>1, <1>6, <2>1, <2>2
<1>9. ASSUME NEW g \in Guards, NEW c \in cacheds, HandleCached(g, c) PROVE CachesGrow
  <2>1. /\ UNCHANGED <<cacheds, running, posts>>
        /\ cache' = [cache EXCEPT ![g] = @ \cup {c.msg}]
    BY <1>9 DEF HandleCached, net
  <2>2. SignedBy(c.msg)
    BY DEF CacheInv
  <2>3. \A h \in Guards : \A m \in cache'[h] : m \in cache[h] \/ m = c.msg
    BY <2>1 DEF CacheInv, TypeOK
  <2>4. QED
    BY <2>1, <2>2, <2>3 DEF CachesGrow, CacheInv
<1>10. ASSUME NEW g \in Guards, (\E m \in Msgs : CacheExpires(g, m)) \/ Crash(g)
       PROVE  CachesGrow
  <2>1. UNCHANGED <<cacheds, running, posts>>
    BY <1>10 DEF CacheExpires, Crash, net
  <2>2. \A h \in Guards : cache'[h] \subseteq cache[h]
    BY <1>10 DEF CacheExpires, Crash, CacheInv, TypeOK
  <2>3. QED
    BY <2>1, <2>2 DEF CachesGrow, CacheInv
<1>11. ASSUME NEW p \in running, NEW ok \in BOOLEAN, HandleSignData(p, ok) PROVE CachesGrow
  <2>1. /\ UNCHANGED <<cacheds, posts>> /\ running' = running \ {p}
        /\ ok => Complete(p)
    BY <1>11 DEF HandleSignData, net
  <2>2. \A h \in Guards : \A m \in cache'[h] : m \in cache[h] \/ (ok /\ m = p.msg)
    BY <1>11 DEF HandleSignData, CacheInv, TypeOK
  <2>3. ok => SignedBy(p.msg)
    <3>1. p \in posts
      BY DEF CacheInv
    <3>2. QED
      BY <2>1, <3>1 DEF SignedBy
  <2>4. running' \subseteq posts'
    BY <2>1 DEF CacheInv
  <2>5. \A h \in Guards : \A m \in cache'[h] : m \in cache[h] \/ SignedBy(m)
    BY <2>2, <2>3
  <2>6. QED
    BY <2>1, <2>4, <2>5 DEF CachesGrow
<1>12. ASSUME NEW p \in running, PostFails(p) \/ ResultLost(p) PROVE CachesGrow
  BY <1>12 DEF PostFails, ResultLost, net, CachesGrow, CacheInv
<1>13. ASSUME \/ Tick \/ UNCHANGED vars
              \/ \E g \in Guards :
                   \/ UpdateCleanup(g) \/ UpdateThreshold(g) \/ UpdateRequest(g)
                   \/ \E s \in starts : HandleStart(g, s)
       PROVE  Same
  BY <1>13 DEF Tick, vars, net, UpdateCleanup, UpdateThreshold, UpdateRequest, HandleStart
<1> HIDE DEF Same
<1>14. QED
  BY <1>1, <1>3, <1>4, <1>5, <1>7, <1>8, <1>9, <1>10, <1>11, <1>12, <1>13 DEF Next

LEMMA CacheStep ==
  ASSUME CacheInv, [Next]_vars
  PROVE  CacheInv'
<1>1. TypeOK' /\ CachesGrow
  BY TypeStep, CachesGrowStep DEF CacheInv
<1>2. \A g \in Guards : \A m \in cache'[g] : SignedBy(m)'
  <2>1. \A g \in Guards : \A m \in cache'[g] : SignedBy(m)
    BY <1>1, CacheInvCaches DEF CachesGrow
  <2>2. QED
    BY <2>1, SignedGrows
<1>3. CacheSigned'
  BY <1>2 DEF CacheSigned, SignedBy
<1>4. \A c \in cacheds' : SignedBy(c.msg)'
  <2>1. \A c \in cacheds' : SignedBy(c.msg)
    BY <1>1 DEF CachesGrow, CacheInv
  <2>2. QED
    BY <2>1, SignedGrows
<1>5. QED
  BY <1>1, <1>3, <1>4 DEF CacheInv, CachesGrow, SignedBy

\* A guard caches a message as signed, or learns from another that it is, only
\* after a ceremony of it that all its peers took part in, whatever results
\* fail, come late or are matched to another entry.
THEOREM CacheSignedHolds == Spec => []CacheSigned
<1>1. Init => CacheInv
  BY TypeInit DEF Init, CacheInv, CacheSigned
<1>2. CacheInv /\ [Next]_vars => CacheInv'
  BY CacheStep
<1>3. CacheInv => CacheSigned
  BY DEF CacheInv
<1>4. QED
  BY <1>1, <1>2, <1>3, PTL DEF Spec
=============================================================================
