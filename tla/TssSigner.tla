----------------------------- MODULE TssSigner -----------------------------
(***************************************************************************)
(* The signing protocol of packages/tss: N guards, each running one        *)
(* TssSigner, agree on who takes part in a threshold signature ceremony    *)
(* and hand the ceremony to their own tss-api.                             *)
(*                                                                         *)
(* A handler of TssSigner.ts is one atomic action here, except where it    *)
(* checks the turn and acts on that after an await: update and             *)
(* handleStartMessage are split there.  (SignQueue.tla splits all handlers *)
(* at their awaits, for one guard.)  The messages sent are kept in four    *)
(* growing sets: a message may be received late, twice, out of order or    *)
(* never.  A signature stands for what it signs, and the array index of a  *)
(* guard stands for its public key.                                        *)
(***************************************************************************)
EXTENDS Integers, FiniteSets

CONSTANTS
  N,                  \* number of guards
  Msgs,               \* messages the application may ask to sign
  Peers,              \* p2p identifiers
  Views,              \* Views[g]: the answers detection.activeGuards() may give g
  Threshold,          \* tss-api's threshold + 1
  ThresholdMayFail,   \* whether GET /threshold may fail
  TurnDuration, TurnNoWork, Timeout, ResponseDelay, MessageValid,
  SignPerRoundLimit,
  StartTime,          \* time at which the system starts
  MaxTime,            \* BOUND: time at which the model stops
  MaxFaults,          \* BOUND: number of faults (restarts, failed or
                      \* unreported ceremonies, expired cache entries)
  None                \* undefined

Guards == 0 .. N - 1

\* What detection knows of a guard it believes active (ActiveGuard).
ActiveGuard == [guard : Guards, peer : Peers]

ASSUME SizeAssumption == N \in Nat \ {0} /\ Threshold \in Nat

ASSUME TimeAssumption ==
  /\ TurnDuration \in Nat \ {0}
  /\ TurnNoWork \in Nat
  /\ Timeout \in Nat
  /\ ResponseDelay \in Nat
  /\ MessageValid \in Nat
  /\ StartTime \in Nat /\ MaxTime \in Nat
  /\ SignPerRoundLimit \in Nat
  /\ MaxFaults \in Nat

\* A guard always lists itself, and lists no guard twice (GuardDetection.ts,
\* activeGuards).
ASSUME ViewsAssumption ==
  /\ Views \in [Guards -> SUBSET SUBSET ActiveGuard]
  /\ \A g \in Guards : \A active \in Views[g] :
       /\ \E a \in active : a.guard = g
       /\ \A a, b \in active : a.guard = b.guard => a = b

VARIABLES
  now,        \* the clock of all guards, in seconds
  requests,   \* request messages sent (broadcast)
  approves,   \* approve messages sent
  starts,     \* start messages sent
  cacheds,    \* cached messages sent
  signs,      \* signs[g][m]: entry of m in g's signing queue
  pending,    \* pending[g][m]: request for m that g keeps for later
  waiting,    \* waiting[g]: requests g handles again once a guard registers
  cache,      \* cache[g]: messages g has the signature of
  threshold,  \* threshold[g]: -1 until g has fetched it
  lastRound,  \* lastRound[g]: round of g's last requests
  updating,   \* updating[g]: update of g found its turn, and has not ended
  joining,    \* joining[g]: start messages g accepted, and has not acted on
  restartAt,  \* restartAt[g]: g is down before this time
  faults,     \* faults so far
  running,    \* ceremonies running in the guards' tss-apis
  posts       \* every ceremony ever handed to a tss-api (history)

net == <<requests, approves, starts, cacheds>>
vars == <<now, net, signs, pending, waiting, cache, threshold, lastRound,
          updating, joining, restartAt, faults, running, posts>>

-----------------------------------------------------------------------------
\* Records

\* Fields of a request, common to everything said about it.
Request == [from : Guards, msg : Msgs, guards : SUBSET ActiveGuard, timestamp : Nat]

\* g's signature on an approval of the request of guard init.  It is also the
\* content of the approve message, which is sent to init.
Signature == [from : Guards, msg : Msgs, guards : SUBSET ActiveGuard,
              init : Guards, timestamp : Nat]

Sigs == [Guards -> Signature \cup {None}]

Start == [from : Guards, to : SUBSET Guards, msg : Msgs, sigs : Sigs,
          guards : SUBSET ActiveGuard, timestamp : Nat]

Cached == [from : Guards, to : Guards, msg : Msgs, timestamp : Nat]

Entry == [request : [guards : SUBSET ActiveGuard, timestamp : Nat] \cup {None},
          sigs : Sigs, addedTime : Nat, posted : BOOLEAN]

Post == [guard : Guards, msg : Msgs, peers : SUBSET ActiveGuard, init : Guards,
         guards : SUBSET ActiveGuard, timestamp : Nat, at : Nat, deadline : Int]

\* What is absent is told from any signature and from any entry.
ASSUME NoneAssumption == None \notin Signature /\ None \notin Entry

NoSigs == [g \in Guards |-> None]

-----------------------------------------------------------------------------
\* Time

Round(t) == t \div TurnDuration
TurnAt(t) == Round(t) % N
Turn == TurnAt(now)
NoWorkTime == (Round(now) + 1) * TurnDuration - now <= TurnNoWork

Fresh(timestamp) == now - MessageValid <= timestamp

Up(g) == restartAt[g] <= now

-----------------------------------------------------------------------------
\* Queries

HasSign(g, m) == signs[g][m] # None
\* Mutant: getSign returns posted entries too.
HasAny(g, m) == HasSign(g, m)

HasUnposted(g, m) == HasSign(g, m) /\ ~signs[g][m].posted

\* Mutant: an approval that does not name the initiator.
SignedNoInit(g, m, guards, init, timestamp) ==
  [from |-> g, msg |-> m, guards |-> guards, timestamp |-> timestamp]

Signed(g, m, guards, init, timestamp) ==
  [from |-> g, msg |-> m, guards |-> guards, init |-> init, timestamp |-> timestamp]

\* Mutant: a signature counts whatever request it approves.
ApprovedAny(m, guards, init, timestamp, sigs) ==
  {a \in guards : sigs[a.guard] # None}

\* The guards of a request whose signature on its approval is among sigs.
ApprovedGuards(m, guards, init, timestamp, sigs) ==
  {a \in guards : sigs[a.guard] = Signed(a.guard, m, guards, init, timestamp)}

InvalidGuards(guards, active) ==
  {a \in guards : \E b \in active : b.guard = a.guard /\ b.peer # a.peer}
UnknownGuards(guards, active) ==
  {a \in guards : \A b \in active : b.guard # a.guard}

-----------------------------------------------------------------------------
TypeOK ==
  /\ now \in Nat
  /\ requests \subseteq Request
  /\ approves \subseteq Signature
  /\ starts \subseteq Start
  /\ cacheds \subseteq Cached
  /\ signs \in [Guards -> [Msgs -> Entry \cup {None}]]
  /\ pending \in [Guards -> [Msgs -> Request \cup {None}]]
  /\ waiting \in [Guards -> SUBSET (Request \X Guards)]
  /\ cache \in [Guards -> SUBSET Msgs]
  /\ threshold \in [Guards -> Nat \cup {-1}]
  /\ lastRound \in [Guards -> Nat]
  /\ updating \in [Guards -> BOOLEAN]
  /\ joining \in [Guards -> SUBSET Start]
  /\ restartAt \in [Guards -> Nat]
  /\ faults \in Nat
  /\ running \subseteq Post
  /\ posts \subseteq Post

Init ==
  /\ now = StartTime
  /\ requests = {} /\ approves = {} /\ starts = {} /\ cacheds = {}
  /\ signs = [g \in Guards |-> [m \in Msgs |-> None]]
  /\ pending = [g \in Guards |-> [m \in Msgs |-> None]]
  /\ waiting = [g \in Guards |-> {}]
  /\ cache = [g \in Guards |-> {}]
  /\ threshold = [g \in Guards |-> -1]
  /\ lastRound = [g \in Guards |-> 0]
  /\ updating = [g \in Guards |-> FALSE]
  /\ joining = [g \in Guards |-> {}]
  /\ restartAt = [g \in Guards |-> 0]
  /\ faults = 0
  /\ running = {} /\ posts = {}

-----------------------------------------------------------------------------
\* Handling a request

Rejected(r, active) == Turn # r.from \/ InvalidGuards(r.guards, active) # {}

\* Guard g handles request r; queued says whether r.msg is in its queue and not
\* posted yet.  It believes the guards of active to be active when it looks for
\* invalid ones, those of later when it looks for unknown ones.
HandleRequest(g, r, active, later, queued) ==
  LET cached == r.msg \in cache[g]
  IN \/ /\ Rejected(r, active)
        /\ UNCHANGED <<approves, cacheds, pending>>
     \/ /\ ~Rejected(r, active) /\ cached
        /\ cacheds' = cacheds \cup {[from |-> g, to |-> r.from, msg |-> r.msg,
                                     timestamp |-> r.timestamp]}
        /\ UNCHANGED <<approves, pending>>
     \/ /\ ~Rejected(r, active) /\ ~cached /\ queued
        /\ approves' = IF UnknownGuards(r.guards, later) = {}
                       THEN approves \cup
                            {Signed(g, r.msg, r.guards, r.from, r.timestamp)}
                       ELSE approves
        /\ UNCHANGED <<cacheds, pending>>
     \/ /\ ~Rejected(r, active) /\ ~cached /\ ~queued
        /\ pending' = [pending EXCEPT ![g][r.msg] = r]
        /\ UNCHANGED <<approves, cacheds>>

\* The guards that handling r has g register: r is handled again, without
\* registering, when one of them is.
Registrations(g, r, active, later, queued) ==
  IF Rejected(r, active) \/ r.msg \in cache[g] \/ ~queued THEN {}
  ELSE {<<r, a.guard>> : a \in UnknownGuards(r.guards, later)}

-----------------------------------------------------------------------------
\* Calls of the application

\* sign(m): queue m, and take up the request that came too early for it.
\* A message in the queue is refused; a cached one is answered at once.
SignMsg(g, m) ==
  /\ Up(g)
  /\ ~HasSign(g, m)
  /\ m \notin cache[g]
  /\ signs' = [signs EXCEPT ![g][m] =
                 [request |-> None, sigs |-> NoSigs, addedTime |-> now, posted |-> FALSE]]
  /\ \/ /\ pending[g][m] = None
        /\ UNCHANGED <<approves, cacheds, pending, waiting>>
     \/ /\ pending[g][m] # None
        /\ \E active, later \in Views[g] :
             /\ HandleRequest(g, pending[g][m], active, later, TRUE)
             /\ waiting' = [waiting EXCEPT ![g] =
                              @ \cup Registrations(g, pending[g][m], active, later, TRUE)]
  /\ UNCHANGED <<now, requests, starts, cache, threshold, lastRound, updating,
                 joining, restartAt, faults, running, posts>>

\* cleanup: drop the entries that timed out and the requests of past turns.
CleanSigns(g) ==
  [m \in Msgs |-> IF HasSign(g, m) /\ signs[g][m].addedTime > now - Timeout
                  THEN signs[g][m] ELSE None]
CleanPending(g) ==
  [m \in Msgs |-> IF pending[g][m] # None /\ pending[g][m].from = Turn
                  THEN pending[g][m] ELSE None]

\* The entries queue.slice(0, signPerRoundLimit), which is in order of arrival.
FirstSigns(queue) ==
  LET queued == {m \in Msgs : queue[m] # None}
  IN {first \in SUBSET queued :
        /\ Cardinality(first) <= SignPerRoundLimit
        /\ first = queued \/ Cardinality(first) = SignPerRoundLimit
        /\ \A m \in first, k \in queued \ first : queue[m].addedTime <= queue[k].addedTime}

\* Mutant: tss-api's threshold is not increased by one.
FetchedPlain(g) == {Threshold - 1}

\* updateThreshold: the values g may go on with.
FetchedThreshold(g) ==
  {Threshold} \cup (IF ThresholdMayFail THEN {threshold[g]} ELSE {})

\* Mutant: the round of the last requests is not looked at.
NewAlways(g) == TRUE

NewRound(g) == Round(now) # lastRound[g]

\* update up to its first await of others: it cleans up, and goes on if it is
\* g's turn and something is queued.  It is called again once it has ended.
UpdateCleanup(g) ==
  /\ Up(g) /\ ~updating[g]
  /\ signs' = [signs EXCEPT ![g] = CleanSigns(g)]
  /\ pending' = [pending EXCEPT ![g] = CleanPending(g)]
  /\ updating' = [updating EXCEPT ![g] =
                    Turn = g /\ \E m \in Msgs : CleanSigns(g)[m] # None]
  /\ UNCHANGED <<now, net, waiting, cache, threshold, lastRound, joining,
                 restartAt, faults, running, posts>>

\* update goes on, and ends when too few guards are active or the round's
\* requests are sent.
UpdateThreshold(g) ==
  /\ Up(g) /\ updating[g]
  /\ \E value \in FetchedThreshold(g), active \in Views[g] :
       /\ Cardinality(active) < value \/ ~NewRound(g)
       /\ threshold' = [threshold EXCEPT ![g] = value]
  /\ updating' = [updating EXCEPT ![g] = FALSE]
  /\ UNCHANGED <<now, net, signs, pending, waiting, cache, lastRound, joining,
                 restartAt, faults, running, posts>>

\* The requests for the messages of new, sent to all guards.
RequestsFor(g, new, active) ==
  {[from |-> g, msg |-> m, guards |-> active, timestamp |-> now] : m \in new}

\* The initiator's signature is the only one, for a start.
OwnSig(g, m, active) ==
  [h \in Guards |-> IF h = g THEN Signed(g, m, active, g, now) ELSE None]

\* The queue, with these requests in the entries of new.
Requested(g, queue, new, active) ==
  [m \in Msgs |->
     IF m \in new
     THEN [queue[m] EXCEPT !.request = [guards |-> active, timestamp |-> now],
                           !.sigs = OwnSig(g, m, active)]
     ELSE queue[m]]

\* update goes on, and opens the round: it requests the first messages of the
\* queue from every guard, and signs the approval of these requests itself.  The
\* turn may be another's by now.
UpdateRequest(g) ==
  /\ Up(g) /\ updating[g]
  /\ NewRound(g)
  /\ \E value \in FetchedThreshold(g), active \in Views[g], first \in FirstSigns(signs[g]) :
       LET new == {m \in first : ~signs[g][m].posted}
       IN /\ Cardinality(active) >= value
          /\ threshold' = [threshold EXCEPT ![g] = value]
          /\ requests' = requests \cup RequestsFor(g, new, active)
          /\ signs' = [signs EXCEPT ![g] = Requested(g, signs[g], new, active)]
  /\ lastRound' = [lastRound EXCEPT ![g] = Round(now)]
  /\ updating' = [updating EXCEPT ![g] = FALSE]
  /\ UNCHANGED <<now, approves, starts, cacheds, pending, waiting, cache, joining,
                 restartAt, faults, running, posts>>

-----------------------------------------------------------------------------
\* Messages and callbacks

\* A request arrives.
ReceiveRequest(g, r) ==
  /\ Up(g)
  /\ r \in requests /\ r.from # g /\ Fresh(r.timestamp)
  /\ \E active, later \in Views[g] :
       /\ HandleRequest(g, r, active, later, HasUnposted(g, r.msg))
       /\ waiting' = [waiting EXCEPT ![g] =
                        @ \cup Registrations(g, r, active, later, HasUnposted(g, r.msg))]
  /\ UNCHANGED <<now, requests, starts, signs, cache, threshold, lastRound,
                 updating, joining, restartAt, faults, running, posts>>

\* A guard that g had to register to answer request w[1] is registered.
Registered(g, w) ==
  /\ Up(g)
  /\ w \in waiting[g]
  /\ \E active, later \in Views[g] :
       HandleRequest(g, w[1], active, later, HasUnposted(g, w[1].msg))
  /\ waiting' = [waiting EXCEPT ![g] = @ \ {w}]
  /\ UNCHANGED <<now, requests, starts, signs, cache, threshold, lastRound,
                 updating, joining, restartAt, faults, running, posts>>

\* Mutant: the operation is given the whole timeout again.
DeadlineFromNow(entry) == now + Timeout - ResponseDelay

\* End of the operationTimeout given to tss-api.
Deadline(entry) == entry.addedTime + Timeout - ResponseDelay

\* startSign: g hands the ceremony of the guards peers, agreed on in init's
\* request, to its tss-api, and marks the queue's entry posted.
StartSign(g, m, entry, peers, init, guards, timestamp) ==
  LET post == [guard |-> g, msg |-> m, peers |-> peers, init |-> init,
               guards |-> guards, timestamp |-> timestamp, at |-> now,
               deadline |-> Deadline(entry)]
  IN /\ signs' = [signs EXCEPT ![g][m] = [entry EXCEPT !.posted = TRUE]]
     /\ running' = running \cup {post}
     /\ posts' = posts \cup {post}

\* Mutant: all the guards of the request are told to start.
ReceiversInvited(g, guards, approved) == {b.guard : b \in guards} \ {g}

\* Who the initiator g tells to start.
Receivers(g, guards, approved) == {b.guard : b \in approved} \ {g}

\* An approval a of g's request arrives: g collects it, and starts the
\* ceremony once enough guards approved the request it made last.
HandleApprove(g, a) ==
  /\ Up(g)
  /\ a \in approves /\ a.init = g /\ Fresh(a.timestamp)
  /\ HasUnposted(g, a.msg)
  /\ signs[g][a.msg].request # None
  /\ ~NoWorkTime
  /\ LET entry == [signs[g][a.msg] EXCEPT !.sigs[a.from] = a]
         req == entry.request
         approved == ApprovedGuards(a.msg, req.guards, g, req.timestamp, entry.sigs)
     IN \/ /\ Cardinality(approved) >= threshold[g]
           /\ starts' = starts \cup
                {[from |-> g, to |-> Receivers(g, req.guards, approved), msg |-> a.msg,
                  sigs |-> entry.sigs, guards |-> req.guards, timestamp |-> req.timestamp]}
           /\ StartSign(g, a.msg, entry, approved, g, req.guards, req.timestamp)
        \/ /\ Cardinality(approved) < threshold[g]
           /\ signs' = [signs EXCEPT ![g][a.msg] = entry]
           /\ UNCHANGED <<starts, running, posts>>
  /\ UNCHANGED <<now, requests, approves, cacheds, pending, waiting, cache,
                 threshold, lastRound, updating, joining, restartAt, faults>>

\* Mutant: a start message is accepted in anyone's turn.
MayJoinAnyTurn(g, s) == \E a \in s.guards : a.guard = g

\* Start message s comes in its sender's turn and concerns g.
MayJoin(g, s) == Turn = s.from /\ \E a \in s.guards : a.guard = g

\* Mutant: the peers are all the guards of the request.
PeersInvited(s) == s.guards

\* The peers of the ceremony that start message s starts.
PeersOf(s) == ApprovedGuards(s.msg, s.guards, s.from, s.timestamp, s.sigs)

\* A start message arrives: g accepts it if it carries enough valid approvals.
\* What it awaits then takes any time: the mutex may be held for another
\* message until tss-api has answered.  (A copy that comes meanwhile is ignored.)
HandleStart(g, s) ==
  /\ Up(g)
  /\ s \in starts /\ g \in s.to /\ Fresh(s.timestamp)
  /\ HasUnposted(g, s.msg)
  /\ MayJoin(g, s)
  /\ Cardinality(PeersOf(s)) >= threshold[g]
  /\ joining' = [joining EXCEPT ![g] = @ \cup {s}]
  /\ UNCHANGED <<now, net, signs, pending, waiting, cache, threshold, lastRound,
                 updating, restartAt, faults, running, posts>>

\* g acts on a start message it accepted: it joins the ceremony if an entry of
\* the message is still, or again, in its queue and not posted.
Join(g, s) ==
  /\ Up(g)
  /\ s \in joining[g]
  /\ joining' = [joining EXCEPT ![g] = @ \ {s}]
  /\ \/ /\ HasUnposted(g, s.msg)
        /\ StartSign(g, s.msg, signs[g][s.msg], PeersOf(s), s.from, s.guards, s.timestamp)
     \/ /\ ~HasUnposted(g, s.msg)
        /\ UNCHANGED <<signs, running, posts>>
  /\ UNCHANGED <<now, net, pending, waiting, cache, threshold, lastRound, updating,
                 restartAt, faults>>

\* The initiator is told that the message is signed already.  It asks tss-api
\* to verify the signature; failing to is the same as losing the message.
HandleCached(g, c) ==
  /\ Up(g)
  /\ c \in cacheds /\ c.to = g /\ Fresh(c.timestamp)
  /\ HasUnposted(g, c.msg)
  /\ cache' = [cache EXCEPT ![g] = @ \cup {c.msg}]
  /\ signs' = [signs EXCEPT ![g][c.msg] = None]
  /\ UNCHANGED <<now, net, pending, waiting, threshold, lastRound, updating,
                 joining, restartAt, faults, running, posts>>

-----------------------------------------------------------------------------
\* tss-api and the environment

Fault == faults < MaxFaults /\ faults' = faults + 1

\* All the peers of ceremony p take part in it: only then can it succeed.
Complete(p) ==
  \A a \in p.peers : \E q \in posts :
    /\ q.guard = a.guard
    /\ q.msg = p.msg /\ q.peers = p.peers

\* Mutant: the message is cached whatever the outcome.
HandleSignDataCaching(p, ok) ==
  /\ p \in running
  /\ IF ok THEN Complete(p) /\ UNCHANGED faults ELSE Fault
  /\ running' = running \ {p}
  /\ LET g == p.guard
         known == Up(g) /\ HasSign(g, p.msg) /\ signs[g][p.msg].posted
     IN /\ signs' = IF known THEN [signs EXCEPT ![g][p.msg] = None] ELSE signs
        /\ cache' = IF known THEN [cache EXCEPT ![g] = @ \cup {p.msg}] ELSE cache
  /\ UNCHANGED <<now, net, pending, waiting, threshold, lastRound, updating,
                 joining, restartAt, posts>>

\* tss-api reports the outcome of ceremony p.  The result is matched to the
\* queue by the message alone, and refused if no entry of it is posted.
HandleSignData(p, ok) ==
  /\ p \in running
  /\ IF ok THEN Complete(p) /\ UNCHANGED faults ELSE Fault
  /\ running' = running \ {p}
  /\ LET g == p.guard
         known == Up(g) /\ HasSign(g, p.msg) /\ signs[g][p.msg].posted
     IN /\ signs' = IF known THEN [signs EXCEPT ![g][p.msg] = None] ELSE signs
        /\ cache' = IF known /\ ok THEN [cache EXCEPT ![g] = @ \cup {p.msg}] ELSE cache
  /\ UNCHANGED <<now, net, pending, waiting, threshold, lastRound, updating,
                 joining, restartAt, posts>>

\* tss-api refuses ceremony p, or cannot be reached.
PostFails(p) ==
  /\ p \in running
  /\ Up(p.guard)
  /\ Fault
  /\ running' = running \ {p}
  /\ signs' = [signs EXCEPT ![p.guard][p.msg] = None]
  /\ UNCHANGED <<now, net, pending, waiting, cache, threshold, lastRound, updating,
                 joining, restartAt, posts>>

\* The report of p's outcome does not arrive: tss-api only logs that a call
\* failed, or dies.  The entry stays posted until it is cleaned up.
ResultLost(p) ==
  /\ p \in running
  /\ Fault
  /\ running' = running \ {p}
  /\ UNCHANGED <<now, net, signs, pending, waiting, cache, threshold, lastRound,
                 updating, joining, restartAt, posts>>

\* A signature has been in the cache for signCacheTTLSeconds.
CacheExpires(g, m) ==
  /\ m \in cache[g]
  /\ Fault
  /\ cache' = [cache EXCEPT ![g] = @ \ {m}]
  /\ UNCHANGED <<now, net, signs, pending, waiting, threshold, lastRound, updating,
                 joining, restartAt, running, posts>>

\* The process of g dies, and starts anew a second later or after.
Crash(g) ==
  /\ Up(g)
  /\ Fault
  /\ restartAt' = [restartAt EXCEPT ![g] = now + 1]
  /\ signs' = [signs EXCEPT ![g] = [m \in Msgs |-> None]]
  /\ pending' = [pending EXCEPT ![g] = [m \in Msgs |-> None]]
  /\ waiting' = [waiting EXCEPT ![g] = {}]
  /\ cache' = [cache EXCEPT ![g] = {}]
  /\ threshold' = [threshold EXCEPT ![g] = -1]
  /\ lastRound' = [lastRound EXCEPT ![g] = 0]
  /\ updating' = [updating EXCEPT ![g] = FALSE]
  /\ joining' = [joining EXCEPT ![g] = {}]
  /\ UNCHANGED <<now, net, running, posts>>

\* Time passes.  tss-api ends a ceremony at its operationTimeout at the latest.
Tick ==
  /\ now < MaxTime
  /\ \A p \in running : now < p.deadline
  /\ now' = now + 1
  /\ UNCHANGED <<net, signs, pending, waiting, cache, threshold, lastRound, updating,
                 joining, restartAt, faults, running, posts>>

Next ==
  \/ Tick
  \/ \E g \in Guards :
       \/ \E m \in Msgs : SignMsg(g, m) \/ CacheExpires(g, m)
       \/ UpdateCleanup(g) \/ UpdateThreshold(g) \/ UpdateRequest(g)
       \/ \E r \in requests : ReceiveRequest(g, r)
       \/ \E w \in waiting[g] : Registered(g, w)
       \/ \E a \in approves : HandleApprove(g, a)
       \/ \E s \in starts : HandleStart(g, s)
       \/ \E s \in joining[g] : Join(g, s)
       \/ \E c \in cacheds : HandleCached(g, c)
       \/ Crash(g)
  \/ \E p \in running :
       PostFails(p) \/ ResultLost(p) \/ \E ok \in BOOLEAN : HandleSignData(p, ok)

Spec == Init /\ [][Next]_vars

-----------------------------------------------------------------------------
\* Properties

\* Guard h agreed to the request that p was agreed on in: it made the request,
\* or it sent its approval of it.
Agreed(h, p) ==
  IF h = p.init
  THEN [from |-> h, msg |-> p.msg, guards |-> p.guards, timestamp |-> p.timestamp]
         \in requests
  ELSE Signed(h, p.msg, p.guards, p.init, p.timestamp) \in approves

\* A guard is listed in a ceremony only if it agreed to the very request, with
\* the same set of guards and the same timestamp (getApprovedGuards), whatever
\* approvals of other rounds are still under way.
PeersAgreed ==
  \A p \in posts : \A a \in p.peers : a \in p.guards /\ Agreed(a.guard, p)

\* Guards that start the ceremony of one request start it with the same list
\* of peers, the one initiated by the guard who made it; otherwise tss-api
\* could not complete it (handleApproveMessage, handleStartMessage).
SamePeers ==
  \A p, q \in posts :
    p.msg = q.msg /\ p.init = q.init /\ p.timestamp = q.timestamp
      => p.peers = q.peers

\* Nobody starts a ceremony it is not a peer of, nor one that the initiator
\* did not start itself.
StartedTogether ==
  \A p \in posts :
    /\ \E a \in p.peers : a.guard = p.guard
    /\ \E q \in posts : q.guard = p.init /\ q.init = p.init /\ q.msg = p.msg
                        /\ q.timestamp = p.timestamp

\* A ceremony has at least as many peers as the key's threshold asks for.
QuorumStart == \A p \in posts : Cardinality(p.peers) >= Threshold

\* A start message is accepted only in the round of its request, if the request
\* was made in the turn of its sender: the initiator's turn that the guard finds
\* it to be is the same one, however late the message and whoever restarted.
\* (Needs MessageValid <= (N - 1) * TurnDuration.  The guard may join later.)
AcceptedInRound ==
  [][\A g \in Guards : \A s \in joining'[g] \ joining[g] :
       TurnAt(s.timestamp) = s.from => Round(now) = Round(s.timestamp)]_vars

\* The requests that g made in round k, since its last restart.
RequestsOfRound(g, k) ==
  {r \in requests : r.from = g /\ Round(r.timestamp) = k /\ r.timestamp >= restartAt[g]}

\* In one life, a guard makes at most signPerRoundLimit requests per round,
\* however often update runs, and whatever left the queue or joined it meanwhile.
RoundLimit ==
  \A r \in requests :
    Cardinality(RequestsOfRound(r.from, Round(r.timestamp))) <= SignPerRoundLimit

\* Every ceremony of m that g handed to its tss-api was given some time.
InTime(g, m) ==
  \A p \in posts : p.guard = g /\ p.msg = m => p.at < p.deadline

\* A guard that was not restarted never runs two ceremonies of one message at a
\* time: the operationTimeout given to tss-api ends before cleanup lets the
\* message be queued again.  (A ceremony started after the end of its own time
\* may meet the next one, and its result end the next one's entry.)
OneCeremony ==
  \A p, q \in running :
    /\ p.guard = q.guard /\ p.msg = q.msg
    /\ restartAt[p.guard] = 0 /\ InTime(p.guard, p.msg)
    => p = q

\* A signature in a cache comes from a ceremony all of whose peers took part.
CacheSigned ==
  \A g \in Guards : \A m \in cache[g] : \E p \in posts : p.msg = m /\ Complete(p)

-----------------------------------------------------------------------------
\* Refinement

RequestOf(p) ==
  [from |-> p.init, msg |-> p.msg, guards |-> p.guards, timestamp |-> p.timestamp]

\* What the guards said and did, in the terms of Ceremony.
agreed == {<<r.from, r>> : r \in requests} \cup {<<a.from, RequestOf(a)>> : a \in approves}
started == {[guard |-> p.guard, request |-> RequestOf(p), peers |-> p.peers] : p \in posts}

C == INSTANCE Ceremony WITH Guard <- Guards, requested <- requests,
       agreed <- agreed, started <- started

\* The protocol implements the abstract ceremony: whatever messages are lost,
\* repeated or late, a request's ceremony is started once, by enough guards
\* that agreed, and joined with the same peers.
Implements == C!Spec
=============================================================================
