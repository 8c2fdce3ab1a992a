------------------------- MODULE KeygenServiceProofs -------------------------
(*****************************************************************************)
(* Theorems about the keygen service and its dialer, for any guards, relays, *)
(* applications and retries, and their proofs.                               *)
(*****************************************************************************)
EXTENDS KeygenService, FiniteSetTheorems, TLAPS

\* A node that started with a file, or has written it, is who the file says;
\* the guard was named as nobody else; and the call is only made with a node.
Identity ==
  /\ node = "on" /\ file # 0 => peerId = file
  /\ named \subseteq {file} /\ (file = 0 => named = {})
  /\ keygen = "ready" => node = "on"

\* Before the node is started, nobody is connected and relays have addresses.
Watched == RelaysWatched /\ (node = "off" => connected = {} /\ Relays \subseteq book)

\* The inductive invariant.
Inv == TypeOK /\ Identity /\ Watched

-----------------------------------------------------------------------------
\* A broadcast names every connected guard as often as it has places: the
\* sequence it is made from has its elements in the set.
LEMMA SeqOfSet ==
  ASSUME NEW S, IsFiniteSet(S), NEW T, S \subseteq T
  PROVE  SetToSeq(S) \in Seq(T)
<1>1. Cardinality(S) \in Nat
  BY FS_CardinalityType
<1>2. \E f \in [1 .. Cardinality(S) -> S] : IsInjective(f)
  <2>1. PICK f : f \in Bijection(1 .. Cardinality(S), S)
    BY <1>1, FS_CardinalityType DEF ExistsBijection
  <2>. QED
    BY <2>1 DEF Bijection, Injection, IsInjective
<1>3. SetToSeq(S) \in [1 .. Cardinality(S) -> S]
  BY <1>2 DEF SetToSeq
<1>. HIDE DEF SetToSeq
<1>4. SetToSeq(S) \in [1 .. Cardinality(S) -> T]
  BY <1>3
<1>. QED
  BY <1>1, <1>4

LEMMA PostedType ==
  ASSUME TypeOK, NEW m \in QueuedMessage
  PROVE  Posted(m) \in [Urls -> Nat]
<1> SUFFICES ASSUME NEW u \in Urls
             PROVE  posts[m.id][u] + Cardinality({k \in 1 .. Len(subs[m.peer]) : subs[m.peer][k] = u}) \in Nat
  BY DEF Posted
<1> DEFINE K == {k \in 1 .. Len(subs[m.peer]) : subs[m.peer][k] = u}
<1>1. m.id \in Ids /\ m.peer \in Listeners
  BY DEF QueuedMessage
<1>2. Len(subs[m.peer]) \in Nat /\ posts[m.id][u] \in Nat
  BY <1>1 DEF TypeOK
<1>3. Cardinality(K) \in Nat
  <2>1. IsFiniteSet(1 .. Len(subs[m.peer]))
    BY <1>2, FS_Interval
  <2>. QED
    BY <2>1, FS_Subset, FS_CardinalityType
<1>. QED
  BY <1>2, <1>3

-----------------------------------------------------------------------------
LEMMA InitInv == ServiceInit => Inv
<1> SUFFICES ASSUME ServiceInit PROVE Inv
  OBVIOUS
<1>1. TypeOK
  BY DialerAssumption DEF ServiceInit, Init, Idle, TypeOK, NoRoute, NoMessage
<1>2. Identity /\ Watched
  BY DEF ServiceInit, Init, Idle, Identity, Watched, RelaysWatched
<1>. QED
  BY <1>1, <1>2 DEF Inv

-----------------------------------------------------------------------------
\* Types, by the variables that the actions of the dialer change.
LEMMA TypeIdentity ==
  ASSUME TypeOK, GetInstance \/ SavePeerIdIfNeeded, UNCHANGED <<tss, keygen, p2pIDs, named>>
  PROVE  TypeOK'
<1>1. peerId' \in Nat /\ created' \in Nat /\ file' \in Nat /\ node' \in {"off", "on", "failed"}
  BY DEF TypeOK, GetInstance, StartDialer, GetOrCreatePeerID, SavePeerIdIfNeeded
<1>. QED
  BY <1>1 DEF TypeOK, GetInstance, SavePeerIdIfNeeded, messages, streams, peers, applications

LEMMA TypeMessages ==
  ASSUME TypeOK, UNCHANGED <<tss, keygen, p2pIDs, named>>,
         \/ Broadcast \/ Take \/ OpenStreamFails
         \/ \E p \in Listeners : Send(p)
         \/ \E m \in timers : RetryDue(m)
  PROVE  TypeOK'
<1>1. /\ queue \in Seq(QueuedMessage) /\ cur \in QueuedMessage \cup {NoMessage}
      /\ timers \subseteq QueuedMessage /\ sent \in 0 .. MaxMessages
      /\ MaxMessages \in Nat /\ MaxRetries \in Nat
  BY DialerAssumption DEF TypeOK
<1> DEFINE Typed == /\ queue' \in Seq(QueuedMessage) /\ cur' \in QueuedMessage \cup {NoMessage}
                    /\ timers' \subseteq QueuedMessage /\ sent' \in 0 .. MaxMessages
<1>2. CASE Broadcast
  <2> DEFINE S == connected \cap Listeners
             to == SetToSeq(S)
             new == [k \in 1 .. Len(to) |-> [id |-> sent + k, peer |-> to[k], retriesCount |-> 0]]
  <2>1. IsFiniteSet(S)
    BY DialerAssumption, FS_Subset
  <2>2. to \in Seq(Listeners)
    BY <2>1, SeqOfSet
  <2>. HIDE DEF to
  <2>3. Len(to) \in Nat
    BY <2>2
  <2>4. /\ queue' = queue \o new /\ sent' = sent + Len(to) /\ sent + Len(to) <= MaxMessages
        /\ cur' = cur /\ timers' = timers
    BY <1>2 DEF Broadcast, to
  <2>5. \A k \in 1 .. Len(to) :
          [id |-> sent + k, peer |-> to[k], retriesCount |-> 0] \in QueuedMessage
    <3>1. 0 \in 0 .. MaxRetries
      BY <1>1
    <3>2. \A k \in 1 .. Len(to) : to[k] \in Listeners /\ sent + k \in Ids
      BY <1>1, <2>2, <2>3, <2>4 DEF Ids
    <3>. QED
      BY <3>1, <3>2 DEF QueuedMessage
  <2>6. new \in Seq(QueuedMessage)
    BY <2>3, <2>5
  <2>. HIDE DEF new
  <2>7. Typed
    BY <1>1, <2>3, <2>4, <2>6
  <2>. QED
    BY <1>2, <2>7 DEF Broadcast, TypeOK, identity, streams, peers, applications
<1>3. CASE Take
  <2>1. Typed
    BY <1>1, <1>3 DEF Take
  <2>. QED
    BY <1>3, <2>1 DEF Take, TypeOK, identity, streams, peers, applications
<1>4. CASE OpenStreamFails
  <2>1. cur \in QueuedMessage
    BY <1>1, <1>4 DEF OpenStreamFails
  <2>2. Retried(cur) \subseteq QueuedMessage
    BY <1>1, <2>1 DEF Retried, QueuedMessage
  <2>3. Typed
    BY <1>1, <1>4, <2>2 DEF OpenStreamFails
  <2>. QED
    BY <1>4, <2>3 DEF OpenStreamFails, TypeOK, identity, streams, peers, applications
<1>5. ASSUME NEW p \in Listeners, Send(p) PROVE TypeOK'
  <2>1. [id |-> sent + 1, peer |-> p, retriesCount |-> 0] \in QueuedMessage
    BY <1>1, <1>5 DEF Send, QueuedMessage, Ids
  <2>2. Typed
    BY <1>1, <1>5, <2>1 DEF Send, PushMessageToMessageQueue
  <2>. QED
    BY <1>5, <2>2 DEF Send, TypeOK, identity, streams, peers, applications
<1>6. ASSUME NEW m \in timers, RetryDue(m) PROVE TypeOK'
  <2>1. Typed
    BY <1>1, <1>6 DEF RetryDue
  <2>. QED
    BY <1>6, <2>1 DEF RetryDue, TypeOK, identity, streams, peers, applications
<1>. QED
  BY <1>2, <1>3, <1>4, <1>5, <1>6

LEMMA TypeStreams ==
  ASSUME TypeOK, UNCHANGED <<tss, keygen, p2pIDs, named>>,
         \/ OpenStream
         \/ \E p \in Listeners :
              Transmit(p) \/ StreamBreaks(p) \/ \E u \in Urls : SubscribeChannel(p, u)
  PROVE  TypeOK'
<1>1. /\ stream \in [Listeners -> Nat]
      /\ route \in [Listeners -> [stream : Nat, source : Seq(QueuedMessage)]]
  BY DEF TypeOK
<1>2. CASE OpenStream
  <2> DEFINE p == cur.peer
             s == IF stream[p] # 0 THEN stream[p] ELSE route[p].stream + 1
  <2>1. cur \in QueuedMessage /\ p \in Listeners
    BY <1>2 DEF OpenStream, TypeOK, QueuedMessage
  <2>2. s \in Nat
    BY <1>1, <2>1
  <2>3. Route(p, s, cur) \in [stream : Nat, source : Seq(QueuedMessage)]
    BY <1>1, <2>1, <2>2 DEF Route, Source
  <2>4. /\ stream' = [stream EXCEPT ![p] = s] /\ route' = [route EXCEPT ![p] = Route(p, s, cur)]
        /\ connected' = connected \cup {p} /\ cur' = NoMessage
    BY <1>2 DEF OpenStream
  <2>5. /\ stream' \in [Listeners -> Nat]
        /\ route' \in [Listeners -> [stream : Nat, source : Seq(QueuedMessage)]]
        /\ connected' \subseteq Listeners \cup Relays
    BY <1>1, <2>1, <2>2, <2>3, <2>4 DEF TypeOK
  <2>. QED
    BY <1>2, <2>4, <2>5 DEF OpenStream, TypeOK, identity, applications
<1>3. ASSUME NEW p \in Listeners, Transmit(p) PROVE TypeOK'
  <2> DEFINE m == Head(route[p].source)
  <2>1. route[p] \in [stream : Nat, source : Seq(QueuedMessage)] /\ route[p].source # <<>>
    BY <1>1, <1>3 DEF Transmit
  <2>2. m \in QueuedMessage /\ Tail(route[p].source) \in Seq(QueuedMessage)
    BY <2>1
  <2>3. Posted(m) \in [Urls -> Nat]
    BY <2>2, PostedType
  <2>4. posts' \in [Ids -> [Urls -> Nat]]
    BY <1>3, <2>3 DEF Transmit, TypeOK
  <2>5. route' \in [Listeners -> [stream : Nat, source : Seq(QueuedMessage)]]
    BY <1>1, <1>3, <2>1, <2>2 DEF Transmit
  <2>. QED
    BY <1>3, <2>4, <2>5 DEF Transmit, TypeOK, identity, messages, peers
<1>4. ASSUME NEW p \in Listeners, StreamBreaks(p) PROVE TypeOK'
  BY <1>1, <1>4, DialerAssumption DEF StreamBreaks, TypeOK, identity, messages, peers, applications
<1>5. ASSUME NEW p \in Listeners, NEW u \in Urls, SubscribeChannel(p, u) PROVE TypeOK'
  <2>1. subs[p] \in Seq(Urls) /\ Append(subs[p], u) \in Seq(Urls)
    BY DEF TypeOK
  <2>2. subs' \in [Listeners -> Seq(Urls)]
    BY <1>5, <2>1 DEF SubscribeChannel, TypeOK
  <2>. QED
    BY <1>5, <2>2 DEF SubscribeChannel, TypeOK, identity, messages, streams, peers
<1>. QED
  BY <1>2, <1>3, <1>4, <1>5

LEMMA TypePeers ==
  ASSUME TypeOK, UNCHANGED <<tss, keygen, p2pIDs, named>>,
         \/ \E p \in Listeners : DiscoverPeer(p)
         \/ \E x \in Listeners \cup Relays : Disconnect(x) \/ Connect(x)
         \/ \E r \in Relays : Reconnect(r) \/ \E ps \in SUBSET Listeners : HandlePeerDiscovery(r, ps)
  PROVE  TypeOK'
<1>1. ASSUME NEW p \in Listeners, DiscoverPeer(p) PROVE TypeOK'
  BY <1>1 DEF DiscoverPeer, AddPeersToAddressBook, TypeOK, identity, messages, streams, applications
<1>2. ASSUME NEW x \in Listeners \cup Relays, Disconnect(x) PROVE TypeOK'
  <2>1. stream' \in [Listeners -> Nat] /\ intervals' \in [Relays -> Nat]
    BY <1>2 DEF Disconnect, TryReconnectingRelay, TypeOK
  <2>2. faults' \in 0 .. MaxFaults
    BY <1>2, DialerAssumption DEF Disconnect, TypeOK
  <2>. QED
    BY <1>2, <2>1, <2>2 DEF Disconnect, TypeOK, identity, messages, applications
<1>3. ASSUME NEW x \in Listeners \cup Relays, Connect(x) PROVE TypeOK'
  <2>1. intervals' \in [Relays -> Nat]
    BY <1>3 DEF Connect, Cleared, TypeOK
  <2>. QED
    BY <1>3, <2>1 DEF Connect, TypeOK, identity, messages, streams, applications
<1>4. ASSUME NEW r \in Relays, Reconnect(r) PROVE TypeOK'
  BY <1>4 DEF Reconnect, TypeOK, identity, messages, streams, applications
<1>5. ASSUME NEW r \in Relays, NEW ps \in SUBSET Listeners, HandlePeerDiscovery(r, ps) PROVE TypeOK'
  BY <1>5 DEF HandlePeerDiscovery, AddPeersToAddressBook, TypeOK, identity, messages, streams,
              applications
<1>. QED
  BY <1>1, <1>2, <1>3, <1>4, <1>5

LEMMA TypeService ==
  ASSUME TypeOK,
         Keygen \/ RunBinary \/ BinaryCloses \/ TryCallApi \/ CallApi \/ ServiceCrash
  PROVE  TypeOK'
<1>1. CASE Keygen \/ RunBinary
  BY <1>1 DEF Keygen, RunBinary, TypeOK, dialerVars, identity, messages, streams, peers, applications
<1>2. CASE BinaryCloses
  BY <1>2, DialerAssumption
  DEF BinaryCloses, TypeOK, identity, messages, streams, peers, applications
<1>3. CASE TryCallApi \/ CallApi
  BY <1>3 DEF TryCallApi, CallApi, TypeOK, dialerVars, identity, messages, streams, peers, applications
<1>4. CASE ServiceCrash
  <2>1. /\ queue' \in Seq(QueuedMessage) /\ cur' \in QueuedMessage \cup {NoMessage}
        /\ timers' \subseteq QueuedMessage
    BY <1>4 DEF ServiceCrash, Crash
  <2>2. /\ stream' \in [Listeners -> Nat]
        /\ route' \in [Listeners -> [stream : Nat, source : Seq(QueuedMessage)]]
        /\ intervals' \in [Relays -> Nat]
    BY <1>4 DEF ServiceCrash, Crash, NoRoute
  <2>3. faults' \in 0 .. MaxFaults
    BY <1>4, DialerAssumption DEF ServiceCrash, Crash, TypeOK
  <2>. QED
    BY <1>4, <2>1, <2>2, <2>3 DEF ServiceCrash, Crash, TypeOK, applications
<1>. QED
  BY <1>1, <1>2, <1>3, <1>4

-----------------------------------------------------------------------------
LEMMA IdentityStep ==
  ASSUME Identity, Next
  PROVE  Identity'
<1>1. CASE DialerNext /\ UNCHANGED <<tss, keygen, p2pIDs, named>>
  <2>1. CASE GetInstance
    BY <1>1, <2>1 DEF Identity, GetInstance, StartDialer, GetOrCreatePeerID
  <2>2. CASE SavePeerIdIfNeeded
    BY <1>1, <2>2 DEF Identity, SavePeerIdIfNeeded
  <2>3. CASE UNCHANGED identity
    BY <1>1, <2>3 DEF Identity, identity
  <2>. QED
    BY <1>1, <2>1, <2>2, <2>3
    DEF DialerNext, Broadcast, Take, OpenStream, OpenStreamFails, RetryDue, Send, Transmit,
        StreamBreaks, DiscoverPeer, SubscribeChannel, Disconnect, Connect, Reconnect,
        HandlePeerDiscovery
<1>2. CASE Keygen \/ RunBinary \/ BinaryCloses
  BY <1>2 DEF Identity, Keygen, RunBinary, BinaryCloses, dialerVars, identity
<1>3. CASE TryCallApi
  BY <1>3 DEF Identity, TryCallApi, dialerVars, identity
<1>4. CASE CallApi
  BY <1>4 DEF Identity, CallApi, dialerVars, identity
<1>5. CASE ServiceCrash
  BY <1>5 DEF Identity, ServiceCrash, Crash
<1>. QED
  BY <1>1, <1>2, <1>3, <1>4, <1>5 DEF Next

LEMMA WatchedStep ==
  ASSUME TypeOK, Watched, Next
  PROVE  Watched'
<1>0. intervals \in [Relays -> Nat] /\ Listeners \cap Relays = {}
  BY DialerAssumption DEF TypeOK
<1>1. CASE DialerNext /\ UNCHANGED <<tss, keygen, p2pIDs, named>>
  <2>1. CASE GetInstance
    BY <1>1, <2>1 DEF Watched, RelaysWatched, GetInstance, peers
  <2>2. CASE OpenStream
    <3>1. cur.peer \in Listeners
      BY <2>2 DEF OpenStream, TypeOK, QueuedMessage
    <3>. QED
      BY <1>0, <2>2, <3>1 DEF Watched, RelaysWatched, OpenStream, identity
  <2>3. ASSUME NEW x \in Listeners \cup Relays, Disconnect(x) PROVE Watched'
    BY <1>0, <2>3 DEF Watched, RelaysWatched, Disconnect, TryReconnectingRelay, identity
  <2>4. ASSUME NEW x \in Listeners \cup Relays, Connect(x) PROVE Watched'
    BY <1>0, <2>4 DEF Watched, RelaysWatched, Connect, Cleared, identity
  <2>5. CASE UNCHANGED <<node, connected, intervals>> /\ book \subseteq book'
    BY <2>5 DEF Watched, RelaysWatched
  <2>6. CASE SavePeerIdIfNeeded
    BY <2>6 DEF Watched, RelaysWatched, SavePeerIdIfNeeded, peers
  <2>7. CASE \E r \in Relays : Reconnect(r) \/ \E ps \in SUBSET Listeners : HandlePeerDiscovery(r, ps)
    BY <2>5, <2>7 DEF Reconnect, HandlePeerDiscovery, AddPeersToAddressBook, identity
  <2>8. CASE \E p \in Listeners : DiscoverPeer(p)
    BY <2>5, <2>8 DEF DiscoverPeer, AddPeersToAddressBook, identity
  <2>9. CASE UNCHANGED <<identity, peers>>
    BY <2>5, <2>9 DEF identity, peers
  <2>. QED
    BY <1>1, <2>1, <2>2, <2>3, <2>4, <2>6, <2>7, <2>8, <2>9
    DEF DialerNext, Broadcast, Take, OpenStreamFails, RetryDue, Send, Transmit, StreamBreaks,
        SubscribeChannel
<1>2. CASE Keygen \/ RunBinary \/ BinaryCloses \/ TryCallApi \/ CallApi
  BY <1>2 DEF Watched, RelaysWatched, Keygen, RunBinary, BinaryCloses, TryCallApi, CallApi,
              dialerVars, identity, peers
<1>3. CASE ServiceCrash
  BY <1>3 DEF Watched, RelaysWatched, ServiceCrash, Crash
<1>. QED
  BY <1>1, <1>2, <1>3 DEF Next

LEMMA TypeStep == TypeOK /\ Next => TypeOK'
  BY TypeIdentity, TypeMessages, TypeStreams, TypePeers, TypeService DEF Next, DialerNext

LEMMA StepInv == Inv /\ [Next]_vars => Inv'
<1>1. Inv /\ Next => Inv'
  BY TypeStep, IdentityStep, WatchedStep DEF Inv
<1>2. Inv /\ UNCHANGED vars => Inv'
  BY DEF Inv, TypeOK, Identity, Watched, RelaysWatched, vars, dialerVars, identity, messages,
         streams, peers, applications
<1>. QED
  BY <1>1, <1>2

LEMMA Invariance == Spec => []Inv
  BY InitInv, StepInv, PTL DEF Spec

\* The queue, the streams, the address book and the subscribers have their types:
\* a message is never tried more often than messageSendingRetriesMaxCount, and
\* nobody but a guard gets one.
THEOREM TypeCorrect == Spec => []TypeOK
<1>1. Inv => TypeOK
  BY DEF Inv
<1>. QED
  BY Invariance, <1>1, PTL

\* getOrCreatePeerID and savePeerIdIfNeeded: the identity under which a guard was
\* named in a keygen is its identity after every restart.
THEOREM IdentityStable == Spec => []IdentityKept
<1>1. Inv => IdentityKept
  BY DEF Inv, Identity, IdentityKept
<1>. QED
  BY Invariance, <1>1, PTL

\* tryReconnectingRelay and the events of libp2p: no relay is forgotten, and none
\* that came back is reconnected for ever.
THEOREM RelaysNeverForgotten == Spec => []RelaysWatched
<1>1. Inv => RelaysWatched
  BY DEF Inv, Watched
<1>. QED
  BY Invariance, <1>1, PTL

-----------------------------------------------------------------------------
\* Messages on their way

\* The identifiers of the messages in each place where one can be on its way.
InQueue == IdsOf(queue)
InCur == {cur.id} \ {0}
InTimers == {m.id : m \in timers}
InStream(p) == IF Live(p) THEN IdsOf(route[p].source) ELSE {}

NoTwo(s) == \A j, k \in 1 .. Len(s) : s[j].id = s[k].id => j = k

\* No message is in two places.
Apart ==
  /\ InQueue \cap InCur = {} /\ InQueue \cap InTimers = {} /\ InCur \cap InTimers = {}
  /\ \A p \in Listeners :
       /\ InStream(p) \cap InQueue = {} /\ InStream(p) \cap InCur = {}
       /\ InStream(p) \cap InTimers = {}
  /\ \A p, q \in Listeners : p # q => InStream(p) \cap InStream(q) = {}

\* No message is twice in one place.
Once ==
  /\ NoTwo(queue)
  /\ \A m, n \in timers : m.id = n.id => m = n
  /\ \A p \in Listeners : Live(p) => NoTwo(route[p].source)

OnePlace == Apart /\ Once

\* What is on its way was accepted; nobody got it yet, nor what was not accepted.
Fresh ==
  /\ \A i \in Open : i <= sent
  /\ \A i \in Ids : i \in Open \/ sent < i => \A u \in Urls : posts[i][u] = 0

\* The open stream of a peer is the one its source belongs to.
SourceOfStream == \A p \in Listeners : stream[p] # 0 => Live(p)

SubscribedOnce ==
  \A p \in Listeners : \A j, k \in 1 .. Len(subs[p]) : subs[p][j] = subs[p][k] => j = k

DeliveryInv == TypeOK /\ OnePlace /\ Fresh /\ SourceOfStream /\ SubscribedOnce

\* What a step may do to the messages on their way: accept some, or move one;
\* carry one to its receiver; or lose some, for a reason that is seen.
Accepts ==
  /\ sent' \in Nat /\ sent <= sent' /\ sent' <= MaxMessages
  /\ Open' = Open \cup ((sent + 1) .. sent') /\ posts' = posts

Carries(p) ==
  /\ Live(p) /\ route[p].source # <<>>
  /\ Head(route[p].source).id \in Open
  /\ Open' = Open \ {Head(route[p].source).id}
  /\ posts' = [posts EXCEPT ![Head(route[p].source).id] = Posted(Head(route[p].source))]
  /\ sent' = sent

Excused(i) ==
  \/ \E p \in Listeners : Live(p) /\ i \in IdsOf(route[p].source) /\ stream'[p] = 0
  \/ cur.id = i /\ cur.retriesCount = MaxRetries
  \/ node' = "off"

Loses ==
  /\ Open' \subseteq Open /\ posts' = posts /\ sent' = sent
  /\ \A i \in Open \ Open' : Excused(i)

Effect == Accepts \/ (\E p \in Listeners : Carries(p)) \/ Loses

-----------------------------------------------------------------------------
LEMMA OfAppend ==
  ASSUME NEW s \in Seq(QueuedMessage), NEW m \in QueuedMessage
  PROVE  /\ IdsOf(Append(s, m)) = IdsOf(s) \cup {m.id}
         /\ NoTwo(s) /\ m.id \notin IdsOf(s) => NoTwo(Append(s, m))
<1> DEFINE r == Append(s, m)
<1>1. /\ Len(s) \in Nat /\ Len(r) = Len(s) + 1 /\ r[Len(s) + 1] = m
      /\ \A k \in 1 .. Len(s) : r[k] = s[k]
  OBVIOUS
<1>. HIDE DEF r
<1>2. \A k \in 1 .. Len(r) : k \in 1 .. Len(s) \/ k = Len(s) + 1
  BY <1>1
<1>3. \A k \in 1 .. Len(s) : k \in 1 .. Len(r)
  BY <1>1
<1>4. Len(s) + 1 \in 1 .. Len(r)
  BY <1>1
<1>5. IdsOf(r) = IdsOf(s) \cup {m.id}
  BY <1>1, <1>2, <1>3, <1>4 DEF IdsOf
<1>6. ASSUME NoTwo(s), m.id \notin IdsOf(s) PROVE NoTwo(r)
  BY <1>1, <1>2, <1>6 DEF NoTwo, IdsOf
<1>. QED
  BY <1>5, <1>6 DEF r

LEMMA OfTail ==
  ASSUME NEW s \in Seq(QueuedMessage), s # <<>>
  PROVE  /\ Head(s) \in QueuedMessage /\ Tail(s) \in Seq(QueuedMessage)
         /\ IdsOf(s) = {Head(s).id} \cup IdsOf(Tail(s))
         /\ NoTwo(s) => NoTwo(Tail(s)) /\ Head(s).id \notin IdsOf(Tail(s))
<1> DEFINE r == Tail(s)
<1>1. /\ Len(s) \in Nat /\ Len(s) > 0 /\ Len(r) = Len(s) - 1 /\ Head(s) = s[1]
      /\ \A k \in 1 .. Len(r) : r[k] = s[k + 1]
      /\ Head(s) \in QueuedMessage /\ r \in Seq(QueuedMessage)
  OBVIOUS
<1>. HIDE DEF r
<1>2. \A k \in 1 .. Len(s) : k = 1 \/ (k - 1 \in 1 .. Len(r) /\ r[k - 1] = s[k])
  BY <1>1
<1>3. \A k \in 1 .. Len(r) : k + 1 \in 1 .. Len(s) /\ k + 1 # 1
  BY <1>1
<1>4. 1 \in 1 .. Len(s)
  BY <1>1
<1>5. IdsOf(s) = {Head(s).id} \cup IdsOf(r)
  <2>1. IdsOf(r) \subseteq IdsOf(s)
    BY <1>1, <1>3 DEF IdsOf
  <2>2. Head(s).id \in IdsOf(s)
    BY <1>1, <1>4 DEF IdsOf
  <2>3. ASSUME NEW k \in 1 .. Len(s) PROVE s[k].id = Head(s).id \/ s[k].id \in IdsOf(r)
    <3>1. CASE k = 1
      BY <1>1, <3>1
    <3>2. CASE k - 1 \in 1 .. Len(r) /\ r[k - 1] = s[k]
      BY <3>2 DEF IdsOf
    <3>. QED
      BY <1>2, <3>1, <3>2
  <2>4. \A i \in IdsOf(s) : i = Head(s).id \/ i \in IdsOf(r)
    BY <2>3 DEF IdsOf
  <2>. QED
    BY <2>1, <2>2, <2>4
<1>6. ASSUME NoTwo(s) PROVE NoTwo(r) /\ Head(s).id \notin IdsOf(r)
  <2>1. ASSUME NEW j \in 1 .. Len(r), NEW k \in 1 .. Len(r), r[j].id = r[k].id PROVE j = k
    <3>1. j + 1 = k + 1
      BY <1>1, <1>3, <1>6, <2>1 DEF NoTwo
    <3>. QED
      BY <3>1
  <2>2. ASSUME NEW k \in 1 .. Len(r) PROVE r[k].id # Head(s).id
    BY <1>1, <1>3, <1>4, <1>6 DEF NoTwo
  <2>. QED
    BY <2>1, <2>2 DEF NoTwo, IdsOf
<1>. QED
  BY <1>1, <1>5, <1>6 DEF r

LEMMA OfConcat ==
  ASSUME NEW S, NEW s \in Seq(S), NEW t \in Seq(S)
  PROVE  /\ Len(s) \in Nat /\ Len(s \o t) = Len(s) + Len(t)
         /\ \A k \in 1 .. Len(s) : (s \o t)[k] = s[k]
         /\ \A k \in 1 .. Len(t) : (s \o t)[Len(s) + k] = t[k]
  OBVIOUS

LEMMA OfEmpty == IdsOf(<<>>) = {} /\ NoTwo(<<>>)
  BY DEF IdsOf, NoTwo

LEMMA OpenPlaces ==
  Open = InQueue \cup InCur \cup InTimers \cup UNION {InStream(p) : p \in Listeners}
<1>1. UNION {IdsOf(route[p].source) : p \in {q \in Listeners : Live(q)}}
        = UNION {InStream(p) : p \in Listeners}
  BY DEF InStream
<1>. QED
  BY <1>1 DEF Open, InQueue, InCur, InTimers

LEMMA OpenPlacesNext ==
  Open' = InQueue' \cup InCur' \cup InTimers' \cup UNION {InStream(p)' : p \in Listeners}
<1>1. UNION {IdsOf(route[p].source)' : p \in {q \in Listeners : Live(q)'}}
        = UNION {InStream(p)' : p \in Listeners}
  BY DEF InStream
<1>. QED
  BY <1>1 DEF Open, InQueue, InCur, InTimers

\* Where the messages are has types.
LEMMA PlaceTypes ==
  ASSUME TypeOK
  PROVE  /\ queue \in Seq(QueuedMessage) /\ timers \subseteq QueuedMessage
         /\ cur # NoMessage => cur \in QueuedMessage /\ InCur = {cur.id}
         /\ cur = NoMessage => InCur = {}
         /\ \A p \in Listeners : /\ route[p].source \in Seq(QueuedMessage)
                                 /\ route[p].stream \in Nat /\ stream[p] \in Nat
         /\ \A m \in QueuedMessage : m.id \in Ids /\ m.peer \in Listeners
         /\ 0 \notin Ids /\ sent \in Nat /\ sent <= MaxMessages /\ MaxMessages \in Nat
<1>1. /\ queue \in Seq(QueuedMessage) /\ timers \subseteq QueuedMessage
      /\ cur \in QueuedMessage \cup {NoMessage}
      /\ \A p \in Listeners : /\ route[p].source \in Seq(QueuedMessage)
                              /\ route[p].stream \in Nat /\ stream[p] \in Nat
  BY DEF TypeOK
<1>2. \A m \in QueuedMessage : m.id \in Ids /\ m.peer \in Listeners
  BY DEF QueuedMessage
<1>3. MaxMessages \in Nat /\ sent \in Nat /\ sent <= MaxMessages /\ 0 \notin Ids
  BY DialerAssumption DEF TypeOK, Ids
<1>4. cur # NoMessage => cur \in QueuedMessage /\ InCur = {cur.id}
  BY <1>1, <1>2, <1>3 DEF InCur
<1>5. cur = NoMessage => InCur = {}
  BY DEF InCur, NoMessage
<1>. QED
  BY <1>1, <1>2, <1>3, <1>4, <1>5

\* What is on its way has the identifier of a message.
LEMMA OpenIds == ASSUME TypeOK PROVE Open \subseteq Ids
<1>1. ASSUME NEW s \in Seq(QueuedMessage) PROVE IdsOf(s) \subseteq Ids
  BY PlaceTypes DEF IdsOf
<1>2. InQueue \subseteq Ids /\ InCur \subseteq Ids /\ InTimers \subseteq Ids
  BY <1>1, PlaceTypes DEF InQueue, InTimers
<1>3. \A p \in Listeners : InStream(p) \subseteq Ids
  BY <1>1, PlaceTypes DEF InStream
<1>. QED
  BY <1>2, <1>3, OpenPlaces

-----------------------------------------------------------------------------
\* The steps of the messages. Each keeps OnePlace and SourceOfStream, and has
\* one of the effects.

\* What OnePlace and SourceOfStream say when one variable is left alone.
LEMMA StreamsAlone ==
  ASSUME UNCHANGED streams
  PROVE  /\ \A p : InStream(p)' = InStream(p) /\ Live(p)' = Live(p)
         /\ SourceOfStream => SourceOfStream'
  BY DEF streams, InStream, Live, IdsOf, SourceOfStream

\* Messages sent + 1 .. sent + n are accepted, in this order.
LEMMA AcceptStep ==
  ASSUME DeliveryInv, NEW n \in Nat, NEW new \in Seq(QueuedMessage), Len(new) = n,
         \A k \in 1 .. n : new[k].id = sent + k,
         queue' = queue \o new, sent' = sent + n, sent + n <= MaxMessages,
         UNCHANGED <<cur, timers, stream, route, posts>>
  PROVE  OnePlace' /\ SourceOfStream' /\ Effect
<1> DEFINE New == (sent + 1) .. (sent + n)
<1>1. TypeOK /\ Apart /\ Once /\ SourceOfStream /\ \A i \in Open : i <= sent
  BY DEF DeliveryInv, OnePlace, Fresh
<1>2. queue \in Seq(QueuedMessage) /\ sent \in Nat
  BY <1>1, PlaceTypes
<1>3. /\ Len(queue) \in Nat /\ Len(queue') = Len(queue) + n
      /\ \A k \in 1 .. Len(queue) : queue'[k] = queue[k]
      /\ \A k \in 1 .. n : queue'[Len(queue) + k] = new[k]
  <2>1. /\ Len(queue) \in Nat /\ Len(queue \o new) = Len(queue) + Len(new)
        /\ \A k \in 1 .. Len(queue) : (queue \o new)[k] = queue[k]
        /\ \A k \in 1 .. Len(new) : (queue \o new)[Len(queue) + k] = new[k]
    <3>1. queue \in Seq(QueuedMessage) /\ new \in Seq(QueuedMessage)
      BY <1>2
    <3>2. Len(queue) \in Nat /\ Len(queue \o new) = Len(queue) + Len(new)
      BY <3>1, OfConcat
    <3>3. \A k \in 1 .. Len(queue) : (queue \o new)[k] = queue[k]
      BY <3>1, OfConcat
    <3>4. \A k \in 1 .. Len(new) : (queue \o new)[Len(queue) + k] = new[k]
      BY <3>1, OfConcat
    <3>. QED
      BY <3>2, <3>3, <3>4
  <2>. QED
    BY <2>1
<1>4. /\ \A k \in 1 .. Len(queue) : queue'[k].id = queue[k].id /\ queue[k].id \in InQueue
      /\ \A k \in 1 .. Len(queue') : k \notin 1 .. Len(queue) =>
           k > Len(queue) /\ queue'[k].id = sent + (k - Len(queue))
  <2>1. ASSUME NEW k \in 1 .. Len(queue'), k \notin 1 .. Len(queue)
        PROVE  k > Len(queue) /\ queue'[k].id = sent + (k - Len(queue))
    <3>1. k - Len(queue) \in 1 .. n /\ k > Len(queue) /\ Len(queue) + (k - Len(queue)) = k
      BY <1>3, <2>1
    <3>. QED
      BY <1>3, <3>1
  <2>2. \A k \in 1 .. Len(queue) : queue'[k].id = queue[k].id /\ queue[k].id \in InQueue
    BY <1>3 DEF InQueue, IdsOf
  <2>. QED
    BY <2>1, <2>2
<1>5. \A i \in Open : i \notin New
  BY <1>1, <1>2
<1>6. \A i \in InQueue : i \notin New
  BY <1>5, OpenPlaces
<1>7. InQueue' = InQueue \cup New
  <2>1. \A k \in 1 .. Len(queue) : k \in 1 .. Len(queue')
    BY <1>3
  <2>2. InQueue \subseteq InQueue'
    BY <1>4, <2>1 DEF InQueue, IdsOf
  <2>3. ASSUME NEW i \in New PROVE i \in InQueue'
    <3>1. i - sent \in 1 .. n /\ sent + (i - sent) = i
      BY <1>2
    <3>2. Len(queue) + (i - sent) \in 1 .. Len(queue')
      BY <1>3, <3>1
    <3>3. queue'[Len(queue) + (i - sent)].id = i
      BY <1>3, <3>1
    <3>. QED
      BY <3>2, <3>3 DEF InQueue, IdsOf
  <2>4. ASSUME NEW k \in 1 .. Len(queue') PROVE queue'[k].id \in InQueue \cup New
    <3>1. CASE k \in 1 .. Len(queue)
      BY <1>4, <3>1
    <3>2. CASE k > Len(queue) /\ queue'[k].id = sent + (k - Len(queue))
      BY <1>2, <1>3, <3>2
    <3>. QED
      BY <1>4, <3>1, <3>2
  <2>5. InQueue' \subseteq InQueue \cup New
    BY <2>4 DEF InQueue, IdsOf
  <2>. QED
    BY <2>2, <2>3, <2>5
<1>8. NoTwo(queue')
  <2> SUFFICES ASSUME NEW j \in 1 .. Len(queue'), NEW k \in 1 .. Len(queue'),
                      queue'[j].id = queue'[k].id
               PROVE  j = k
    BY DEF NoTwo
  <2>1. CASE j \in 1 .. Len(queue) /\ k \in 1 .. Len(queue)
    BY <1>1, <1>4, <2>1 DEF Once, NoTwo
  <2>2. CASE j > Len(queue) /\ k > Len(queue)
    BY <1>2, <1>3, <1>4, <2>2
  <2>3. \A x, y \in 1 .. Len(queue') :
          x \in 1 .. Len(queue) /\ y > Len(queue) => queue'[x].id # queue'[y].id
    <3> SUFFICES ASSUME NEW x \in 1 .. Len(queue), NEW y \in 1 .. Len(queue'), y > Len(queue)
                 PROVE  queue'[x].id # queue'[y].id
      OBVIOUS
    <3>1. queue'[y].id \in New
      BY <1>2, <1>3, <1>4
    <3>2. queue'[x].id \notin New
      BY <1>4, <1>6
    <3>. QED
      BY <3>1, <3>2
  <2>. QED
    BY <1>3, <1>4, <2>1, <2>2, <2>3
<1>9. /\ InCur' = InCur /\ InTimers' = InTimers
      /\ \A p : InStream(p)' = InStream(p) /\ Live(p)' = Live(p)
      /\ SourceOfStream'
  BY <1>1, StreamsAlone DEF streams, InCur, InTimers
<1>. HIDE DEF New
<1>10. \A i \in New : i \notin InCur /\ i \notin InTimers /\ \A p \in Listeners : i \notin InStream(p)
  BY <1>5, OpenPlaces
<1>11. Apart'
  BY <1>1, <1>7, <1>9, <1>10 DEF Apart
<1>12. Once'
  BY <1>1, <1>8, <1>9 DEF Once
<1>13. Open' = Open \cup New
  BY <1>7, <1>9, OpenPlaces, OpenPlacesNext
<1>14. sent' \in Nat /\ sent <= sent' /\ New = (sent + 1) .. sent'
  BY <1>2 DEF New
<1>. QED
  BY <1>9, <1>11, <1>12, <1>13, <1>14 DEF OnePlace, Effect, Accepts


LEMMA SendStep ==
  ASSUME DeliveryInv, NEW p \in Listeners, Send(p)
  PROVE  OnePlace' /\ SourceOfStream' /\ Effect
<1> DEFINE m == [id |-> sent + 1, peer |-> p, retriesCount |-> 0]
           new == <<m>>
<1>1. TypeOK
  BY DEF DeliveryInv
<1>2. sent \in Nat /\ sent < MaxMessages /\ MaxMessages \in Nat /\ MaxRetries \in Nat
  BY <1>1, PlaceTypes, DialerAssumption DEF Send
<1>3. m \in QueuedMessage /\ m.id = sent + 1
  BY <1>2 DEF QueuedMessage, Ids
<1>4. queue' = Append(queue, m) /\ sent' = sent + 1
  BY DEF Send, PushMessageToMessageQueue
<1>5. UNCHANGED <<cur, timers, stream, route, posts>>
  BY DEF Send, streams, applications
<1>6. queue \in Seq(QueuedMessage)
  BY <1>1, PlaceTypes
<1>. HIDE DEF m
<1>7. new \in Seq(QueuedMessage) /\ Len(new) = 1 /\ \A k \in 1 .. 1 : new[k].id = sent + k
  BY <1>2, <1>3
<1>8. Append(queue, m) = queue \o new
  BY <1>3, <1>6
<1>. HIDE DEF new
<1>9. sent + 1 <= MaxMessages
  BY <1>2
<1>10. queue' = queue \o new
  BY <1>4, <1>8
<1>. QED
  BY <1>4, <1>5, <1>7, <1>9, <1>10, AcceptStep

LEMMA BroadcastStep ==
  ASSUME DeliveryInv, Broadcast
  PROVE  OnePlace' /\ SourceOfStream' /\ Effect
<1> DEFINE S == connected \cap Listeners
           to == SetToSeq(S)
           new == [k \in 1 .. Len(to) |-> [id |-> sent + k, peer |-> to[k], retriesCount |-> 0]]
<1>1. TypeOK
  BY DEF DeliveryInv
<1>2. sent \in Nat /\ MaxMessages \in Nat /\ MaxRetries \in Nat
  BY <1>1, PlaceTypes, DialerAssumption
<1>3. IsFiniteSet(S)
  BY DialerAssumption, FS_Subset
<1>4. to \in Seq(Listeners)
  BY <1>3, SeqOfSet
<1>5. /\ queue' = queue \o new /\ sent' = sent + Len(to) /\ sent + Len(to) <= MaxMessages
      /\ UNCHANGED <<cur, timers, stream, route, posts>>
  BY DEF Broadcast, streams, applications
<1>. HIDE DEF to
<1>6. Len(to) \in Nat
  BY <1>4
<1>7. \A k \in 1 .. Len(to) :
        [id |-> sent + k, peer |-> to[k], retriesCount |-> 0] \in QueuedMessage
  <2>1. 0 \in 0 .. MaxRetries
    BY <1>2
  <2>2. \A k \in 1 .. Len(to) : to[k] \in Listeners /\ sent + k \in Ids
    BY <1>2, <1>4, <1>5, <1>6 DEF Ids
  <2>. QED
    BY <2>1, <2>2 DEF QueuedMessage
<1>8. new \in Seq(QueuedMessage) /\ Len(new) = Len(to)
  BY <1>6, <1>7
<1>9. \A k \in 1 .. Len(to) : new[k].id = sent + k
  OBVIOUS
<1>. HIDE DEF new
<1>. QED
  BY <1>5, <1>6, <1>8, <1>9, AcceptStep

\* A message that moves stays on its way.
LEMMA Moved ==
  ASSUME TypeOK, Open' = Open, UNCHANGED <<posts, sent>>
  PROVE  Effect
<1>1. sent \in Nat /\ sent <= MaxMessages
  BY PlaceTypes
<1>2. (sent + 1) .. sent' = {}
  BY <1>1
<1>. QED
  BY <1>1, <1>2 DEF Effect, Accepts

LEMMA TakeStep ==
  ASSUME DeliveryInv, Take
  PROVE  OnePlace' /\ SourceOfStream' /\ Effect
<1>1. TypeOK /\ Apart /\ Once /\ SourceOfStream
  BY DEF DeliveryInv, OnePlace
<1>2. /\ queue \in Seq(QueuedMessage) /\ queue # <<>> /\ cur = NoMessage
      /\ cur' = Head(queue) /\ queue' = Tail(queue)
      /\ UNCHANGED <<timers, stream, route, posts, sent>>
  BY <1>1, PlaceTypes DEF Take, streams, applications
<1>3. /\ Head(queue) \in QueuedMessage
      /\ IdsOf(queue) = {Head(queue).id} \cup IdsOf(Tail(queue))
      /\ NoTwo(queue) => NoTwo(Tail(queue)) /\ Head(queue).id \notin IdsOf(Tail(queue))
  BY <1>2, OfTail
<1>4. InCur = {} /\ InCur' = {Head(queue).id}
  <2>1. Head(queue).id \in Ids /\ 0 \notin Ids
    BY <1>1, <1>3, PlaceTypes
  <2>. QED
    BY <1>1, <1>2, <2>1, PlaceTypes DEF InCur
<1>5. InQueue = InQueue' \cup InCur' /\ InQueue' \cap InCur' = {}
  BY <1>1, <1>2, <1>3, <1>4 DEF InQueue, Once
<1>6. /\ InTimers' = InTimers /\ SourceOfStream'
      /\ \A p : InStream(p)' = InStream(p) /\ Live(p)' = Live(p)
  BY <1>1, <1>2, StreamsAlone DEF streams, InTimers
<1>7. Apart'
  BY <1>1, <1>4, <1>5, <1>6 DEF Apart
<1>8. Once'
  BY <1>1, <1>2, <1>3, <1>6 DEF Once
<1>9. Open' = Open
  BY <1>4, <1>5, <1>6, OpenPlaces, OpenPlacesNext
<1>. QED
  BY <1>1, <1>2, <1>6, <1>7, <1>8, <1>9, Moved DEF OnePlace

LEMMA RetryDueStep ==
  ASSUME DeliveryInv, NEW m \in timers, RetryDue(m)
  PROVE  OnePlace' /\ SourceOfStream' /\ Effect
<1>1. TypeOK /\ Apart /\ Once /\ SourceOfStream
  BY DEF DeliveryInv, OnePlace
<1>2. /\ queue \in Seq(QueuedMessage) /\ m \in QueuedMessage
      /\ timers' = timers \ {m} /\ queue' = Append(queue, m)
      /\ UNCHANGED <<cur, stream, route, posts, sent>>
  BY <1>1, PlaceTypes DEF RetryDue, streams, applications
<1>3. m.id \in InTimers /\ m.id \notin InQueue
  BY <1>1 DEF InTimers, Apart
<1>4. InQueue' = InQueue \cup {m.id} /\ NoTwo(queue')
  BY <1>1, <1>2, <1>3, OfAppend DEF InQueue, Once
<1>5. InTimers' = InTimers \ {m.id}
  BY <1>1, <1>2 DEF InTimers, Once
<1>6. /\ InCur' = InCur /\ SourceOfStream'
      /\ \A p : InStream(p)' = InStream(p) /\ Live(p)' = Live(p)
  BY <1>1, <1>2, StreamsAlone DEF streams, InCur
<1>7. Apart'
  BY <1>1, <1>3, <1>4, <1>5, <1>6 DEF Apart
<1>8. Once'
  BY <1>1, <1>2, <1>4, <1>6 DEF Once
<1>9. Open' = Open
  BY <1>3, <1>4, <1>5, <1>6, OpenPlaces, OpenPlacesNext
<1>. QED
  BY <1>1, <1>2, <1>6, <1>7, <1>8, <1>9, Moved DEF OnePlace

\* The message goes to the open stream's source, or to an empty one.
LEMMA OpenStreamStep ==
  ASSUME DeliveryInv, OpenStream
  PROVE  OnePlace' /\ SourceOfStream' /\ Effect
<1>1. TypeOK /\ Apart /\ Once /\ SourceOfStream
  BY DEF DeliveryInv, OnePlace
<1>0. PICK p \in Listeners : p = cur.peer
  BY <1>1, PlaceTypes DEF OpenStream
<1> DEFINE s == IF stream[p] # 0 THEN stream[p] ELSE route[p].stream + 1
           src == Source(p, s)
<1>2. cur \in QueuedMessage /\ InCur = {cur.id} /\ cur.id # 0
  BY <1>1, PlaceTypes DEF OpenStream
<1>3. /\ stream' = [stream EXCEPT ![p] = s] /\ route' = [route EXCEPT ![p] = Route(p, s, cur)]
      /\ cur' = NoMessage /\ UNCHANGED <<queue, timers, posts, sent>>
  BY <1>0 DEF OpenStream, applications
<1>4. stream \in [Listeners -> Nat]
      /\ route \in [Listeners -> [stream : Nat, source : Seq(QueuedMessage)]]
  BY <1>1 DEF TypeOK
<1>5. s \in Nat /\ s # 0
  BY <1>2, <1>4
<1>6. src \in Seq(QueuedMessage) /\ IdsOf(src) = InStream(p) /\ NoTwo(src)
  <2>1. CASE stream[p] # 0
    <3>1. Live(p) /\ s = stream[p] /\ route[p].stream = s
      BY <1>1, <1>2, <2>1 DEF SourceOfStream, Live
    <3>2. src = route[p].source
      BY <3>1 DEF Source
    <3>. QED
      BY <1>1, <1>2, <1>4, <3>1, <3>2 DEF InStream, Once
  <2>2. CASE stream[p] = 0
    <3>1. ~Live(p) /\ route[p].stream # s
      BY <1>2, <1>4, <2>2 DEF Live
    <3>2. src = <<>>
      BY <3>1 DEF Source
    <3>. HIDE DEF src
    <3>3. InStream(p) = {}
      BY <3>1 DEF InStream
    <3>4. src \in Seq(QueuedMessage) /\ IdsOf(src) = {} /\ NoTwo(src)
      BY <3>2, OfEmpty
    <3>. QED
      BY <3>3, <3>4
  <2>. QED
    BY <2>1, <2>2
<1>7. Route(p, s, cur) = [stream |-> s, source |-> Append(src, cur)]
  BY DEF Route
<1>. HIDE DEF s, src
<1>8. /\ stream'[p] = s /\ route'[p].stream = s /\ route'[p].source = Append(src, cur)
      /\ \A q \in Listeners : q # p => stream'[q] = stream[q] /\ route'[q] = route[q]
  BY <1>2, <1>3, <1>4, <1>7
<1>9. Live(p)' /\ \A q \in Listeners : q # p => Live(q)' = Live(q) /\ InStream(q)' = InStream(q)
  <2>1. Live(p)'
    BY <1>5, <1>8 DEF Live
  <2>2. ASSUME NEW q \in Listeners, q # p PROVE Live(q)' = Live(q) /\ InStream(q)' = InStream(q)
    <3>1. stream'[q] = stream[q] /\ route'[q] = route[q]
      BY <1>8, <2>2
    <3>. QED
      BY <3>1 DEF Live, InStream, IdsOf
  <2>. QED
    BY <2>1, <2>2
<1>10. /\ InStream(p)' = InStream(p) \cup InCur
       /\ NoTwo(route'[p].source)
  <2>1. cur.id \notin IdsOf(src)
    BY <1>1, <1>2, <1>6 DEF Apart
  <2>2. IdsOf(Append(src, cur)) = IdsOf(src) \cup {cur.id} /\ NoTwo(Append(src, cur))
    BY <1>2, <1>6, <2>1, OfAppend
  <2>3. InStream(p)' = IdsOf(route'[p].source)
    BY <1>9 DEF InStream, IdsOf
  <2>. QED
    BY <1>2, <1>6, <1>8, <2>2, <2>3
<1>11. InCur' = {} /\ InQueue' = InQueue /\ InTimers' = InTimers
  BY <1>3 DEF InCur, InQueue, InTimers, NoMessage, IdsOf
<1>12. \A q \in Listeners : InStream(q)' = IF q = p THEN InStream(q) \cup InCur ELSE InStream(q)
  BY <1>9, <1>10
<1>13. Apart'
  BY <1>1, <1>2, <1>11, <1>12 DEF Apart
<1>14. Once'
  BY <1>1, <1>3, <1>8, <1>9, <1>10 DEF Once
<1>15. SourceOfStream'
  <2>1. ASSUME NEW q \in Listeners, stream'[q] # 0 PROVE Live(q)'
    BY <1>1, <1>8, <1>9, <2>1 DEF SourceOfStream
  <2>. QED
    BY <2>1 DEF SourceOfStream
<1>16. Open' = Open
  BY <1>2, <1>11, <1>12, OpenPlaces, OpenPlacesNext
<1>. QED
  BY <1>1, <1>3, <1>13, <1>14, <1>15, <1>16, Moved DEF OnePlace

\* A message that is not tried again is lost after its last retry.
LEMMA OpenStreamFailsStep ==
  ASSUME DeliveryInv, OpenStreamFails
  PROVE  OnePlace' /\ SourceOfStream' /\ Effect
<1>1. TypeOK /\ Apart /\ Once /\ SourceOfStream
  BY DEF DeliveryInv, OnePlace
<1>2. /\ cur \in QueuedMessage /\ InCur = {cur.id} /\ cur' = NoMessage
      /\ timers' = timers \cup Retried(cur) /\ UNCHANGED <<queue, stream, route, posts, sent>>
  BY <1>1, PlaceTypes DEF OpenStreamFails, streams, applications
<1>3. \A m \in Retried(cur) : m.id = cur.id
  BY <1>2 DEF Retried, QueuedMessage
<1>4. \A m, n \in Retried(cur) : m = n
  BY DEF Retried
<1>5. InTimers' = InTimers \cup {m.id : m \in Retried(cur)}
  BY <1>2 DEF InTimers
<1>6. {m.id : m \in Retried(cur)} \subseteq InCur
  BY <1>2, <1>3
<1>7. \A m \in timers : m.id # cur.id
  BY <1>1, <1>2 DEF Apart, InTimers
<1>8. InCur' = {} /\ InQueue' = InQueue
  BY <1>2 DEF InCur, InQueue, NoMessage, IdsOf
<1>9. SourceOfStream' /\ \A p : InStream(p)' = InStream(p) /\ Live(p)' = Live(p)
  BY <1>1, <1>2, StreamsAlone DEF streams
<1>10. Apart'
  BY <1>1, <1>5, <1>6, <1>8, <1>9 DEF Apart
<1>11. Once'
  BY <1>1, <1>2, <1>3, <1>4, <1>7, <1>9 DEF Once
<1>12. Open' \subseteq Open
  BY <1>5, <1>6, <1>8, <1>9, OpenPlaces, OpenPlacesNext
<1>13. ASSUME NEW i \in Open \ Open' PROVE Excused(i)
  <2>1. i = cur.id
    BY <1>2, <1>5, <1>8, <1>9, <1>13, OpenPlaces, OpenPlacesNext
  <2>2. Retried(cur) = {}
    <3>1. i \notin {m.id : m \in Retried(cur)}
      BY <1>5, <1>13, OpenPlacesNext
    <3>. QED
      BY <1>3, <2>1, <3>1
  <2>3. cur.retriesCount \in 0 .. MaxRetries /\ MaxRetries \in Nat
    BY <1>2, DialerAssumption DEF QueuedMessage
  <2>4. ~(cur.retriesCount + 1 <= MaxRetries)
    BY <2>2 DEF Retried
  <2>5. cur.retriesCount = MaxRetries
    BY <2>3, <2>4
  <2>. QED
    BY <2>1, <2>5 DEF Excused
<1>. QED
  BY <1>2, <1>9, <1>10, <1>11, <1>12, <1>13 DEF OnePlace, Effect, Loses


\* The carried message is on its way nowhere else.
LEMMA TransmitStep ==
  ASSUME DeliveryInv, NEW p \in Listeners, Transmit(p)
  PROVE  OnePlace' /\ SourceOfStream' /\ Effect
<1> DEFINE m == Head(route[p].source)
<1>1. TypeOK /\ Apart /\ Once /\ SourceOfStream
  BY DEF DeliveryInv, OnePlace
<1>2. /\ Live(p) /\ route[p].source # <<>> /\ route[p].source \in Seq(QueuedMessage)
      /\ posts' = [posts EXCEPT ![m.id] = Posted(m)]
      /\ route' = [route EXCEPT ![p].source = Tail(@)]
      /\ UNCHANGED <<queue, cur, timers, stream, sent>>
  BY <1>1, PlaceTypes DEF Transmit, messages
<1>3. route \in [Listeners -> [stream : Nat, source : Seq(QueuedMessage)]]
  BY <1>1 DEF TypeOK
<1>4. /\ route'[p].stream = route[p].stream /\ route'[p].source = Tail(route[p].source)
      /\ \A q \in Listeners : q # p => route'[q] = route[q]
  BY <1>2, <1>3
<1>5. /\ IdsOf(route[p].source) = {m.id} \cup IdsOf(Tail(route[p].source))
      /\ NoTwo(route[p].source) =>
           NoTwo(Tail(route[p].source)) /\ m.id \notin IdsOf(Tail(route[p].source))
  BY <1>2, OfTail
<1>. HIDE DEF m
<1>6. /\ Live(p)'
      /\ \A q \in Listeners : q # p => Live(q)' = Live(q) /\ InStream(q)' = InStream(q)
  <2>1. Live(p)'
    BY <1>2, <1>4 DEF Live
  <2>2. ASSUME NEW q \in Listeners, q # p PROVE Live(q)' = Live(q) /\ InStream(q)' = InStream(q)
    <3>1. stream'[q] = stream[q] /\ route'[q] = route[q]
      BY <1>2, <1>4, <2>2
    <3>. QED
      BY <3>1 DEF Live, InStream, IdsOf
  <2>. QED
    BY <2>1, <2>2
<1>7. /\ m.id \in InStream(p) /\ InStream(p)' = InStream(p) \ {m.id}
      /\ NoTwo(route'[p].source)
  <2>1. NoTwo(route[p].source) /\ InStream(p) = IdsOf(route[p].source)
    BY <1>1, <1>2 DEF Once, InStream
  <2>2. InStream(p)' = IdsOf(route'[p].source)
    BY <1>6 DEF InStream, IdsOf
  <2>. QED
    BY <1>4, <1>5, <2>1, <2>2
<1>8. InCur' = InCur /\ InQueue' = InQueue /\ InTimers' = InTimers
  BY <1>2 DEF InCur, InQueue, InTimers, IdsOf
<1>9. \A q \in Listeners : InStream(q)' = InStream(q) \ {m.id}
  <2>1. ASSUME NEW q \in Listeners, q # p PROVE m.id \notin InStream(q)
    BY <1>1, <1>7, <2>1 DEF Apart
  <2>. QED
    BY <1>6, <1>7, <2>1
<1>10. m.id \notin InQueue /\ m.id \notin InCur /\ m.id \notin InTimers
  BY <1>1, <1>7 DEF Apart
<1>11. Apart'
  BY <1>1, <1>8, <1>9 DEF Apart
<1>12. Once'
  BY <1>1, <1>2, <1>4, <1>6, <1>7 DEF Once
<1>13. SourceOfStream'
  <2>1. ASSUME NEW q \in Listeners, stream'[q] # 0 PROVE Live(q)'
    BY <1>1, <1>2, <1>6, <2>1 DEF SourceOfStream
  <2>. QED
    BY <2>1 DEF SourceOfStream
<1>14. m.id \in Open /\ Open' = Open \ {m.id}
  BY <1>7, <1>8, <1>9, <1>10, OpenPlaces, OpenPlacesNext
<1>15. Carries(p)
  BY <1>2, <1>14 DEF Carries, m
<1>. QED
  BY <1>11, <1>12, <1>13, <1>15 DEF OnePlace, Effect

\* What was given to a stream that ends is lost.
LEMMA StreamsEnd ==
  ASSUME DeliveryInv, \A p \in Listeners : stream'[p] = 0 \/ stream'[p] = stream[p],
         UNCHANGED <<queue, cur, timers, route, posts, sent>>
  PROVE  OnePlace' /\ SourceOfStream' /\ Effect
<1>1. TypeOK /\ Apart /\ Once /\ SourceOfStream
  BY DEF DeliveryInv, OnePlace
<1>2. InCur' = InCur /\ InQueue' = InQueue /\ InTimers' = InTimers
  BY DEF InCur, InQueue, InTimers, IdsOf
<1>3. ASSUME NEW p \in Listeners
      PROVE  /\ stream'[p] # 0 => Live(p)' = Live(p) /\ InStream(p)' = InStream(p)
             /\ stream'[p] = 0 => ~Live(p)' /\ InStream(p)' = {}
  <2>1. ASSUME stream'[p] # 0 PROVE Live(p)' = Live(p) /\ InStream(p)' = InStream(p)
    <3>1. stream'[p] = stream[p] /\ route'[p] = route[p]
      BY <2>1
    <3>. QED
      BY <3>1 DEF Live, InStream, IdsOf
  <2>2. ASSUME stream'[p] = 0 PROVE ~Live(p)' /\ InStream(p)' = {}
    BY <2>2 DEF Live, InStream
  <2>. QED
    BY <2>1, <2>2
<1>4. \A p \in Listeners : InStream(p)' = InStream(p) \/ InStream(p)' = {}
  BY <1>3
<1>5. Apart'
  BY <1>1, <1>2, <1>4 DEF Apart
<1>6. Once'
  <2>1. ASSUME NEW p \in Listeners, Live(p)' PROVE NoTwo(route[p].source)
    BY <1>1, <1>3, <2>1 DEF Once
  <2>. QED
    BY <1>1, <2>1 DEF Once
<1>7. SourceOfStream'
  <2>1. ASSUME NEW p \in Listeners, stream'[p] # 0 PROVE Live(p)'
    BY <1>1, <1>3, <2>1 DEF SourceOfStream
  <2>. QED
    BY <2>1 DEF SourceOfStream
<1>8. Open' \subseteq Open
  BY <1>2, <1>4, OpenPlaces, OpenPlacesNext
<1>9. ASSUME NEW i \in Open \ Open' PROVE Excused(i)
  <2>1. PICK p \in Listeners : i \in InStream(p)
    BY <1>2, <1>9, OpenPlaces, OpenPlacesNext
  <2>2. i \notin InStream(p)'
    BY <1>9, OpenPlacesNext
  <2>3. Live(p) /\ i \in IdsOf(route[p].source)
    BY <2>1 DEF InStream
  <2>4. stream'[p] = 0
    BY <1>3, <2>1, <2>2
  <2>. QED
    BY <2>3, <2>4 DEF Excused
<1>. QED
  BY <1>5, <1>6, <1>7, <1>8, <1>9 DEF OnePlace, Effect, Loses

LEMMA CrashStep ==
  ASSUME DeliveryInv, Crash
  PROVE  OnePlace' /\ SourceOfStream' /\ Effect
<1>1. /\ queue' = <<>> /\ cur' = NoMessage /\ timers' = {} /\ node' = "off"
      /\ stream' = [p \in Listeners |-> 0]
      /\ UNCHANGED <<posts, sent>>
  BY DEF Crash, applications
<1>2. InQueue' = {} /\ NoTwo(queue')
  BY <1>1, OfEmpty DEF InQueue, IdsOf
<1>3. InCur' = {} /\ InTimers' = {}
  BY <1>1 DEF InCur, InTimers, NoMessage
<1>4. \A p \in Listeners : stream'[p] = 0 /\ ~Live(p)' /\ InStream(p)' = {}
  BY <1>1 DEF Live, InStream
<1>5. OnePlace' /\ SourceOfStream'
  <2>1. Apart'
    BY <1>2, <1>3, <1>4 DEF Apart
  <2>2. Once'
    BY <1>1, <1>2, <1>4 DEF Once
  <2>. QED
    BY <1>4, <2>1, <2>2 DEF OnePlace, SourceOfStream
<1>6. Open' = {}
  BY <1>2, <1>3, <1>4, OpenPlacesNext
<1>. QED
  BY <1>1, <1>5, <1>6 DEF Effect, Loses, Excused

LEMMA OtherStep ==
  ASSUME DeliveryInv, UNCHANGED <<messages, streams, posts, sent>>
  PROVE  OnePlace' /\ SourceOfStream' /\ Effect
<1>1. TypeOK /\ Apart /\ Once /\ SourceOfStream
  BY DEF DeliveryInv, OnePlace
<1>2. InCur' = InCur /\ InQueue' = InQueue /\ InTimers' = InTimers
  BY DEF messages, InCur, InQueue, InTimers, IdsOf
<1>3. SourceOfStream' /\ \A p : InStream(p)' = InStream(p) /\ Live(p)' = Live(p)
  BY <1>1, StreamsAlone
<1>4. Apart'
  BY <1>1, <1>2, <1>3 DEF Apart
<1>5. Once'
  BY <1>1, <1>3 DEF Once, messages, streams
<1>6. Open' = Open
  BY <1>2, <1>3, OpenPlaces, OpenPlacesNext
<1>. QED
  BY <1>1, <1>3, <1>4, <1>5, <1>6, Moved DEF OnePlace

LEMMA NextEffect ==
  ASSUME DeliveryInv, [Next]_vars
  PROVE  OnePlace' /\ SourceOfStream' /\ Effect
<1>1. ASSUME NEW p \in Listeners, StreamBreaks(p) PROVE OnePlace' /\ SourceOfStream' /\ Effect
  <2>1. stream \in [Listeners -> Nat]
    BY DEF DeliveryInv, TypeOK
  <2>2. \A q \in Listeners : stream'[q] = 0 \/ stream'[q] = stream[q]
    BY <1>1, <2>1 DEF StreamBreaks
  <2>3. UNCHANGED <<queue, cur, timers, route, posts, sent>>
    BY <1>1 DEF StreamBreaks, messages, applications
  <2>. QED
    BY <2>2, <2>3, StreamsEnd
<1>2. ASSUME NEW x \in Listeners \cup Relays, Disconnect(x)
      PROVE  OnePlace' /\ SourceOfStream' /\ Effect
  <2>1. \A q \in Listeners : stream'[q] = 0 \/ stream'[q] = stream[q]
    BY <1>2 DEF Disconnect
  <2>2. UNCHANGED <<queue, cur, timers, route, posts, sent>>
    BY <1>2 DEF Disconnect, messages, applications
  <2>. QED
    BY <2>1, <2>2, StreamsEnd
<1>3. \/ GetInstance \/ SavePeerIdIfNeeded
      \/ \E p \in Listeners : DiscoverPeer(p) \/ \E u \in Urls : SubscribeChannel(p, u)
      \/ \E x \in Listeners \cup Relays : Connect(x)
      \/ \E r \in Relays :
           Reconnect(r) \/ \E ps \in SUBSET Listeners : HandlePeerDiscovery(r, ps)
      => UNCHANGED <<messages, streams, posts, sent>>
  BY DEF GetInstance, SavePeerIdIfNeeded, DiscoverPeer, SubscribeChannel, Connect, Reconnect,
         HandlePeerDiscovery, applications
<1>4. Keygen \/ RunBinary \/ BinaryCloses \/ TryCallApi \/ CallApi \/ UNCHANGED vars
      => UNCHANGED <<messages, streams, posts, sent>>
  BY DEF Keygen, RunBinary, BinaryCloses, TryCallApi, CallApi, vars, dialerVars, applications
<1>5. CASE DialerNext
  BY <1>1, <1>2, <1>3, <1>5, SendStep, BroadcastStep, TakeStep, OpenStreamStep,
     OpenStreamFailsStep, RetryDueStep, TransmitStep, OtherStep DEF DialerNext
<1>6. CASE ServiceCrash
  BY <1>6, CrashStep DEF ServiceCrash
<1>. QED
  BY <1>4, <1>5, <1>6, OtherStep DEF Next

-----------------------------------------------------------------------------
LEMMA FreshStep ==
  ASSUME TypeOK, Fresh, Effect
  PROVE  Fresh'
<1>1. /\ \A i \in Open : i <= sent
      /\ \A i \in Ids : i \in Open \/ sent < i => \A u \in Urls : posts[i][u] = 0
      /\ sent \in Nat /\ Open \subseteq Ids /\ Ids \subseteq Nat /\ MaxMessages \in Nat
  BY PlaceTypes, OpenIds DEF Fresh, Ids
<1>2. CASE Accepts
  <2>1. /\ posts' = posts /\ sent <= sent' /\ sent' \in Int
        /\ Open' = Open \cup ((sent + 1) .. sent')
    BY <1>2 DEF Accepts
  <2>2. \A i \in Open' : i <= sent'
    BY <1>1, <2>1
  <2>3. \A i \in Ids : i \in Open' \/ sent' < i => i \in Open \/ sent < i
    BY <1>1, <2>1
  <2>. QED
    BY <1>1, <2>1, <2>2, <2>3 DEF Fresh
<1>3. ASSUME NEW p \in Listeners, Carries(p) PROVE Fresh'
  <2>1. PICK i \in Open : /\ i = Head(route[p].source).id /\ Open' = Open \ {i}
                          /\ posts' = [posts EXCEPT ![i] = Posted(Head(route[p].source))]
                          /\ sent' = sent
    BY <1>3 DEF Carries
  <2>2. ASSUME NEW j \in Ids, j \in Open' \/ sent < j PROVE posts'[j] = posts[j]
    <3>1. j # i
      BY <1>1, <2>1, <2>2
    <3>. QED
      BY <2>1, <3>1 DEF TypeOK
  <2>3. \A j \in Open' : j <= sent'
    BY <1>1, <2>1
  <2>4. \A j \in Ids : j \in Open' \/ sent' < j => \A u \in Urls : posts'[j][u] = 0
    BY <1>1, <2>1, <2>2
  <2>. QED
    BY <2>3, <2>4 DEF Fresh
<1>4. CASE Loses
  BY <1>1, <1>4 DEF Loses, Fresh
<1>. QED
  BY <1>2, <1>3, <1>4 DEF Effect

LEMMA SubscribedStep ==
  ASSUME TypeOK, SubscribedOnce, [Next]_vars
  PROVE  SubscribedOnce'
<1>1. ASSUME NEW p \in Listeners, NEW u \in Urls, SubscribeChannel(p, u) PROVE SubscribedOnce'
  <2>1. /\ subs[p] \in Seq(Urls) /\ subs' = [subs EXCEPT ![p] = Append(subs[p], u)]
        /\ \A k \in 1 .. Len(subs[p]) : subs[p][k] # u
    BY <1>1 DEF TypeOK, SubscribeChannel, NewSubscriber
  <2>2. /\ subs'[p] = Append(subs[p], u)
        /\ \A q \in Listeners : q # p => subs'[q] = subs[q]
    BY <2>1 DEF TypeOK
  <2>3. /\ Len(subs[p]) \in Nat /\ Len(subs'[p]) = Len(subs[p]) + 1
        /\ subs'[p][Len(subs[p]) + 1] = u
        /\ \A k \in 1 .. Len(subs[p]) : subs'[p][k] = subs[p][k]
    BY <2>1, <2>2
  <2>4. \A k \in 1 .. Len(subs'[p]) : k \in 1 .. Len(subs[p]) \/ k = Len(subs[p]) + 1
    BY <2>3
  <2>5. \A j, k \in 1 .. Len(subs'[p]) : subs'[p][j] = subs'[p][k] => j = k
    BY <2>1, <2>3, <2>4 DEF SubscribedOnce
  <2>. QED
    BY <2>2, <2>5 DEF SubscribedOnce
<1>2. CASE subs' = subs
  BY <1>2 DEF SubscribedOnce
<1>3. \/ subs' = subs \/ \E p \in Listeners, u \in Urls : SubscribeChannel(p, u)
  BY DEF Next, DialerNext, GetInstance, SavePeerIdIfNeeded, Broadcast, Take, OpenStream,
         OpenStreamFails, RetryDue, Send, Transmit, StreamBreaks, DiscoverPeer, Disconnect,
         Connect, Reconnect, HandlePeerDiscovery, Keygen, RunBinary, BinaryCloses, TryCallApi,
         CallApi, ServiceCrash, Crash, vars, dialerVars, applications
<1>. QED
  BY <1>1, <1>2, <1>3

LEMMA DeliveryInit == ServiceInit => DeliveryInv
<1> SUFFICES ASSUME ServiceInit PROVE DeliveryInv
  OBVIOUS
<1>1. TypeOK
  BY InitInv DEF Inv
<1>2. /\ queue = <<>> /\ cur = NoMessage /\ timers = {} /\ sent = 0
      /\ stream = [p \in Listeners |-> 0] /\ subs = [p \in Listeners |-> <<>>]
      /\ posts = [i \in Ids |-> [u \in Urls |-> 0]]
  BY DEF ServiceInit, Init, Idle
<1>3. InQueue = {} /\ NoTwo(queue) /\ InCur = {} /\ InTimers = {}
  BY <1>2, OfEmpty DEF InQueue, InCur, InTimers, NoMessage
<1>4. \A p \in Listeners : stream[p] = 0 /\ ~Live(p) /\ InStream(p) = {}
  BY <1>2 DEF Live, InStream
<1>5. Open = {}
  BY <1>3, <1>4, OpenPlaces
<1>6. OnePlace
  BY <1>2, <1>3, <1>4 DEF OnePlace, Apart, Once
<1>7. Fresh /\ SourceOfStream
  BY <1>2, <1>4, <1>5 DEF Fresh, SourceOfStream
<1>8. SubscribedOnce
  BY <1>2 DEF SubscribedOnce
<1>. QED
  BY <1>1, <1>6, <1>7, <1>8 DEF DeliveryInv

LEMMA DeliveryStep == DeliveryInv /\ [Next]_vars => DeliveryInv' /\ Effect
<1> SUFFICES ASSUME DeliveryInv, [Next]_vars PROVE DeliveryInv' /\ Effect
  OBVIOUS
<1>1. TypeOK /\ Fresh /\ SubscribedOnce
  BY DEF DeliveryInv
<1>2. TypeOK'
  <2>1. CASE Next
    BY <1>1, <2>1, TypeStep
  <2>2. CASE UNCHANGED vars
    BY <1>1, <2>2 DEF TypeOK, vars, dialerVars, identity, messages, streams, peers, applications
  <2>. QED
    BY <2>1, <2>2
<1>3. OnePlace' /\ SourceOfStream' /\ Effect
  BY NextEffect
<1>4. Fresh' /\ SubscribedOnce'
  BY <1>1, <1>3, FreshStep, SubscribedStep
<1>. QED
  BY <1>2, <1>3, <1>4 DEF DeliveryInv

LEMMA DeliveryInvariance == Spec => []DeliveryInv
<1>1. DeliveryInv /\ [Next]_vars => DeliveryInv'
  BY DeliveryStep
<1>. QED
  BY DeliveryInit, <1>1, PTL DEF Spec

-----------------------------------------------------------------------------
\* Each subscriber of the receiver gets the message once, nobody else gets it.
LEMMA PostedToSubscribers ==
  ASSUME DeliveryInv, NEW m \in QueuedMessage, m.id \in Open
  PROVE  Posted(m) = [u \in Urls |->
           IF u \in {v \in Urls : \E k \in 1 .. Len(subs[m.peer]) : subs[m.peer][k] = v}
           THEN 1 ELSE 0]
<1> DEFINE ss == subs[m.peer]
           K(u) == {k \in 1 .. Len(ss) : ss[k] = u}
<1>1. m.id \in Ids /\ m.peer \in Listeners
  BY PlaceTypes DEF DeliveryInv
<1>2. /\ \A u \in Urls : posts[m.id][u] = 0
      /\ \A j, k \in 1 .. Len(ss) : ss[j] = ss[k] => j = k
  BY <1>1 DEF DeliveryInv, Fresh, SubscribedOnce
<1>3. ASSUME NEW u \in Urls, NEW k \in 1 .. Len(ss), ss[k] = u PROVE Cardinality(K(u)) = 1
  <2>1. K(u) = {k}
    BY <1>2, <1>3
  <2>. QED
    BY <2>1, FS_Singleton
<1>4. ASSUME NEW u \in Urls, ~\E k \in 1 .. Len(ss) : ss[k] = u PROVE Cardinality(K(u)) = 0
  <2>1. K(u) = {}
    BY <1>4
  <2>. QED
    BY <2>1, FS_EmptySet
<1>5. Posted(m) = [u \in Urls |-> posts[m.id][u] + Cardinality(K(u))]
  BY DEF Posted
<1>. HIDE DEF K, ss
<1>6. ASSUME NEW u \in Urls
      PROVE  posts[m.id][u] + Cardinality(K(u))
               = IF \E k \in 1 .. Len(ss) : ss[k] = u THEN 1 ELSE 0
  BY <1>2, <1>3, <1>4
<1>7. Posted(m) = [u \in Urls |-> IF \E k \in 1 .. Len(ss) : ss[k] = u THEN 1 ELSE 0]
  BY <1>5, <1>6
<1>. QED
  BY <1>7 DEF ss

LEMMA StepPromise ==
  ASSUME DeliveryInv, Effect
  PROVE  [Promise!Next]_(Promise!vars)
<1>1. TypeOK /\ sent \in Nat /\ Open \subseteq Ids
  BY PlaceTypes, OpenIds DEF DeliveryInv
<1>2. CASE Accepts
  <2> DEFINE new == (sent + 1) .. sent'
  <2>1. /\ posts' = posts /\ sent <= sent' /\ sent' <= MaxMessages /\ Open' = Open \cup new
        /\ sent' \in Nat /\ MaxMessages \in Nat
    BY <1>1, <1>2, PlaceTypes DEF Accepts
  <2>2. \A i \in new : i \in Ids /\ sent < i
    BY <1>1, <2>1 DEF Ids
  <2>3. \A i \in new : i \notin Open /\ \A u \in Urls : posts[i][u] = 0
    BY <1>1, <2>2 DEF DeliveryInv, Fresh
  <2>. HIDE DEF new
  <2>4. Promise!Accept
    BY <2>1, <2>2, <2>3 DEF Promise!Accept
  <2>. QED
    BY <2>4 DEF Promise!Next
<1>3. ASSUME NEW p \in Listeners, Carries(p) PROVE Promise!Next
  <2>1. PICK m \in QueuedMessage :
          /\ m.id \in Open /\ Open' = Open \ {m.id}
          /\ posts' = [posts EXCEPT ![m.id] = Posted(m)]
    <3>1. Head(route[p].source) \in QueuedMessage
      BY <1>1, <1>3, PlaceTypes, OfTail DEF Carries
    <3>. QED
      BY <1>3, <3>1 DEF Carries
  <2> DEFINE to == {v \in Urls : \E k \in 1 .. Len(subs[m.peer]) : subs[m.peer][k] = v}
  <2>2. Posted(m) = [u \in Urls |-> IF u \in to THEN 1 ELSE 0]
    BY <2>1, PostedToSubscribers
  <2>3. to \in SUBSET Urls
    OBVIOUS
  <2>. HIDE DEF to
  <2>4. Promise!Deliver
    BY <2>1, <2>2, <2>3 DEF Promise!Deliver
  <2>. QED
    BY <2>4 DEF Promise!Next
<1>4. CASE Loses
  BY <1>4 DEF Loses, Promise!Next, Promise!GiveUp
<1>. QED
  BY <1>2, <1>3, <1>4 DEF Effect

\* processMessageQueue, retrySendingMessage and handleBroadcast: no message is handed
\* twice to an application, to one that did not subscribe, or after it was given
\* up, whatever streams and retries do: the dialer implements Delivery.
THEOREM Refinement == Spec => Implements
<1>1. ServiceInit => Promise!Init
  <2>1. ServiceInit => Open = {}
    <3> SUFFICES ASSUME ServiceInit PROVE Open = {}
      OBVIOUS
    <3>1. queue = <<>> /\ cur = NoMessage /\ timers = {} /\ \A p \in Listeners : stream[p] = 0
      BY DEF ServiceInit, Init, Idle
    <3>2. InQueue = {} /\ InCur = {} /\ InTimers = {} /\ \A p \in Listeners : InStream(p) = {}
      BY <3>1, OfEmpty DEF InQueue, InCur, InTimers, NoMessage, InStream, Live
    <3>. QED
      BY <3>2, OpenPlaces
  <2>. QED
    BY <2>1 DEF Promise!Init, ServiceInit, Init
<1>2. DeliveryInv /\ [Next]_vars => [Promise!Next]_(Promise!vars)
  BY DeliveryStep, StepPromise
<1>. QED
  BY <1>1, <1>2, DeliveryInvariance, PTL DEF Spec, Implements, Promise!Spec

\* retrySendingMessage and getStreamSource: a message is lost only after its last
\* retry, with its stream, or with the process.
THEOREM NoSilentLossHolds == Spec => NoSilentLoss
<1> DEFINE Loud ==
      \A i \in Open \ Open' :
        \/ \E p \in Listeners :
             /\ Live(p) /\ i \in IdsOf(route[p].source)
             /\ stream'[p] = 0 \/ posts'[i] = Posted(Head(route[p].source))
        \/ cur.id = i /\ cur.retriesCount = MaxRetries
        \/ node' = "off"
<1>1. ASSUME DeliveryInv, Effect PROVE Loud
  <2>1. CASE Accepts
    BY <2>1 DEF Accepts
  <2>2. ASSUME NEW p \in Listeners, Carries(p) PROVE Loud
    <3>0. TypeOK /\ posts \in [Ids -> [Urls -> Nat]]
      BY <1>1 DEF DeliveryInv, TypeOK
    <3>1. TypeOK /\ Open \subseteq Ids /\ posts \in [Ids -> [Urls -> Nat]]
      BY <3>0, OpenIds
    <3>2. Head(route[p].source).id \in IdsOf(route[p].source)
      BY <2>2, <3>1, PlaceTypes, OfTail DEF Carries
    <3>3. /\ Live(p) /\ Open \ Open' = {Head(route[p].source).id}
          /\ posts'[Head(route[p].source).id] = Posted(Head(route[p].source))
      BY <2>2, <3>1 DEF Carries
    <3>. QED
      BY <3>2, <3>3
  <2>3. CASE Loses
    BY <2>3 DEF Loses, Excused
  <2>. QED
    BY <1>1, <2>1, <2>2, <2>3 DEF Effect
<1>2. DeliveryInv /\ [Next]_vars => [Loud]_vars
  BY <1>1, DeliveryStep
<1>. QED
  BY <1>2, DeliveryInvariance, PTL DEF Spec, NoSilentLoss
=============================================================================
