------------------------------- MODULE Dialer -------------------------------
(*****************************************************************************)
(* The dialer of the keygen service: the queue of messages to other guards,  *)
(* with its retries and its streams, the connections to guards and relays,   *)
(* and the subscribers that incoming messages are posted to.  The receivers  *)
(* are dialers too: what a stream carries is handled at its other end.       *)
(*                                                                           *)
(* The queue's loop is suspended while it opens a stream; all else that it   *)
(* does with a message is one step.  The delays of retries are not modelled: *)
(* a retry may come at any time.                                             *)
(*****************************************************************************)
EXTENDS Integers, Sequences, FiniteSets, SequencesExt

CONSTANTS
  Listeners,     \* the other guards
  Relays,        \* CommunicationConfig.relays.peerIDs
  Urls,          \* applications of a guard, by their callback URL
  MaxRetries,    \* messageSendingRetriesMaxCount
  MaxMessages,   \* BOUND: messages accepted
  MaxFaults      \* BOUND: connections and streams lost, processes that die

ASSUME DialerAssumption ==
  /\ Listeners \cap Relays = {} /\ IsFiniteSet(Listeners \cup Relays)
  /\ MaxRetries \in Nat /\ MaxMessages \in Nat /\ MaxFaults \in Nat

VARIABLES
  node,          \* "off": no process; "on": _node is set; "failed": it is not
  peerId,        \* the node's identity: the n-th that was created, 0 if no node
  file,          \* the identity in peerIdFilePath, 0 if none
  created,       \* identities created so far
  queue,         \* _messageQueue
  cur,           \* the message the loop is opening a stream for, or NoMessage
  timers,        \* messages that wait for their retry
  stream,        \* stream[p]: the open outbound stream to p, 0 if none
  route,         \* routesInfo[p]: the messages written to a stream of p
  connected,     \* getPeers()
  book,          \* peers that have an address
  intervals,     \* intervals[r]: intervals of tryReconnectingRelay
  subs,          \* subs[p]: _subscribedChannels of p, for one channel
  posts,         \* history: how often a message was posted to an URL
  sent,          \* messages accepted so far
  faults         \* connections and streams lost so far

identity == <<node, peerId, file, created>>
messages == <<queue, cur, timers>>
streams == <<stream, route>>
peers == <<connected, book, intervals>>
applications == <<subs, posts>>
dialerVars == <<identity, messages, streams, peers, applications, sent, faults>>

Ids == 1 .. MaxMessages
QueuedMessage == [id : Ids, peer : Listeners, retriesCount : 0 .. MaxRetries]
NoMessage == [id |-> 0]
NoRoute == [stream |-> 0, source |-> <<>>]

Idle ==
  /\ queue = <<>> /\ cur = NoMessage /\ timers = {}
  /\ stream = [p \in Listeners |-> 0] /\ route = [p \in Listeners |-> NoRoute]
  /\ connected = {} /\ book = Relays /\ intervals = [r \in Relays |-> 0]

Init ==
  /\ node = "off" /\ peerId = 0 /\ file = 0 /\ created = 0
  /\ Idle
  /\ subs = [p \in Listeners |-> <<>>]
  /\ posts = [i \in Ids |-> [u \in Urls |-> 0]]
  /\ sent = 0 /\ faults = 0

-----------------------------------------------------------------------------
\* Mutant: the file is not read.
CreatePeerID == created + 1

GetOrCreatePeerID == IF file # 0 THEN file ELSE created + 1

\* startDialer logs its errors; then there is no node.
StartDialer ==
  \/ /\ node' = "on" /\ peerId' = GetOrCreatePeerID
     /\ created' = IF peerId' > created THEN peerId' ELSE created
  \/ node' = "failed" /\ UNCHANGED <<peerId, created>>

\* The queue is processed with and without a node.
GetInstance ==
  /\ node = "off"
  /\ StartDialer
  /\ UNCHANGED <<file, messages, streams, peers, applications, sent, faults>>

\* The file is written meanwhile; the process dies if it cannot be.
SavePeerIdIfNeeded ==
  /\ node = "on" /\ file = 0
  /\ file' = peerId
  /\ UNCHANGED <<node, peerId, created, messages, streams, peers, applications, sent, faults>>

PushMessageToMessageQueue(p, id) ==
  Append(queue, [id |-> id, peer |-> p, retriesCount |-> 0])

\* sendMessage to one receiver, "ok" as soon as it is in the queue.
Send(p) ==
  /\ node # "off" /\ sent < MaxMessages
  /\ queue' = PushMessageToMessageQueue(p, sent + 1)
  /\ sent' = sent + 1
  /\ UNCHANGED <<identity, cur, timers, streams, peers, applications, faults>>

\* sendMessage without receiver: one message for each connected guard, no relay.
Broadcast ==
  LET to == SetToSeq(connected \cap Listeners)
  IN /\ node = "on" /\ to # <<>> /\ sent + Len(to) <= MaxMessages
     /\ queue' = queue \o [k \in 1 .. Len(to) |->
                   [id |-> sent + k, peer |-> to[k], retriesCount |-> 0]]
     /\ sent' = sent + Len(to)
     /\ UNCHANGED <<identity, cur, timers, streams, peers, applications, faults>>

\* The loop of processMessageQueue takes the next message.
Take ==
  /\ node # "off" /\ cur = NoMessage /\ queue # <<>>
  /\ cur' = Head(queue) /\ queue' = Tail(queue)
  /\ UNCHANGED <<identity, timers, streams, peers, applications, sent, faults>>

\* getStreamSource: a stream that is not the peer's last gets a new source.
Source(p, s) == IF route[p].stream = s THEN route[p].source ELSE <<>>

\* Mutant: no source is made for a new stream.
RouteOfPeer(p, s, m) ==
  [stream |-> IF route[p].stream = 0 THEN s ELSE route[p].stream,
   source |-> Append(route[p].source, m)]

Route(p, s, m) == [stream |-> s, source |-> Append(Source(p, s), m)]

\* getOpenStreamAndConnection: the open stream, or else a new one, on a
\* connection that is dialed if there is none.  What is pushed to the stream's
\* source is not waited for.
OpenStream ==
  LET p == cur.peer
      s == IF stream[p] # 0 THEN stream[p] ELSE route[p].stream + 1
  IN /\ cur # NoMessage /\ node = "on" /\ p \in connected \cup book
     /\ stream' = [stream EXCEPT ![p] = s]
     /\ route' = [route EXCEPT ![p] = Route(p, s, cur)]
     /\ connected' = connected \cup {p}
     /\ cur' = NoMessage
     /\ UNCHANGED <<identity, queue, timers, book, intervals, applications, sent, faults>>

\* Mutant: the number of retries is not looked at.
RetriedAlways(m) == {[m EXCEPT !.retriesCount = @ + 1]}

\* Mutant: the retry is not counted.
RetriedUncounted(m) == {m}

\* retrySendingMessage: another try later, or the message is dropped.
Retried(m) ==
  IF m.retriesCount + 1 <= MaxRetries
  THEN {[m EXCEPT !.retriesCount = @ + 1]} ELSE {}

OpenStreamFails ==
  /\ cur # NoMessage
  /\ timers' = timers \cup Retried(cur)
  /\ cur' = NoMessage
  /\ UNCHANGED <<identity, queue, streams, peers, applications, sent, faults>>

\* A retry goes to the end of the queue.
RetryDue(m) ==
  /\ timers' = timers \ {m}
  /\ queue' = Append(queue, m)
  /\ UNCHANGED <<identity, cur, streams, peers, applications, sent, faults>>

-----------------------------------------------------------------------------
\* handleBroadcast at the receiver: all its subscribers get the message.
Posted(m) ==
  [u \in Urls |-> posts[m.id][u]
     + Cardinality({k \in 1 .. Len(subs[m.peer]) : subs[m.peer][k] = u})]

Live(p) == stream[p] # 0 /\ route[p].stream = stream[p]

\* The stream carries the next message it was given.
Transmit(p) ==
  /\ Live(p) /\ route[p].source # <<>>
  /\ LET m == Head(route[p].source)
     IN posts' = [posts EXCEPT ![m.id] = Posted(m)]
  /\ route' = [route EXCEPT ![p].source = Tail(@)]
  /\ UNCHANGED <<identity, messages, stream, peers, subs, sent, faults>>

\* Mutant: an URL may subscribe again.
NotSubscribed(p, u) == TRUE

\* subscribeChannel: the same callback and URL only once.
NewSubscriber(p, u) == \A k \in 1 .. Len(subs[p]) : subs[p][k] # u

SubscribeChannel(p, u) ==
  /\ NewSubscriber(p, u)
  /\ subs' = [subs EXCEPT ![p] = Append(@, u)]
  /\ UNCHANGED <<identity, messages, streams, peers, posts, sent, faults>>

-----------------------------------------------------------------------------
\* The stream is reset: what was not carried yet is lost, and nobody is told.
StreamBreaks(p) ==
  /\ faults < MaxFaults /\ faults' = faults + 1
  /\ stream[p] # 0
  /\ stream' = [stream EXCEPT ![p] = 0]
  /\ UNCHANGED <<identity, messages, route, peers, applications, sent>>

\* tryReconnectingRelay: an interval that asks for the relay to be dialed.
TryReconnectingRelay(x) ==
  IF x \in Relays THEN [intervals EXCEPT ![x] = @ + 1] ELSE intervals

\* "peer:disconnect": the peer leaves the address book, its streams are gone.
Disconnect(x) ==
  /\ faults < MaxFaults /\ faults' = faults + 1
  /\ node = "on" /\ x \in connected
  /\ connected' = connected \ {x}
  /\ book' = book \ {x}
  /\ stream' = [p \in Listeners |-> IF p = x THEN 0 ELSE stream[p]]
  /\ intervals' = TryReconnectingRelay(x)
  /\ UNCHANGED <<identity, messages, route, applications, sent>>

\* The interval of tryReconnectingRelay: its address is in the book again.
Reconnect(r) ==
  /\ intervals[r] > 0 /\ r \notin book
  /\ book' = book \cup {r}
  /\ UNCHANGED <<identity, messages, streams, connected, intervals, applications, sent, faults>>

\* An address on a circuit through the relays, for those not connected.
AddPeersToAddressBook(ps) == book' = book \cup (ps \ connected)

\* "peer:discovery": a guard is found by way of a relay.
DiscoverPeer(p) ==
  /\ node = "on" /\ p \notin connected \cup book /\ Relays \cap connected # {}
  /\ AddPeersToAddressBook({p})
  /\ UNCHANGED <<identity, messages, streams, connected, intervals, applications, sent, faults>>

\* A relay, and nobody else, may name the peers it knows.
HandlePeerDiscovery(sender, ps) ==
  /\ node = "on" /\ sender \in connected
  /\ sender \in Relays /\ AddPeersToAddressBook(ps)
  /\ UNCHANGED <<identity, messages, streams, connected, intervals, applications, sent, faults>>

\* Mutant: any peer that connects ends all intervals.
AllCleared(x) == [r \in Relays |-> 0]

\* The listener of tryReconnectingRelay ends all intervals of a relay.
Cleared(x) == [r \in Relays |-> IF r = x THEN 0 ELSE intervals[r]]

\* "peer:connect": libp2p dials the peers that have an address.
Connect(x) ==
  /\ node = "on" /\ x \in book \ connected
  /\ connected' = connected \cup {x}
  /\ intervals' = Cleared(x)
  /\ UNCHANGED <<identity, messages, streams, book, applications, sent, faults>>

\* The process dies, with all it holds.
Crash ==
  /\ faults < MaxFaults /\ faults' = faults + 1
  /\ node # "off" /\ node' = "off" /\ peerId' = 0
  /\ queue' = <<>> /\ cur' = NoMessage /\ timers' = {}
  /\ stream' = [p \in Listeners |-> 0] /\ route' = [p \in Listeners |-> NoRoute]
  /\ connected' = {} /\ book' = Relays /\ intervals' = [r \in Relays |-> 0]
  /\ UNCHANGED <<file, created, applications, sent>>

DialerNext ==
  \/ GetInstance \/ SavePeerIdIfNeeded \/ Broadcast \/ Take \/ OpenStream \/ OpenStreamFails
  \/ \E m \in timers : RetryDue(m)
  \/ \E p \in Listeners :
       \/ Send(p) \/ Transmit(p) \/ StreamBreaks(p) \/ DiscoverPeer(p)
       \/ \E u \in Urls : SubscribeChannel(p, u)
  \/ \E x \in Listeners \cup Relays : Disconnect(x) \/ Connect(x)
  \/ \E r \in Relays :
       Reconnect(r) \/ \E ps \in SUBSET Listeners : HandlePeerDiscovery(r, ps)

\* Dials end, timers fire, streams carry what they are given, and libp2p finds
\* and dials peers.
DialerFairness ==
  /\ WF_dialerVars(GetInstance) /\ WF_dialerVars(SavePeerIdIfNeeded)
  /\ WF_dialerVars(Take)
  /\ WF_dialerVars(OpenStream \/ OpenStreamFails)
  /\ WF_dialerVars(\E m \in timers : RetryDue(m))
  /\ \A p \in Listeners : WF_dialerVars(Transmit(p)) /\ WF_dialerVars(DiscoverPeer(p))
  /\ \A x \in Listeners \cup Relays : WF_dialerVars(Connect(x))
  /\ \A r \in Relays : WF_dialerVars(Reconnect(r))
=============================================================================
