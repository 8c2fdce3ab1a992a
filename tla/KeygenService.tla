---------------------------- MODULE KeygenService ----------------------------
(*****************************************************************************)
(* The keygen service: its dialer, the tss binary it runs, and the call that *)
(* asks the binary for a keygen once all guards are connected.  The API is   *)
(* served after the dialer is started; keygen is called after the API is.    *)
(*****************************************************************************)
EXTENDS Dialer

CONSTANT GuardsCount      \* guards of the keygen, this one included

ASSUME GuardsCountAssumption == GuardsCount \in Nat \ {0}

VARIABLES
  tss,       \* the tss binary: "off" or "running"
  keygen,    \* "no", "waiting" for peers, "ready" with 10 seconds to wait,
             \* "called", "refused": nobody answers, "failed": no node
  p2pIDs,    \* the peers the call names
  named      \* history: the identities under which this guard was named

vars == <<dialerVars, tss, keygen, p2pIDs, named>>

ServiceInit == Init /\ tss = "off" /\ keygen = "no" /\ p2pIDs = {} /\ named = {}

\* Tss.keygen, once the API is served.
Keygen ==
  /\ node # "off" /\ keygen = "no"
  /\ tss' = "running" /\ keygen' = "waiting"
  /\ UNCHANGED <<dialerVars, p2pIDs, named>>

\* runBinary, again after the binary closed.
RunBinary ==
  /\ tss = "off" /\ keygen # "no"
  /\ tss' = "running"
  /\ UNCHANGED <<dialerVars, keygen, p2pIDs, named>>

BinaryCloses ==
  /\ faults < MaxFaults /\ faults' = faults + 1
  /\ tss = "running" /\ tss' = "off"
  /\ UNCHANGED <<identity, messages, streams, peers, applications, sent, keygen, p2pIDs, named>>

\* Mutant: the guard itself is counted among its peers.
EnoughWithSelf(ps) == Cardinality(ps) >= GuardsCount

Enough(ps) == Cardinality(ps) >= GuardsCount - 1

\* tryCallApi: called again each second until there are enough peers.  Without
\* a node, getPeerIds throws, and nothing calls it again.
TryCallApi ==
  LET peerIds == connected \ Relays
  IN /\ keygen = "waiting"
     /\ \/ /\ node = "failed" /\ keygen' = "failed" /\ UNCHANGED p2pIDs
        \/ /\ node = "on" /\ Enough(peerIds)
           /\ keygen' = "ready" /\ p2pIDs' = peerIds
     /\ UNCHANGED <<dialerVars, tss, named>>

\* The POST, ten seconds later, when the file has been written: an error is
\* logged, and that is all.
CallApi ==
  /\ keygen = "ready" /\ file # 0
  /\ named' = named \cup {peerId}
  /\ keygen' = IF tss = "running" THEN "called" ELSE "refused"
  /\ UNCHANGED <<dialerVars, tss, p2pIDs>>

\* A new process starts from the beginning; the binary may outlive the old one.
ServiceCrash ==
  /\ Crash
  /\ tss' \in {tss, "off"} /\ keygen' = "no" /\ p2pIDs' = {} /\ UNCHANGED named

Next ==
  \/ DialerNext /\ UNCHANGED <<tss, keygen, p2pIDs, named>>
  \/ Keygen \/ RunBinary \/ BinaryCloses \/ TryCallApi \/ CallApi \/ ServiceCrash

\* The timers of the service fire.
Fairness ==
  /\ DialerFairness
  /\ WF_vars(Keygen) /\ WF_vars(RunBinary) /\ WF_vars(TryCallApi) /\ WF_vars(CallApi)

Spec == ServiceInit /\ [][Next]_vars /\ Fairness

-----------------------------------------------------------------------------
TypeOK ==
  /\ node \in {"off", "on", "failed"}
  /\ peerId \in Nat /\ file \in Nat /\ created \in Nat
  /\ queue \in Seq(QueuedMessage)
  /\ cur \in QueuedMessage \cup {NoMessage}
  /\ timers \subseteq QueuedMessage
  /\ stream \in [Listeners -> Nat]
  /\ route \in [Listeners -> [stream : Nat, source : Seq(QueuedMessage)]]
  /\ connected \subseteq Listeners \cup Relays
  /\ book \subseteq Listeners \cup Relays
  /\ intervals \in [Relays -> Nat]
  /\ subs \in [Listeners -> Seq(Urls)]
  /\ posts \in [Ids -> [Urls -> Nat]]
  /\ sent \in 0 .. MaxMessages /\ faults \in 0 .. MaxFaults
  /\ tss \in {"off", "running"}
  /\ keygen \in {"no", "waiting", "ready", "called", "refused", "failed"}
  /\ p2pIDs \subseteq Listeners /\ named \subseteq Nat

IdsOf(s) == {s[k].id : k \in 1 .. Len(s)}

\* Messages on their way: queued, taken, to be tried again, or in a stream that
\* still is open.
Open ==
  IdsOf(queue) \cup ({cur.id} \ {0}) \cup {m.id : m \in timers}
    \cup UNION {IdsOf(route[p].source) : p \in {q \in Listeners : Live(q)}}

\* No message is posted twice to an application, or after it was given up: the
\* dialer implements Delivery (processMessageQueue, handleBroadcast).
Promise == INSTANCE Delivery WITH open <- Open

Implements == Promise!Spec

\* A message leaves the dialer undelivered only after all its retries, or with
\* the stream it was written to, or with the process (retrySendingMessage,
\* getStreamSource).
NoSilentLoss ==
  [][\A i \in Open \ Open' :
       \/ \E p \in Listeners :
            /\ Live(p) /\ i \in IdsOf(route[p].source)
            /\ stream'[p] = 0 \/ posts'[i] = Posted(Head(route[p].source))
       \/ cur.id = i /\ cur.retriesCount = MaxRetries
       \/ node' = "off"]_vars

\* Every message accepted is settled in the end: no message is tried for ever,
\* and none keeps the others waiting (processMessageQueue).
Settles == \A i \in Ids : i \in Open ~> i \notin Open

\* A relay that is not connected has an address that libp2p dials, or an
\* interval that will give it one; one that is connected has no interval left
\* (tryReconnectingRelay).
RelaysWatched ==
  node = "on" =>
    \A r \in Relays : IF r \in connected THEN intervals[r] = 0
                      ELSE r \in book \/ intervals[r] = 1

\* A guard stays the peer it was named as in a keygen, whatever restarts come
\* after (getOrCreatePeerID, savePeerIdIfNeeded).
IdentityKept == node = "on" => named \subseteq {peerId}

\* Keygen is asked for in the end, unless the process dies (tryCallApi).
KeygenCalled ==
  node = "on" ~> keygen \in {"called", "refused"} \/ node = "off"
=============================================================================
