------------------------ MODULE GuardDetectionProofs ------------------------
(***************************************************************************)
(* Proofs about GuardDetection, for any number of guards, any timeouts and *)
(* any number of restarts; and, in the second half, about the prompt       *)
(* network, in which nobody restarts and guards find each other.           *)
(***************************************************************************)
EXTENDS GuardDetection, FiniteSetTheorems, TLAPS

-----------------------------------------------------------------------------
\* The inductive invariant

\* A guard uses identifiers of its own, and those it gave up it gave up in the
\* past.
PeersOwned ==
  /\ \A g \in Guards : peer[g][1] = g
  /\ \A p \in Peers : p[2] < peer[p[1]][2] => left[p] \in Nat /\ left[p] <= now

\* A message was sent in the past, under an identifier that its sender had then.
SentBefore ==
  \A m \in msgs :
    /\ m.peer[1] = m.from /\ m.peer[2] <= peer[m.from][2]
    /\ m.at <= now
    /\ m.peer # peer[m.from] => m.at <= left[m.peer]

\* What is known of a guard is an identifier of it.  One it has given up was
\* confirmed by a message sent before, and received while it was valid.
KnownOf(g, h) ==
  info[g][h].peer # None =>
    /\ info[g][h].peer[1] = h /\ info[g][h].peer[2] <= peer[h][2]
    /\ info[g][h].lastUpdate <= now
    /\ info[g][h].peer # peer[h] =>
         info[g][h].lastUpdate <= left[info[g][h].peer] + MessageValid

KnownBefore == \A g, h \in Guards : KnownOf(g, h)

\* The nonces that messages carry or answer have been made.
NoncesMade ==
  \A m \in msgs :
    /\ m.nonce # None => m.nonce.no <= made[m.nonce.by]
    /\ m.answer # None => m.answer.no <= made[m.answer.by]

\* An answer to a nonce that still counts was sent after what is known of its
\* sender was last confirmed.
AnswersLater ==
  \A g, h \in Guards, m \in msgs :
    m.from = h /\ m.answer \in info[g][h].nonces /\ info[g][h].peer # None
      => info[g][h].peer[2] <= m.peer[2]

DetectionInv ==
  /\ TypeOK
  /\ PeersOwned /\ SentBefore /\ KnownBefore
  /\ NoncesMade /\ AnswersLater
  /\ NobodyWaits

-----------------------------------------------------------------------------
\* What an action of g does, but for its restart

\* A message that g sends now answers nothing, or a nonce that was sent.
SentNow(g, m) ==
  /\ m.from = g /\ m.peer = peer[g] /\ m.at = now
  /\ m.nonce = None \/ (m.nonce.by = g /\ m.nonce.no <= made'[g])
  /\ m.answer = None \/ \E q \in msgs : m.answer = q.nonce

\* What g knows of h stays as it is; it may begin to wait if h is not active.
Kept(g, h) ==
  /\ info'[g][h].peer = info[g][h].peer
  /\ info'[g][h].lastUpdate = info[g][h].lastUpdate
  /\ Active(g, h) => info'[g][h].callbacks = info[g][h].callbacks

\* h has answered a nonce that counts.
Confirmed(g, h) ==
  \E m \in msgs :
    /\ m.from = h /\ m.answer \in info[g][h].nonces
    /\ now - MessageValid <= m.at
    /\ info'[g][h] = [peer |-> m.peer, nonces |-> {}, lastUpdate |-> now, callbacks |-> {}]

Exchange(g) ==
  /\ UNCHANGED <<now, peer, left>>
  /\ \A x \in Guards : made[x] <= made'[x]
  /\ \A m \in msgs' : m \in msgs \/ SentNow(g, m)
  /\ \A x, h \in Guards : \A n \in info'[x][h].nonces :
       n \in info[x][h].nonces \/ (n \in Nonce /\ n.by = g /\ made[g] < n.no)
  /\ \A x, h \in Guards : Kept(x, h) \/ Confirmed(x, h)
-----------------------------------------------------------------------------
\* Types

LEMMA GuardsFinite == IsFiniteSet(Guards) /\ Guards \subseteq Int
<1>1. N - 1 \in Int /\ 0 \in Int
  BY SizeAssumption
<1>2. QED
  BY <1>1, FS_Interval DEF Guards

LEMMA NewNonceType ==
  ASSUME TypeOK, NEW g \in Guards, NEW k \in Nat
  PROVE  NewNonce(g, k) \in Nonce /\ NewNonce(g, k) # None
  BY NoneAssumption DEF NewNonce, Nonce, TypeOK

LEMMA SendType ==
  ASSUME TypeOK, NEW g \in Guards, NEW type \in {"register", "approval", "heartbeat"},
         NEW to \in Peers \cup {None}, NEW nonce \in Nonce \cup {None},
         NEW answer \in Nonce \cup {None}
  PROVE  /\ Send(g, type, to, nonce, answer) \in Message
         /\ Send(g, type, to, nonce, answer).to = to
         /\ Send(g, type, to, nonce, answer).type = type
  BY DEF Send, Message, TypeOK

LEMMA WithNonces ==
  ASSUME NEW i \in Info, NEW s \in SUBSET Nonce
  PROVE  [i EXCEPT !.nonces = s] \in Info
  BY DEF Info

LEMMA ClearedType ==
  ASSUME TypeOK, NEW g \in Guards
  PROVE  Cleared(g) \in [Guards -> Info]
<1>1. \A h \in Guards : info[g][h] \in Info /\ info[g][h].nonces \in SUBSET Nonce
  BY DEF TypeOK, Info
<1>2. \A h \in Guards :
        [info[g][h] EXCEPT !.nonces = {n \in @ : Valid(n)}] \in Info
  BY <1>1, WithNonces
<1>3. QED
  BY <1>2 DEF Cleared

\* How many heartbeats are due, up to that of h.
LEMMA DueCount ==
  ASSUME NEW due \in SUBSET Guards, NEW h \in due
  PROVE  /\ Cardinality(due) \in Nat
         /\ Cardinality({k \in due : k <= h}) \in Nat \ {0}
         /\ Cardinality({k \in due : k <= h}) <= Cardinality(due)
<1> DEFINE D == {k \in due : k <= h}
<1>1. IsFiniteSet(due) /\ h \in Int
  BY GuardsFinite, FS_Subset
<1>2. IsFiniteSet(D) /\ Cardinality(D) <= Cardinality(due)
  BY <1>1, FS_Subset
<1>3. D # {}
  BY <1>1
<1>4. QED
  BY <1>1, <1>2, <1>3, FS_CardinalityType, FS_EmptySet

LEMMA InitialiseType ==
  ASSUME TypeOK, NEW g \in Guards, NEW known \in [Guards -> Info],
         Initialise(g, known)
  PROVE  /\ info' \in [Guards -> [Guards -> Info]] /\ made' \in [Guards -> Nat]
         /\ msgs' \subseteq Message
         /\ \A m \in msgs' : m.to = None => m.type = "register"
<1>1. NewNonce(g, 1) \in Nonce
  BY NewNonceType
<1>2. Send(g, "register", None, NewNonce(g, 1), None) \in Message
      /\ Send(g, "register", None, NewNonce(g, 1), None).type = "register"
  BY <1>1 DEF Send, Message, TypeOK
<1>3. CASE MustInit(g, known)
  <2>1. info' \in [Guards -> [Guards -> Info]]
    <3>1. \A h \in Guards : known[h] \in Info /\ known[h].nonces \in SUBSET Nonce
      BY DEF Info
    <3>2. \A h \in Guards :
            [known[h] EXCEPT !.nonces = {n \in @ : Valid(n)} \cup {NewNonce(g, 1)}] \in Info
      BY <1>1, <3>1, WithNonces
    <3>3. [h \in Guards |-> [known[h] EXCEPT !.nonces =
             {n \in @ : Valid(n)} \cup {NewNonce(g, 1)}]] \in [Guards -> Info]
      BY <3>2
    <3>4. info \in [Guards -> [Guards -> Info]]
      BY DEF TypeOK
    <3>5. QED
      BY <1>3, <3>3, <3>4, Zenon DEF Initialise
  <2>2. made' \in [Guards -> Nat]
    BY <1>3 DEF Initialise, TypeOK
  <2>3. msgs' = msgs \cup {Send(g, "register", None, NewNonce(g, 1), None)}
    BY <1>3 DEF Initialise
  <2>4. QED
    BY <1>2, <2>1, <2>2, <2>3 DEF TypeOK
<1>4. CASE ~MustInit(g, known)
  BY <1>4 DEF Initialise, TypeOK
<1>5. QED
  BY <1>3, <1>4

LEMMA HeartbeatsType ==
  ASSUME TypeOK, NEW g \in Guards, Heartbeats(g)
  PROVE  /\ info' \in [Guards -> [Guards -> Info]] /\ made' \in [Guards -> Nat]
         /\ msgs' \subseteq Message
         /\ \A m \in msgs' : m.to = None => m.type = "register"
<1> DEFINE due == {h \in Guards : HeartbeatDue(g, h)}
           Nth(h) == Cardinality({k \in due : k <= h})
           For(k) == {NewNonce(g, Nth(h)) : h \in {h \in due : h = k \/ h = 0}}
<1>1. /\ info' = [info EXCEPT ![g] =
           [k \in Guards |-> [Cleared(g)[k] EXCEPT !.nonces = @ \cup For(k)]]]
      /\ made' = [made EXCEPT ![g] = @ + Cardinality(due)]
      /\ msgs' = msgs \cup
           {Send(g, "heartbeat", info[g][h].peer, NewNonce(g, Nth(h)), None) : h \in due}
  BY DEF Heartbeats
<1>2. Cardinality(due) \in Nat
  BY GuardsFinite, FS_Subset, FS_CardinalityType
<1>3. \A h \in due : Nth(h) \in Nat /\ NewNonce(g, Nth(h)) \in Nonce
  <2>1. \A h \in due : Nth(h) \in Nat
    BY DueCount
  <2>2. QED
    BY <2>1, NewNonceType
<1>4. \A h \in due : info[g][h].peer \in Peers
  BY DEF HeartbeatDue, Cleared, TypeOK, Info
<1>5. \A h \in due :
        LET s == Send(g, "heartbeat", info[g][h].peer, NewNonce(g, Nth(h)), None)
        IN s \in Message /\ s.to # None
  BY <1>3, <1>4, SendType, SizeAssumption
<1>6. \A k \in Guards : For(k) \subseteq Nonce
  BY <1>3
<1>7. info' \in [Guards -> [Guards -> Info]]
  <2> HIDE DEF For
  <2>1. [k \in Guards |-> [Cleared(g)[k] EXCEPT !.nonces = @ \cup For(k)]]
          \in [Guards -> Info]
    BY <1>6, ClearedType, ZenonT(60) DEF Info
  <2>2. QED
    BY <1>1, <2>1 DEF TypeOK
<1>8. made' \in [Guards -> Nat]
  BY <1>1, <1>2 DEF TypeOK
<1>9. /\ msgs' \subseteq Message
      /\ \A m \in msgs' : m.to = None => m.type = "register"
  <2> DEFINE new(h) == Send(g, "heartbeat", info[g][h].peer, NewNonce(g, Nth(h)), None)
  <2>1. \A h \in due : new(h) \in Message /\ new(h).to # None
    BY <1>5
  <2>2. msgs' = msgs \cup {new(h) : h \in due}
    BY <1>1
  <2> HIDE DEF new, due
  <2>3. QED
    BY <2>1, <2>2 DEF TypeOK
<1>10. QED
  BY <1>7, <1>8, <1>9

LEMMA ReceiveType ==
  ASSUME TypeOK, NEW g \in Guards, NEW m \in msgs, Receive(g, m)
  PROVE  /\ m \in Message /\ m.from \in Guards /\ m.peer \in Peers
         /\ received' \subseteq (Guards \X Message)
  BY DEF TypeOK, Receive, Message

LEMMA AnswerType ==
  ASSUME TypeOK, NEW g \in Guards, NEW m \in msgs, NEW nonce \in Nonce \cup {None}
  PROVE  LET s == Send(g, "approval", m.peer, nonce, m.nonce)
         IN s \in Message /\ s.to # None
  BY SizeAssumption DEF Send, Message, TypeOK

LEMMA TypeStep ==
  ASSUME TypeOK, [Next]_vars
  PROVE  TypeOK'
<1>1. CASE UNCHANGED vars
  BY <1>1 DEF TypeOK, vars
<1>2. CASE Tick
  BY <1>2 DEF Tick, TypeOK
<1>3. ASSUME NEW g \in Guards, CallInit(g) PROVE TypeOK'
  <2>1. info[g] \in [Guards -> Info]
    BY DEF TypeOK
  <2>2. QED
    BY <1>3, <2>1, InitialiseType DEF CallInit, TypeOK
<1>4. ASSUME NEW g \in Guards, Update(g) PROVE TypeOK'
  <2>1. /\ info' \in [Guards -> [Guards -> Info]] /\ made' \in [Guards -> Nat]
        /\ msgs' \subseteq Message
        /\ \A m \in msgs' : m.to = None => m.type = "register"
    BY <1>4, ClearedType, InitialiseType, HeartbeatsType DEF Update
  <2>2. QED
    BY <1>4, <2>1 DEF Update, TypeOK
<1>5. ASSUME NEW g \in Guards, Restart(g) PROVE TypeOK'
  <2>1. Unknown \in Info
    BY DEF Unknown, Info
  <2>2. peer[g][2] + 1 \in 0 .. MaxRestarts
    BY <1>5, SizeAssumption DEF Restart, TypeOK, Peers
  <2>3. peer' \in [Guards -> Peers]
    BY <1>5, <2>2 DEF Restart, TypeOK, Peers
  <2>4. QED
    BY <1>5, <2>1, <2>3 DEF Restart, TypeOK
<1>6. ASSUME NEW g \in Guards, NEW m \in msgs, HandleRegister(g, m) PROVE TypeOK'
  <2>1. Receive(g, m) /\ NewNonce(g, 1) \in Nonce /\ Cleared(g) \in [Guards -> Info]
    BY <1>6, NewNonceType, ClearedType DEF HandleRegister
  <2>2. AddNonce(Cleared(g), m.from, NewNonce(g, 1)) \in [Guards -> Info]
    <3>1. \A k \in Guards : Cleared(g)[k] \in Info /\ Cleared(g)[k].nonces \in SUBSET Nonce
      BY <2>1 DEF Info
    <3>2. \A k \in Guards :
            [Cleared(g)[k] EXCEPT !.nonces = @ \cup {NewNonce(g, 1)}] \in Info
      BY <2>1, <3>1, WithNonces
    <3>3. QED
      BY <2>1, <3>1, <3>2 DEF AddNonce
  <2>3. info' \in [Guards -> [Guards -> Info]]
    BY <1>6, <2>2 DEF HandleRegister, TypeOK
  <2>4. msgs' = msgs \cup {Send(g, "approval", m.peer, NewNonce(g, 1), m.nonce)}
    BY <1>6 DEF HandleRegister
  <2>5. LET s == Send(g, "approval", m.peer, NewNonce(g, 1), m.nonce)
        IN s \in Message /\ s.to # None
    BY <2>1, AnswerType
  <2>6. /\ msgs' \subseteq Message
        /\ \A q \in msgs' : q.to = None => q.type = "register"
    BY <2>4, <2>5 DEF TypeOK
  <2>7. received' \subseteq (Guards \X Message)
    BY <2>1, ReceiveType
  <2>8. QED
    BY <1>6, <2>3, <2>6, <2>7 DEF HandleRegister, TypeOK
<1>7. ASSUME NEW g \in Guards, NEW m \in msgs, HandleHeartbeat(g, m) PROVE TypeOK'
  <2>1. Receive(g, m)
    BY <1>7 DEF HandleHeartbeat
  <2>2. msgs' = msgs \cup {Send(g, "approval", m.peer, None, m.nonce)}
    BY <1>7 DEF HandleHeartbeat
  <2>3. LET s == Send(g, "approval", m.peer, None, m.nonce)
        IN s \in Message /\ s.to # None
    BY AnswerType
  <2>4. /\ msgs' \subseteq Message
        /\ \A q \in msgs' : q.to = None => q.type = "register"
    BY <2>2, <2>3 DEF TypeOK
  <2>5. received' \subseteq (Guards \X Message)
    BY <2>1, ReceiveType
  <2>6. QED
    BY <1>7, <2>4, <2>5 DEF HandleHeartbeat, TypeOK
<1>8. ASSUME NEW g \in Guards, NEW m \in msgs, HandleApproval(g, m) PROVE TypeOK'
  <2>1. /\ Receive(g, m) /\ Cleared(g) \in [Guards -> Info]
        /\ info \in [Guards -> [Guards -> Info]]
    BY <1>8, ClearedType DEF HandleApproval, TypeOK
  <2>2. ApprovedInfo(Cleared(g), m) \in [Guards -> Info]
    <3>1. [peer |-> m.peer, nonces |-> {}, lastUpdate |-> now, callbacks |-> {}] \in Info
      BY <2>1, ReceiveType DEF Info, TypeOK
    <3>2. QED
      BY <2>1, <3>1, ReceiveType DEF ApprovedInfo
  <2>3. info' \in [Guards -> [Guards -> Info]]
    BY <1>8, <2>1, <2>2 DEF HandleApproval
  <2>4. msgs' \subseteq msgs \cup Answer(g, m)
    BY <1>8 DEF HandleApproval
  <2>5. \A s \in Answer(g, m) : s \in Message /\ s.to # None
    BY AnswerType DEF Answer
  <2>6. /\ msgs' \subseteq Message
        /\ \A q \in msgs' : q.to = None => q.type = "register"
    BY <2>4, <2>5 DEF TypeOK
  <2>7. received' \subseteq (Guards \X Message)
    BY <2>1, ReceiveType
  <2>8. QED
    BY <1>8, <2>3, <2>6, <2>7 DEF HandleApproval, TypeOK
<1>9. ASSUME NEW g \in Guards, NEW h \in Guards, NEW p \in Peers, Register(g, h, p)
      PROVE  TypeOK'
  <2>1. NewNonce(g, 1) \in Nonce /\ Cleared(g) \in [Guards -> Info]
    BY NewNonceType, ClearedType
  <2>2. [Cleared(g) EXCEPT ![h].nonces = @ \cup {NewNonce(g, 1)},
                           ![h].callbacks = @ \cup {p}] \in [Guards -> Info]
    BY <2>1 DEF Info
  <2>3. info' \in [Guards -> [Guards -> Info]]
    BY <1>9, <2>2 DEF Register, TypeOK
  <2>4. msgs' = msgs \cup {Send(g, "register", p, NewNonce(g, 1), None)}
    BY <1>9 DEF Register
  <2>5. /\ Send(g, "register", p, NewNonce(g, 1), None) \in Message
        /\ Send(g, "register", p, NewNonce(g, 1), None).type = "register"
    BY <2>1 DEF Send, Message, TypeOK
  <2>6. QED
    BY <1>9, <2>3, <2>4, <2>5 DEF Register, TypeOK
<1>10. QED
  BY <1>1, <1>2, <1>3, <1>4, <1>5, <1>6, <1>7, <1>8, <1>9 DEF Next

\* The state has its type: what is known, sent and counted stays within it.
THEOREM TypeCorrect == Spec => []TypeOK
<1>1. Init => TypeOK
  BY SizeAssumption, TimeAssumption
  DEF Init, TypeOK, Unknown, Info, Peers
<1>2. TypeOK /\ [Next]_vars => TypeOK'
  BY TypeStep
<1>3. QED
  BY <1>1, <1>2, PTL DEF Spec

-----------------------------------------------------------------------------
\* Every action of a guard but its restart is an Exchange

\* known is what g knows, with some of the nonces cleared and those of new added.
Renewed(g, known, new) ==
  \A h \in Guards : \E s \in SUBSET info[g][h].nonces :
    known[h] = [info[g][h] EXCEPT !.nonces = s \cup new[h]]

NoneNew == [h \in Guards |-> {}]

\* Nonces cleared and added change nothing else of what g knows.
LEMMA KeptByNonces ==
  ASSUME TypeOK, NEW g \in Guards, NEW new \in [Guards -> SUBSET Nonce],
         NEW known \in [Guards -> Info],
         Renewed(g, known, new),
         info' = [info EXCEPT ![g] = known],
         \A h \in Guards : \A n \in new[h] : n.by = g /\ made[g] < n.no
  PROVE  /\ \A x, h \in Guards : \A n \in info'[x][h].nonces :
              n \in info[x][h].nonces \/ (n \in Nonce /\ n.by = g /\ made[g] < n.no)
         /\ \A x, h \in Guards : Kept(x, h)
<1>1. SUFFICES ASSUME NEW x \in Guards, NEW h \in Guards
      PROVE  /\ \A n \in info'[x][h].nonces :
                  n \in info[x][h].nonces \/ (n \in Nonce /\ n.by = g /\ made[g] < n.no)
             /\ Kept(x, h)
  OBVIOUS
<1>2. CASE x # g
  BY <1>2 DEF TypeOK, Kept
<1>3. CASE x = g
  <2>1. info'[x][h] = known[h]
    BY <1>3 DEF TypeOK
  <2>2. PICK s \in SUBSET info[g][h].nonces :
          known[h] = [info[g][h] EXCEPT !.nonces = s \cup new[h]]
    BY DEF Renewed
  <2>3. info[g][h] \in Info
    BY DEF TypeOK
  <2>4. QED
    BY <1>3, <2>1, <2>2, <2>3 DEF Kept, Info
<1>4. QED
  BY <1>2, <1>3

LEMMA ClearedNonces ==
  ASSUME TypeOK, NEW g \in Guards, NEW h \in Guards
  PROVE  \E s \in SUBSET info[g][h].nonces :
           Cleared(g)[h] = [info[g][h] EXCEPT !.nonces = s]
  BY DEF Cleared

LEMMA ClearedRenewed ==
  ASSUME TypeOK, NEW g \in Guards, NEW known, known = Cleared(g) \/ known = info[g]
  PROVE  Renewed(g, known, NoneNew)
<1> SUFFICES ASSUME NEW h \in Guards
    PROVE  \E s \in SUBSET info[g][h].nonces :
             known[h] = [info[g][h] EXCEPT !.nonces = s \cup NoneNew[h]]
  BY DEF Renewed
<1>1. \A s : s \cup NoneNew[h] = s
  BY DEF NoneNew
<1>2. CASE known = Cleared(g)
  <2>1. PICK s \in SUBSET info[g][h].nonces :
          Cleared(g)[h] = [info[g][h] EXCEPT !.nonces = s]
    BY ClearedNonces
  <2>2. known[h] = [info[g][h] EXCEPT !.nonces = s \cup NoneNew[h]]
    BY <1>1, <1>2, <2>1
  <2>3. QED
    BY <2>2
<1>3. CASE known = info[g]
  <2>1. known[h] = [info[g][h] EXCEPT !.nonces = info[g][h].nonces]
    BY <1>3 DEF TypeOK, Info
  <2>2. QED
    BY <1>1, <2>1
<1>4. QED
  BY <1>2, <1>3

LEMMA InitialiseExchange ==
  ASSUME TypeOK, NEW g \in Guards, NEW known \in [Guards -> Info],
         Renewed(g, known, NoneNew),
         Initialise(g, known), UNCHANGED <<now, peer, left>>
  PROVE  Exchange(g)
<1>1. CASE MustInit(g, known)
  <2> DEFINE new == [h \in Guards |-> {NewNonce(g, 1)}]
             knows == [h \in Guards |-> [known[h] EXCEPT !.nonces =
                         {n \in @ : Valid(n)} \cup {NewNonce(g, 1)}]]
  <2>1. /\ info' = [info EXCEPT ![g] = knows]
        /\ made' = [made EXCEPT ![g] = @ + 1]
        /\ msgs' = msgs \cup {Send(g, "register", None, NewNonce(g, 1), None)}
    BY <1>1 DEF Initialise
  <2>2. /\ NewNonce(g, 1) \in Nonce /\ NewNonce(g, 1).by = g
        /\ made[g] < NewNonce(g, 1).no /\ NewNonce(g, 1).no <= made[g] + 1
    <3>1. NewNonce(g, 1) \in Nonce
      BY NewNonceType
    <3>2. QED
      BY <3>1 DEF NewNonce, TypeOK
  <2>3. new \in [Guards -> SUBSET Nonce] /\ \A h \in Guards : new[h] = {NewNonce(g, 1)}
    BY <2>2
  <2>4. Renewed(g, knows, new)
    <3> HIDE DEF knows, new
    <3> SUFFICES ASSUME NEW h \in Guards
        PROVE  \E s \in SUBSET info[g][h].nonces :
                 knows[h] = [info[g][h] EXCEPT !.nonces = s \cup new[h]]
      BY DEF Renewed
    <3>1. PICK s \in SUBSET info[g][h].nonces : known[h] = [info[g][h] EXCEPT !.nonces = s]
      BY DEF Renewed, NoneNew
    <3>2. info[g][h] \in Info
      BY DEF TypeOK
    <3>3. knows[h] = [info[g][h] EXCEPT !.nonces = {n \in s : Valid(n)} \cup new[h]]
      BY <2>3, <3>1, <3>2 DEF Info, knows
    <3>4. {n \in s : Valid(n)} \in SUBSET info[g][h].nonces
      OBVIOUS
    <3>5. QED
      BY <3>3, <3>4
  <2>5. knows \in [Guards -> Info]
    <3>1. \A h \in Guards : known[h] \in Info /\ known[h].nonces \in SUBSET Nonce
      BY DEF Info
    <3>2. QED
      BY <2>2, <3>1, WithNonces
  <2>6. /\ \A x, h \in Guards : \A n \in info'[x][h].nonces :
             n \in info[x][h].nonces \/ (n \in Nonce /\ n.by = g /\ made[g] < n.no)
        /\ \A x, h \in Guards : Kept(x, h)
    <3>1. \A h \in Guards : \A n \in new[h] : n.by = g /\ made[g] < n.no
      BY <2>2, <2>3
    <3> HIDE DEF new, knows
    <3>2. QED
      BY <2>1, <2>3, <2>4, <2>5, <3>1, KeptByNonces
  <2>7. /\ \A x \in Guards : made[x] <= made'[x]
        /\ made'[g] = made[g] + 1
    BY <2>1 DEF TypeOK
  <2>8. SentNow(g, Send(g, "register", None, NewNonce(g, 1), None))
    BY <2>2, <2>7 DEF SentNow, Send
  <2>9. QED
    BY <2>1, <2>6, <2>7, <2>8 DEF Exchange
<1>2. CASE ~MustInit(g, known)
  <2>1. info' = [info EXCEPT ![g] = known] /\ made' = made /\ msgs' = msgs
    BY <1>2 DEF Initialise
  <2>2. NoneNew \in [Guards -> SUBSET Nonce] /\ \A h \in Guards : NoneNew[h] = {}
    BY DEF NoneNew
  <2>4. /\ \A x, h \in Guards : \A n \in info'[x][h].nonces :
             n \in info[x][h].nonces \/ (n \in Nonce /\ n.by = g /\ made[g] < n.no)
        /\ \A x, h \in Guards : Kept(x, h)
    BY <2>1, <2>2, KeptByNonces
  <2>5. QED
    BY <2>1, <2>4 DEF Exchange, TypeOK
<1>3. QED
  BY <1>1, <1>2

LEMMA HeartbeatsExchange ==
  ASSUME TypeOK, NEW g \in Guards, Heartbeats(g), UNCHANGED <<now, peer, left>>
  PROVE  Exchange(g)
<1> DEFINE due == {h \in Guards : HeartbeatDue(g, h)}
           Nth(h) == Cardinality({k \in due : k <= h})
           For(k) == {NewNonce(g, Nth(h)) : h \in {h \in due : h = k \/ h = 0}}
           new == [k \in Guards |-> For(k)]
           knows == [k \in Guards |-> [Cleared(g)[k] EXCEPT !.nonces = @ \cup For(k)]]
           sent(h) == Send(g, "heartbeat", info[g][h].peer, NewNonce(g, Nth(h)), None)
<1>1. /\ info' = [info EXCEPT ![g] = knows]
      /\ made' = [made EXCEPT ![g] = @ + Cardinality(due)]
      /\ msgs' = msgs \cup {sent(h) : h \in due}
  BY DEF Heartbeats
<1>2. Cardinality(due) \in Nat
  BY GuardsFinite, FS_Subset, FS_CardinalityType
<1>3. \A h \in due : /\ NewNonce(g, Nth(h)) \in Nonce /\ NewNonce(g, Nth(h)).by = g
                     /\ made[g] < NewNonce(g, Nth(h)).no
                     /\ NewNonce(g, Nth(h)).no <= made[g] + Cardinality(due)
  <2> SUFFICES ASSUME NEW h \in due
      PROVE  /\ NewNonce(g, Nth(h)) \in Nonce /\ NewNonce(g, Nth(h)).by = g
             /\ made[g] < NewNonce(g, Nth(h)).no
             /\ NewNonce(g, Nth(h)).no <= made[g] + Cardinality(due)
    OBVIOUS
  <2>1. Nth(h) \in Nat \ {0} /\ Nth(h) <= Cardinality(due)
    BY DueCount
  <2> HIDE DEF Nth, due
  <2>2. NewNonce(g, Nth(h)) \in Nonce
    BY <2>1, NewNonceType
  <2>3. QED
    BY <1>2, <2>1, <2>2 DEF NewNonce, TypeOK
<1>4. \A k \in Guards : For(k) \subseteq Nonce /\ \A n \in For(k) : n.by = g /\ made[g] < n.no
  BY <1>3
<1>5. new \in [Guards -> SUBSET Nonce] /\ \A k \in Guards : new[k] = For(k)
  <2> HIDE DEF For
  <2>1. QED
    BY <1>4
<1>6. Renewed(g, knows, new)
  <2> HIDE DEF For, new
  <2> SUFFICES ASSUME NEW h \in Guards
      PROVE  \E s \in SUBSET info[g][h].nonces :
               knows[h] = [info[g][h] EXCEPT !.nonces = s \cup new[h]]
    BY DEF Renewed
  <2>1. PICK s \in SUBSET info[g][h].nonces :
          Cleared(g)[h] = [info[g][h] EXCEPT !.nonces = s]
    BY ClearedNonces
  <2>2. info[g][h] \in Info
    BY DEF TypeOK
  <2>3. QED
    BY <1>5, <2>1, <2>2 DEF Info
<1>7. knows \in [Guards -> Info]
  <2>1. Cleared(g) \in [Guards -> Info]
    BY ClearedType
  <2>2. \A k \in Guards : Cleared(g)[k] \in Info /\ Cleared(g)[k].nonces \in SUBSET Nonce
    BY <2>1 DEF Info
  <2> HIDE DEF For
  <2>3. \A k \in Guards : [Cleared(g)[k] EXCEPT !.nonces = @ \cup For(k)] \in Info
    BY <1>4, <2>2, WithNonces
  <2>4. QED
    BY <2>3
<1>8. /\ \A x, h \in Guards : \A n \in info'[x][h].nonces :
           n \in info[x][h].nonces \/ (n \in Nonce /\ n.by = g /\ made[g] < n.no)
      /\ \A x, h \in Guards : Kept(x, h)
  <2>1. \A h \in Guards : \A n \in new[h] : n.by = g /\ made[g] < n.no
    <3> HIDE DEF For, new
    <3>1. QED
      BY <1>4, <1>5
  <2> HIDE DEF new, knows
  <2>2. QED
    BY <1>1, <1>5, <1>6, <1>7, <2>1, KeptByNonces
<1>9. /\ \A x \in Guards : made[x] <= made'[x]
      /\ made'[g] = made[g] + Cardinality(due)
  <2> HIDE DEF due
  <2>1. QED
    BY <1>1, <1>2 DEF TypeOK
<1>10. \A h \in due : SentNow(g, sent(h))
  <2> HIDE DEF due, Nth
  <2>1. QED
    BY <1>3, <1>9 DEF SentNow, Send
<1>11. \A m \in msgs' : m \in msgs \/ SentNow(g, m)
  <2> HIDE DEF sent, due
  <2>1. QED
    BY <1>1, <1>10
<1>12. QED
  BY <1>8, <1>9, <1>11 DEF Exchange

LEMMA HandleRegisterExchange ==
  ASSUME TypeOK, NEW g \in Guards, NEW m \in msgs, HandleRegister(g, m)
  PROVE  Exchange(g)
<1> DEFINE nonce == NewNonce(g, 1)
           new == [k \in Guards |-> IF k = m.from \/ m.from = 0 THEN {nonce} ELSE {}]
           knows == AddNonce(Cleared(g), m.from, nonce)
<1>1. /\ info' = [info EXCEPT ![g] = knows]
      /\ made' = [made EXCEPT ![g] = @ + 1]
      /\ msgs' = msgs \cup {Send(g, "approval", m.peer, nonce, m.nonce)}
      /\ UNCHANGED <<now, peer, left>>
  BY DEF HandleRegister
<1>2. nonce \in Nonce /\ nonce.by = g /\ made[g] < nonce.no /\ nonce.no <= made[g] + 1
  <2>1. nonce \in Nonce
    BY NewNonceType
  <2>2. QED
    BY <2>1 DEF NewNonce, TypeOK
<1>3. /\ new \in [Guards -> SUBSET Nonce]
      /\ \A h \in Guards : \A n \in new[h] : n.by = g /\ made[g] < n.no
  BY <1>2
<1>4. Cleared(g) \in [Guards -> Info]
  BY ClearedType
<1>5. knows \in [Guards -> Info] /\ Renewed(g, knows, new)
  <2>1. \A k \in Guards : /\ Cleared(g)[k] \in Info /\ Cleared(g)[k].nonces \in SUBSET Nonce
                          /\ [Cleared(g)[k] EXCEPT !.nonces = @ \cup {nonce}] \in Info
    BY <1>2, <1>4, WithNonces DEF Info
  <2>2. knows \in [Guards -> Info]
    BY <2>1 DEF AddNonce
  <2>3. SUFFICES ASSUME NEW h \in Guards
        PROVE  \E s \in SUBSET info[g][h].nonces :
                 knows[h] = [info[g][h] EXCEPT !.nonces = s \cup new[h]]
    BY <2>2 DEF Renewed
  <2>4. PICK s \in SUBSET info[g][h].nonces :
          Cleared(g)[h] = [info[g][h] EXCEPT !.nonces = s]
    BY ClearedNonces
  <2>5. info[g][h] \in Info
    BY DEF TypeOK
  <2>6. CASE h = m.from \/ m.from = 0
    <3>1. knows[h] = [Cleared(g)[h] EXCEPT !.nonces = @ \cup {nonce}] /\ new[h] = {nonce}
      BY <2>6 DEF AddNonce
    <3> HIDE DEF knows, new, nonce
    <3>2. QED
      BY <2>4, <2>5, <3>1 DEF Info
  <2>7. CASE ~(h = m.from \/ m.from = 0)
    <3>1. knows[h] = Cleared(g)[h] /\ new[h] = {}
      BY <2>7 DEF AddNonce
    <3>2. s \cup new[h] = s
      BY <3>1
    <3> HIDE DEF knows, new, nonce
    <3>3. QED
      BY <2>4, <3>1, <3>2
  <2>8. QED
    BY <2>6, <2>7
<1>6. /\ \A x, h \in Guards : \A n \in info'[x][h].nonces :
           n \in info[x][h].nonces \/ (n \in Nonce /\ n.by = g /\ made[g] < n.no)
      /\ \A x, h \in Guards : Kept(x, h)
  <2> HIDE DEF knows, new, nonce
  <2>1. QED
    BY <1>1, <1>3, <1>5, KeptByNonces
<1>7. (\A x \in Guards : made[x] <= made'[x]) /\ made'[g] = made[g] + 1
  BY <1>1 DEF TypeOK
<1>8. SentNow(g, Send(g, "approval", m.peer, nonce, m.nonce))
  <2> HIDE DEF nonce
  <2>1. QED
    BY <1>2, <1>7 DEF SentNow, Send
<1>9. QED
  BY <1>1, <1>6, <1>7, <1>8 DEF Exchange

LEMMA HandleHeartbeatExchange ==
  ASSUME TypeOK, NEW g \in Guards, NEW m \in msgs, HandleHeartbeat(g, m)
  PROVE  Exchange(g)
<1>1. /\ msgs' = msgs \cup {Send(g, "approval", m.peer, None, m.nonce)}
      /\ UNCHANGED <<now, peer, info, made, left>>
  BY DEF HandleHeartbeat
<1>2. SentNow(g, Send(g, "approval", m.peer, None, m.nonce))
  BY DEF SentNow, Send
<1>3. \A x \in Guards : made[x] <= made'[x]
  BY <1>1 DEF TypeOK
<1>4. \A x, h \in Guards : Kept(x, h)
  BY <1>1 DEF Kept
<1>5. QED
  BY <1>1, <1>2, <1>3, <1>4 DEF Exchange

LEMMA HandleApprovalExchange ==
  ASSUME TypeOK, NEW g \in Guards, NEW m \in msgs, HandleApproval(g, m)
  PROVE  Exchange(g)
<1>1. Receive(g, m) /\ UNCHANGED <<now, peer, made, left>>
  BY DEF HandleApproval
<1>2. m \in Message /\ m.from \in Guards /\ now - MessageValid <= m.at
  BY <1>1, ReceiveType DEF Receive
<1>3. \A x \in Guards : made[x] <= made'[x]
  BY <1>1 DEF TypeOK
<1>4. Cleared(g) \in [Guards -> Info] /\ Renewed(g, Cleared(g), NoneNew)
  BY ClearedType, ClearedRenewed
<1>5. \A h \in Guards : /\ info[g][h] \in Info
                        /\ Cleared(g)[h].nonces \subseteq info[g][h].nonces
  BY DEF Cleared, TypeOK, Info
<1>6. ASSUME NEW q \in Answer(g, m) PROVE SentNow(g, q)
  <2>1. q = Send(g, "approval", m.peer, None, m.nonce)
    BY <1>6 DEF Answer
  <2>2. QED
    BY <2>1 DEF SentNow, Send
<1>7. \A q \in msgs' : q \in msgs \/ SentNow(g, q)
  BY <1>6 DEF HandleApproval
<1>8. CASE m.answer \in Cleared(g)[m.from].nonces
  <2> DEFINE known == [peer |-> m.peer, nonces |-> {}, lastUpdate |-> now, callbacks |-> {}]
  <2>1. info' = [info EXCEPT ![g] = [Cleared(g) EXCEPT ![m.from] = known]]
    BY <1>8 DEF HandleApproval, ApprovedInfo
  <2>2. info'[g][m.from] = known
    BY <1>2, <1>4, <2>1 DEF TypeOK
  <2>3. Confirmed(g, m.from)
    BY <1>2, <1>5, <1>8, <2>2 DEF Confirmed
  <2>4. ASSUME NEW h \in Guards, h # m.from
        PROVE  info'[g][h] = Cleared(g)[h]
    BY <1>4, <2>1, <2>4 DEF TypeOK
  <2>5. ASSUME NEW x \in Guards, NEW h \in Guards, ~(x = g /\ h = m.from)
        PROVE  Kept(x, h) /\ info'[x][h].nonces \subseteq info[x][h].nonces
    <3>1. CASE x = g
      <4>1. info'[g][h] = Cleared(g)[h]
        BY <2>4, <2>5, <3>1
      <4>2. QED
        BY <1>5, <3>1, <4>1 DEF Kept, Cleared, Info
    <3>2. CASE x # g
      BY <2>1, <3>2 DEF Kept, TypeOK
    <3>3. QED
      BY <3>1, <3>2
  <2>6. \A x, h \in Guards : info'[x][h].nonces \subseteq info[x][h].nonces
    BY <2>2, <2>5
  <2>7. QED
    BY <1>1, <1>3, <1>7, <2>3, <2>5, <2>6 DEF Exchange
<1>9. CASE m.answer \notin Cleared(g)[m.from].nonces
  <2>1. info' = [info EXCEPT ![g] = Cleared(g)]
    BY <1>9 DEF HandleApproval
  <2>2. NoneNew \in [Guards -> SUBSET Nonce] /\ \A h \in Guards : NoneNew[h] = {}
    BY DEF NoneNew
  <2>3. /\ \A x, h \in Guards : \A n \in info'[x][h].nonces :
             n \in info[x][h].nonces \/ (n \in Nonce /\ n.by = g /\ made[g] < n.no)
        /\ \A x, h \in Guards : Kept(x, h)
    BY <1>4, <2>1, <2>2, KeptByNonces
  <2>4. QED
    BY <1>1, <1>3, <1>7, <2>3 DEF Exchange
<1>10. QED
  BY <1>8, <1>9

LEMMA RegisterExchange ==
  ASSUME TypeOK, NEW g \in Guards, NEW h \in Guards, NEW p \in Peers, Register(g, h, p)
  PROVE  Exchange(g)
<1> DEFINE nonce == NewNonce(g, 1)
<1>1. /\ info' = [info EXCEPT ![g] =
           [Cleared(g) EXCEPT ![h].nonces = @ \cup {nonce}, ![h].callbacks = @ \cup {p}]]
      /\ made' = [made EXCEPT ![g] = @ + 1]
      /\ msgs' = msgs \cup {Send(g, "register", p, nonce, None)}
      /\ ~Active(g, h)
      /\ UNCHANGED <<now, peer, left>>
  BY DEF Register
<1>2. nonce \in Nonce /\ nonce.by = g /\ made[g] < nonce.no /\ nonce.no <= made[g] + 1
  <2>1. nonce \in Nonce
    BY NewNonceType
  <2>2. QED
    BY <2>1 DEF NewNonce, TypeOK
<1> HIDE DEF nonce
<1>3. /\ Cleared(g) \in [Guards -> Info] /\ info \in [Guards -> [Guards -> Info]]
      /\ \A k \in Guards : info[g][k] \in Info
  BY ClearedType DEF TypeOK
<1>4. \A k \in Guards : /\ Cleared(g)[k].nonces \subseteq info[g][k].nonces
                        /\ Cleared(g)[k].peer = info[g][k].peer
                        /\ Cleared(g)[k].lastUpdate = info[g][k].lastUpdate
                        /\ Cleared(g)[k].callbacks = info[g][k].callbacks
  BY <1>3 DEF Cleared, Info
<1>5. info'[g][h] = [Cleared(g)[h] EXCEPT !.nonces = @ \cup {nonce},
                                          !.callbacks = @ \cup {p}]
  BY <1>1, <1>3 DEF Info
<1>6. \A k \in Guards : k # h => info'[g][k] = Cleared(g)[k]
  BY <1>1, <1>3
<1>7. \A x, k \in Guards : x # g => info'[x][k] = info[x][k]
  BY <1>1, <1>3
<1>8. Kept(g, h) /\ info'[g][h].nonces \subseteq info[g][h].nonces \cup {nonce}
  BY <1>1, <1>3, <1>4, <1>5 DEF Kept, Info
<1>9. ASSUME NEW x \in Guards, NEW k \in Guards, ~(x = g /\ k = h)
      PROVE  Kept(x, k) /\ info'[x][k].nonces \subseteq info[x][k].nonces
  BY <1>4, <1>6, <1>7, <1>9 DEF Kept
<1>10. \A x, k \in Guards : \A n \in info'[x][k].nonces :
         n \in info[x][k].nonces \/ (n \in Nonce /\ n.by = g /\ made[g] < n.no)
  BY <1>2, <1>8, <1>9
<1>11. (\A x \in Guards : made[x] <= made'[x]) /\ made'[g] = made[g] + 1
  BY <1>1 DEF TypeOK
<1>12. SentNow(g, Send(g, "register", p, nonce, None))
  BY <1>2, <1>11 DEF SentNow, Send
<1>13. QED
  BY <1>1, <1>8, <1>9, <1>10, <1>11, <1>12 DEF Exchange

LEMMA NextExchange ==
  ASSUME TypeOK, Next
  PROVE  Tick \/ (\E g \in Guards : Restart(g) \/ Exchange(g))
<1>1. ASSUME NEW g \in Guards, CallInit(g) PROVE Exchange(g)
  <2>1. info[g] \in [Guards -> Info] /\ Renewed(g, info[g], NoneNew)
    BY ClearedRenewed DEF TypeOK
  <2>2. QED
    BY <1>1, <2>1, InitialiseExchange DEF CallInit
<1>2. ASSUME NEW g \in Guards, Update(g) PROVE Exchange(g)
  <2>1. Cleared(g) \in [Guards -> Info] /\ Renewed(g, Cleared(g), NoneNew)
    BY ClearedType, ClearedRenewed
  <2>2. QED
    BY <1>2, <2>1, InitialiseExchange, HeartbeatsExchange DEF Update
<1>3. QED
  BY <1>1, <1>2, HandleRegisterExchange, HandleHeartbeatExchange, HandleApprovalExchange,
     RegisterExchange DEF Next

-----------------------------------------------------------------------------
\* The steps of the invariant

LEMMA KnownType ==
  ASSUME TypeOK, NEW g \in Guards, NEW h \in Guards
  PROVE  /\ info[g][h] \in Info /\ info[g][h].lastUpdate \in Nat
         /\ info[g][h].peer \in Peers \cup {None}
         /\ peer[h] \in Peers /\ peer[h][1] \in Guards /\ peer[h][2] \in Nat
         /\ now \in Nat /\ MessageValid \in Nat
  BY TimeAssumption, SizeAssumption DEF TypeOK, Info, Peers

LEMMA MessageType ==
  ASSUME TypeOK, NEW m \in msgs
  PROVE  /\ m.from \in Guards /\ m.peer \in Peers /\ m.peer[2] \in Nat /\ m.at \in Nat
         /\ m.nonce \in Nonce \cup {None} /\ m.answer \in Nonce \cup {None}
         /\ m.nonce # None => m.nonce.by \in Guards /\ m.nonce.no \in Nat
         /\ m.answer # None => m.answer.by \in Guards /\ m.answer.no \in Nat
  BY SizeAssumption DEF TypeOK, Message, Peers, Nonce

\* Two identifiers of a guard that are not equal have another number.
LEMMA PeerNumber ==
  ASSUME NEW p \in Peers, NEW q \in Peers, p[1] = q[1], p # q
  PROVE  p[2] # q[2]
  BY DEF Peers

LEMMA ExchangeSent ==
  ASSUME DetectionInv, NEW g \in Guards, Exchange(g), TypeOK'
  PROVE  SentBefore'
<1> SUFFICES ASSUME NEW m \in msgs'
    PROVE  /\ m.peer[1] = m.from /\ m.peer[2] <= peer'[m.from][2]
           /\ m.at <= now'
           /\ m.peer # peer'[m.from] => m.at <= left'[m.peer]
  BY DEF SentBefore
<1>1. UNCHANGED <<now, peer, left>> /\ (m \in msgs \/ SentNow(g, m))
  BY DEF Exchange
<1>2. CASE m \in msgs
  BY <1>1, <1>2 DEF DetectionInv, SentBefore
<1>3. CASE SentNow(g, m)
  BY <1>1, <1>3, KnownType DEF DetectionInv, SentNow, PeersOwned
<1>4. QED
  BY <1>1, <1>2, <1>3

LEMMA ExchangeKnown ==
  ASSUME DetectionInv, NEW x \in Guards, Exchange(x), TypeOK',
         NEW g \in Guards, NEW h \in Guards
  PROVE  KnownOf(g, h)'
<1>1. UNCHANGED <<now, peer, left>> /\ (Kept(g, h) \/ Confirmed(g, h))
  BY DEF Exchange
<1>2. CASE Kept(g, h)
  BY <1>1, <1>2 DEF DetectionInv, KnownBefore, KnownOf, Kept
<1>3. CASE Confirmed(g, h)
  <2>1. PICK m \in msgs :
          /\ m.from = h /\ now - MessageValid <= m.at
          /\ info'[g][h] = [peer |-> m.peer, nonces |-> {}, lastUpdate |-> now,
                            callbacks |-> {}]
    BY <1>3 DEF Confirmed
  <2>2. /\ m.peer[1] = h /\ m.peer[2] <= peer[h][2] /\ m.at <= now
        /\ m.peer # peer[h] => m.at <= left[m.peer]
    BY <2>1 DEF DetectionInv, SentBefore
  <2>3. /\ m.peer \in Peers /\ m.at \in Nat /\ now \in Nat /\ MessageValid \in Nat
        /\ peer[h] \in Peers
    BY MessageType, KnownType DEF DetectionInv
  <2>4. m.peer # peer[h] => left[m.peer] \in Nat
    <3>1. ASSUME m.peer # peer[h] PROVE left[m.peer] \in Nat
      <4>1. m.peer[1] = peer[h][1] /\ m.peer[2] \in Nat /\ peer[h][2] \in Nat
        BY <2>2, <2>3, KnownType DEF DetectionInv, PeersOwned, Peers
      <4>2. m.peer[2] < peer[m.peer[1]][2]
        BY <2>2, <2>3, <3>1, <4>1, PeerNumber
      <4>3. QED
        BY <2>3, <4>2 DEF DetectionInv, PeersOwned
    <3>2. QED
      BY <3>1
  <2>5. info'[g][h].peer = m.peer /\ info'[g][h].lastUpdate = now
    BY <2>1
  <2>6. m.peer # peer[h] => now <= left[m.peer] + MessageValid
    BY <2>1, <2>2, <2>3, <2>4
  <2>7. QED
    BY <1>1, <2>2, <2>3, <2>5, <2>6 DEF KnownOf
<1>4. QED
  BY <1>1, <1>2, <1>3

LEMMA ExchangeNonces ==
  ASSUME DetectionInv, NEW g \in Guards, Exchange(g), TypeOK'
  PROVE  NoncesMade'
<1> SUFFICES ASSUME NEW m \in msgs'
    PROVE  /\ m.nonce # None => m.nonce.no <= made'[m.nonce.by]
           /\ m.answer # None => m.answer.no <= made'[m.answer.by]
  BY DEF NoncesMade
<1>1. \A x \in Guards : made[x] \in Nat /\ made'[x] \in Nat /\ made[x] <= made'[x]
  BY DEF Exchange, DetectionInv, TypeOK
<1>2. ASSUME NEW n \in Nonce, n.no <= made[n.by]
      PROVE  n.no <= made'[n.by]
  BY <1>1, <1>2 DEF Nonce
<1>3. m \in msgs \/ SentNow(g, m)
  BY DEF Exchange
<1>4. CASE m \in msgs
  BY <1>2, <1>4, MessageType DEF DetectionInv, NoncesMade
<1>5. CASE SentNow(g, m)
  <2>1. m.nonce # None => m.nonce.no <= made'[m.nonce.by]
    BY <1>5 DEF SentNow
  <2>2. ASSUME m.answer # None PROVE m.answer.no <= made'[m.answer.by]
    <3>1. PICK q \in msgs : m.answer = q.nonce
      BY <1>5, <2>2 DEF SentNow
    <3>2. q.nonce \in Nonce /\ q.nonce.no <= made[q.nonce.by]
      BY <2>2, <3>1, MessageType DEF DetectionInv, NoncesMade
    <3>3. QED
      BY <1>2, <3>1, <3>2
  <2>3. QED
    BY <2>1, <2>2
<1>6. QED
  BY <1>3, <1>4, <1>5

\* A nonce made now has no answer yet; an answer given now comes under the
\* identifier of now; and a confirmation makes every nonce before it worthless.
LEMMA ExchangeAnswers ==
  ASSUME DetectionInv, NEW x \in Guards, Exchange(x), TypeOK'
  PROVE  AnswersLater'
<1> SUFFICES ASSUME NEW g \in Guards, NEW h \in Guards, NEW m \in msgs',
                    m.from = h, m.answer \in info'[g][h].nonces, info'[g][h].peer # None
    PROVE  info'[g][h].peer[2] <= m.peer[2]
  BY DEF AnswersLater
<1>1. ~Confirmed(g, h)
  <2>1. Confirmed(g, h) => info'[g][h].nonces = {}
    BY DEF Confirmed
  <2>2. QED
    BY <2>1
<1>2. UNCHANGED <<peer>> /\ info'[g][h].peer = info[g][h].peer
  BY <1>1 DEF Exchange, Kept
<1>3. CASE SentNow(x, m)
  <2>1. m.peer = peer[h]
    BY <1>3 DEF SentNow
  <2>2. QED
    BY <1>2, <2>1 DEF DetectionInv, KnownBefore, KnownOf
<1>4. CASE m \in msgs
  <2>1. CASE m.answer \in info[g][h].nonces
    BY <1>2, <1>4, <2>1 DEF DetectionInv, AnswersLater
  <2>2. CASE m.answer \notin info[g][h].nonces
    <3>1. m.answer \in Nonce /\ m.answer.by = x /\ made[x] < m.answer.no
      BY <2>2 DEF Exchange
    <3>2. m.answer # None /\ m.answer.no \in Nat /\ made[x] \in Nat
      BY <3>1, NoneAssumption DEF Nonce, DetectionInv, TypeOK
    <3>3. QED
      BY <1>4, <3>1, <3>2 DEF DetectionInv, NoncesMade
  <2>3. QED
    BY <2>1, <2>2
<1>5. QED
  BY <1>3, <1>4 DEF Exchange

LEMMA ExchangeStep ==
  ASSUME DetectionInv, NEW x \in Guards, Exchange(x), TypeOK'
  PROVE  DetectionInv'
<1>1. PeersOwned'
  BY DEF Exchange, DetectionInv, PeersOwned
<1>2. KnownBefore'
  BY ExchangeKnown DEF KnownBefore
<1>3. NobodyWaits'
  <2> SUFFICES ASSUME NEW g \in Guards, NEW h \in Guards, Active(g, h)'
      PROVE  info'[g][h].callbacks = {}
    BY DEF NobodyWaits
  <2>1. now' = now /\ (Kept(g, h) \/ Confirmed(g, h))
    BY DEF Exchange
  <2>2. CASE Kept(g, h)
    BY <2>1, <2>2 DEF Kept, Active, DetectionInv, NobodyWaits
  <2>3. CASE Confirmed(g, h)
    BY <2>3 DEF Confirmed
  <2>4. QED
    BY <2>1, <2>2, <2>3
<1>4. QED
  BY <1>1, <1>2, <1>3, ExchangeSent, ExchangeNonces, ExchangeAnswers DEF DetectionInv

LEMMA TickStep ==
  ASSUME DetectionInv, Tick, TypeOK'
  PROVE  DetectionInv'
<1>1. /\ now' = now + 1 /\ now \in Nat /\ msgs' \subseteq msgs
      /\ UNCHANGED <<peer, info, made, left>>
  BY DEF Tick, DetectionInv, TypeOK
<1>2. PeersOwned'
  <2>1. \A p \in Peers : left[p] \in Nat /\ left[p] <= now => left[p] <= now'
    BY <1>1
  <2>2. QED
    BY <1>1, <2>1 DEF DetectionInv, PeersOwned
<1>3. SentBefore'
  <2>1. \A m \in msgs : m.at <= now => m.at <= now'
    BY <1>1, MessageType DEF DetectionInv
  <2>2. QED
    BY <1>1, <2>1 DEF DetectionInv, SentBefore
<1>4. ASSUME NEW g \in Guards, NEW h \in Guards PROVE KnownOf(g, h)'
  <2>1. info[g][h].lastUpdate <= now => info[g][h].lastUpdate <= now'
    BY <1>1, KnownType DEF DetectionInv
  <2>2. QED
    BY <1>1, <2>1 DEF DetectionInv, KnownBefore, KnownOf
<1>5. NoncesMade' /\ AnswersLater'
  BY <1>1 DEF DetectionInv, NoncesMade, AnswersLater
<1>6. NobodyWaits'
  <2> SUFFICES ASSUME NEW g \in Guards, NEW h \in Guards, Active(g, h)'
      PROVE  info[g][h].callbacks = {}
    BY <1>1 DEF NobodyWaits
  <2>1. ActiveTimeout \in Nat /\ info[g][h].lastUpdate \in Nat
    BY KnownType, TimeAssumption DEF DetectionInv
  <2>2. Active(g, h)
    BY <1>1, <2>1 DEF Active
  <2>3. QED
    BY <2>2 DEF DetectionInv, NobodyWaits
<1>7. QED
  BY <1>2, <1>3, <1>4, <1>5, <1>6 DEF DetectionInv, KnownBefore

LEMMA RestartStep ==
  ASSUME DetectionInv, NEW x \in Guards, Restart(x), TypeOK'
  PROVE  DetectionInv'
<1>1. /\ UNCHANGED <<now, made, msgs>> /\ now \in Nat
      /\ peer' = [peer EXCEPT ![x] = <<x, peer[x][2] + 1>>]
      /\ left' = [left EXCEPT ![peer[x]] = now]
      /\ info' = [info EXCEPT ![x] = [h \in Guards |-> Unknown]]
  BY DEF Restart, DetectionInv, TypeOK
<1>2. /\ peer \in [Guards -> Peers] /\ left \in [Peers -> Nat \cup {None}]
      /\ \A h \in Guards : peer[h] \in Peers /\ peer[h][1] = h /\ peer[h][2] \in Nat
      /\ \A h \in Guards : peer[h] = <<h, peer[h][2]>>
  <2>1. peer \in [Guards -> Peers] /\ left \in [Peers -> Nat \cup {None}]
    BY DEF DetectionInv, TypeOK
  <2>2. \A h \in Guards : peer[h] \in Peers /\ peer[h][1] = h
    BY <2>1 DEF DetectionInv, PeersOwned
  <2>3. QED
    BY <2>1, <2>2, SizeAssumption DEF Peers
<1>3. /\ \A h \in Guards : h # x => peer'[h] = peer[h]
      /\ peer'[x] = <<x, peer[x][2] + 1>>
      /\ \A h \in Guards : peer'[h][1] = h /\ peer'[h][2] \in Nat /\ peer[h][2] <= peer'[h][2]
  BY <1>1, <1>2
<1>4. left'[peer[x]] = now /\ \A p \in Peers : p # peer[x] => left'[p] = left[p]
  BY <1>1, <1>2
\* An identifier given up is that of now, or had been given up before.
<1>5. ASSUME NEW p \in Peers, p[2] < peer'[p[1]][2], p # peer[x]
      PROVE  p[2] < peer[p[1]][2]
  <2>1. p[1] \in Guards /\ p[2] \in Nat
    BY SizeAssumption DEF Peers
  <2>2. CASE p[1] = x
    <3>1. p[2] # peer[x][2]
      BY <1>2, <1>5, <2>2, PeerNumber
    <3>2. QED
      BY <1>2, <1>3, <1>5, <2>1, <2>2, <3>1
  <2>3. CASE p[1] # x
    BY <1>3, <1>5, <2>1, <2>3
  <2>4. QED
    BY <2>2, <2>3
<1>6. PeersOwned'
  <2>1. ASSUME NEW p \in Peers, p[2] < peer'[p[1]][2]
        PROVE  left'[p] \in Nat /\ left'[p] <= now'
    <3>1. CASE p = peer[x]
      BY <1>1, <1>4, <3>1
    <3>2. CASE p # peer[x]
      BY <1>1, <1>4, <1>5, <2>1, <3>2 DEF DetectionInv, PeersOwned
    <3>3. QED
      BY <3>1, <3>2
  <2>2. QED
    BY <1>3, <2>1 DEF PeersOwned
<1>7. SentBefore'
  <2> SUFFICES ASSUME NEW m \in msgs
      PROVE  /\ m.peer[1] = m.from /\ m.peer[2] <= peer'[m.from][2]
             /\ m.at <= now
             /\ m.peer # peer'[m.from] => m.at <= left'[m.peer]
    BY <1>1 DEF SentBefore
  <2>1. /\ m.from \in Guards /\ m.peer \in Peers /\ m.peer[2] \in Nat
        /\ m.peer[1] = m.from /\ m.peer[2] <= peer[m.from][2]
        /\ m.at <= now
        /\ m.peer # peer[m.from] => m.at <= left[m.peer]
    BY MessageType DEF DetectionInv, SentBefore
  <2>2. m.peer # peer'[m.from] => m.at <= left'[m.peer]
    <3>1. CASE m.peer = peer[x]
      BY <1>4, <2>1, <3>1
    <3>2. CASE m.peer # peer[x]
      <4>1. left'[m.peer] = left[m.peer]
        BY <1>4, <2>1, <3>2
      <4>2. CASE m.from = x
        BY <2>1, <3>2, <4>1, <4>2
      <4>3. CASE m.from # x
        BY <1>3, <2>1, <4>1, <4>3
      <4>4. QED
        BY <4>2, <4>3
    <3>3. QED
      BY <3>1, <3>2
  <2>3. QED
    BY <1>2, <1>3, <2>1, <2>2
<1>8. ASSUME NEW g \in Guards, NEW h \in Guards PROVE KnownOf(g, h)'
  <2>1. CASE g = x
    <3>1. info'[g][h] = Unknown
      BY <1>1, <2>1 DEF DetectionInv, TypeOK
    <3>2. QED
      BY <3>1 DEF KnownOf, Unknown
  <2>2. CASE g # x
    <3>1. info'[g][h] = info[g][h] /\ KnownOf(g, h)
      BY <1>1, <2>2 DEF DetectionInv, TypeOK, KnownBefore
    <3> SUFFICES ASSUME info[g][h].peer # None
        PROVE  /\ info[g][h].peer[1] = h /\ info[g][h].peer[2] <= peer'[h][2]
               /\ info[g][h].lastUpdate <= now
               /\ info[g][h].peer # peer'[h] =>
                    info[g][h].lastUpdate <= left'[info[g][h].peer] + MessageValid
      BY <1>1, <3>1 DEF KnownOf
    <3>2. /\ info[g][h].peer \in Peers /\ info[g][h].peer[2] \in Nat
          /\ info[g][h].lastUpdate \in Nat /\ MessageValid \in Nat
          /\ info[g][h].peer[1] = h /\ info[g][h].peer[2] <= peer[h][2]
          /\ info[g][h].lastUpdate <= now
          /\ info[g][h].peer # peer[h] =>
               info[g][h].lastUpdate <= left[info[g][h].peer] + MessageValid
      BY <3>1, KnownType, SizeAssumption DEF KnownOf, DetectionInv, Peers
    <3>3. info[g][h].peer[2] <= peer'[h][2]
      BY <1>2, <1>3, <3>2
    <3>4. CASE info[g][h].peer = peer[x]
      BY <1>1, <1>4, <3>2, <3>3, <3>4
    <3>5. CASE info[g][h].peer # peer[x]
      <4>1. left'[info[g][h].peer] = left[info[g][h].peer]
        BY <1>4, <3>2, <3>5
      <4>2. CASE h = x
        BY <3>2, <3>3, <3>5, <4>1, <4>2
      <4>3. CASE h # x
        BY <1>3, <3>2, <3>3, <4>1, <4>3
      <4>4. QED
        BY <4>2, <4>3
    <3>6. QED
      BY <3>4, <3>5
  <2>3. QED
    BY <2>1, <2>2
<1>9. NoncesMade'
  BY <1>1 DEF DetectionInv, NoncesMade
<1>10. \A g, h \in Guards : info'[g][h] = info[g][h] \/ info'[g][h] = Unknown
  BY <1>1 DEF DetectionInv, TypeOK
<1>11. AnswersLater'
  BY <1>1, <1>10 DEF DetectionInv, AnswersLater, Unknown
<1>12. NobodyWaits'
  BY <1>1, <1>10 DEF DetectionInv, NobodyWaits, Active, Unknown
<1>13. QED
  BY <1>6, <1>7, <1>8, <1>9, <1>11, <1>12 DEF DetectionInv, KnownBefore

LEMMA DetectionStep ==
  ASSUME DetectionInv, [Next]_vars
  PROVE  DetectionInv'
<1>1. TypeOK'
  BY TypeStep DEF DetectionInv
<1>2. CASE Next
  BY <1>1, <1>2, NextExchange, TickStep, RestartStep, ExchangeStep DEF DetectionInv
<1>3. CASE UNCHANGED vars
  BY <1>3 DEF vars, DetectionInv, TypeOK, PeersOwned, SentBefore, KnownBefore, KnownOf,
              NoncesMade, AnswersLater, NobodyWaits, Active
<1>4. QED
  BY <1>2, <1>3

-----------------------------------------------------------------------------
\* The theorems

\* What the guards know, send and have given up stays consistent: the inductive
\* invariant holds of every state.
THEOREM DetectionInvariant == Spec => []DetectionInv
<1>1. Init => DetectionInv
  <2> SUFFICES ASSUME Init PROVE DetectionInv
    OBVIOUS
  <2>1. TypeOK
    BY SizeAssumption, TimeAssumption DEF Init, TypeOK, Unknown, Info, Peers
  <2>2. \A g, h \in Guards : info[g][h] = Unknown
    BY DEF Init
  <2>3. PeersOwned
    BY SizeAssumption DEF Init, PeersOwned, Peers
  <2>4. SentBefore /\ NoncesMade /\ AnswersLater
    BY DEF Init, SentBefore, NoncesMade, AnswersLater
  <2>5. KnownBefore /\ NobodyWaits
    BY <2>2 DEF KnownBefore, KnownOf, NobodyWaits, Active, Unknown
  <2>6. QED
    BY <2>1, <2>3, <2>4, <2>5 DEF DetectionInv
<1>2. DetectionInv /\ [Next]_vars => DetectionInv'
  BY DetectionStep
<1>3. QED
  BY <1>1, <1>2, PTL DEF Spec

\* Nobody waits for the registration of a guard that is active: the answer that
\* makes it active, whichever nonce it answers, tells all who wait.
THEOREM NobodyWaitsHolds == Spec => []NobodyWaits
<1>1. DetectionInv => NobodyWaits
  BY DEF DetectionInv
<1>2. QED
  BY <1>1, DetectionInvariant, PTL

\* A guard is believed active under an identifier it gave up for no longer than
\* ActiveTimeout and the delay of a message that is still valid.
THEOREM ActiveAliveHolds == Spec => []ActiveAlive
<1>1. ASSUME DetectionInv PROVE ActiveAlive
  <2> SUFFICES ASSUME NEW g \in Guards, NEW h \in Guards, Active(g, h),
                      info[g][h].peer # peer[h]
      PROVE  now - left[info[g][h].peer] < ActiveTimeout + MessageValid
    BY DEF ActiveAlive
  <2>1. /\ info[g][h].peer # None /\ now - info[g][h].lastUpdate < ActiveTimeout
        /\ info[g][h].peer[1] = h /\ info[g][h].peer[2] <= peer[h][2]
        /\ info[g][h].lastUpdate <= left[info[g][h].peer] + MessageValid
    BY <1>1 DEF Active, DetectionInv, KnownBefore, KnownOf
  <2>2. /\ info[g][h].peer \in Peers /\ peer[h] \in Peers /\ peer[h][1] = h
        /\ info[g][h].peer[2] \in Nat /\ peer[h][2] \in Nat
    BY <1>1, <2>1, KnownType, SizeAssumption DEF DetectionInv, PeersOwned, Peers
  <2>3. info[g][h].peer[2] < peer[h][2]
    BY <2>1, <2>2, PeerNumber
  <2>4. left[info[g][h].peer] \in Nat
    BY <1>1, <2>1, <2>2, <2>3 DEF DetectionInv, PeersOwned
  <2>5. /\ now \in Nat /\ info[g][h].lastUpdate \in Nat /\ MessageValid \in Nat
        /\ ActiveTimeout \in Nat
    BY <1>1, KnownType, TimeAssumption DEF DetectionInv
  <2>6. QED
    BY <2>1, <2>4, <2>5
<1>2. QED
  BY <1>1, DetectionInvariant, PTL

\* A guard known under its new identifier is never again taken for the former
\* one: the answers still under way from before its restart answer nonces that
\* the confirmation of the new one has made worthless.
THEOREM PeerForwardHolds == Spec => PeerForward
<1> DEFINE Forward == \A g, h \in Guards :
             info[g][h].peer # None /\ info'[g][h].peer # None
               => info[g][h].peer[2] <= info'[g][h].peer[2]
<1>1. ASSUME DetectionInv, [Next]_vars PROVE [Forward]_vars
  <2>1. \A g, h \in Guards : info[g][h].peer # None => info[g][h].peer[2] \in Nat
    BY <1>1, KnownType, SizeAssumption DEF DetectionInv, Peers
  <2>2. CASE UNCHANGED info
    BY <2>1, <2>2
  <2>3. ASSUME NEW x \in Guards, Exchange(x) PROVE Forward
    <3> SUFFICES ASSUME NEW g \in Guards, NEW h \in Guards,
                        info[g][h].peer # None, info'[g][h].peer # None
        PROVE  info[g][h].peer[2] <= info'[g][h].peer[2]
      OBVIOUS
    <3>1. Kept(g, h) \/ Confirmed(g, h)
      BY <2>3 DEF Exchange
    <3>2. CASE Kept(g, h)
      BY <2>1, <3>2 DEF Kept
    <3>3. CASE Confirmed(g, h)
      BY <1>1, <3>3 DEF Confirmed, DetectionInv, AnswersLater
    <3>4. QED
      BY <3>1, <3>2, <3>3
  <2>4. ASSUME NEW x \in Guards, Restart(x) PROVE Forward
    <3>1. \A g, h \in Guards : info'[g][h] = info[g][h] \/ info'[g][h] = Unknown
      BY <1>1, <2>4 DEF Restart, DetectionInv, TypeOK
    <3>2. Unknown.peer = None
      BY DEF Unknown
    <3>3. QED
      BY <2>1, <3>1, <3>2
  <2>5. CASE Next
    <3>1. Tick \/ (\E x \in Guards : Restart(x) \/ Exchange(x))
      BY <1>1, <2>5, NextExchange DEF DetectionInv
    <3>2. Tick => UNCHANGED info
      BY DEF Tick
    <3>3. QED
      BY <2>2, <2>3, <2>4, <3>1, <3>2
  <2>6. CASE UNCHANGED vars
    BY <2>6
  <2>7. QED
    BY <1>1, <2>5, <2>6
<1>2. QED
  BY <1>1, DetectionInvariant, PTL DEF Spec, PeerForward

-----------------------------------------------------------------------------
\* The prompt network: what is known of it

\* Messages arrive at once, nobody restarts, and only update asks for guards, which
\* needs no more of them than there are.  A message is valid for no longer than a
\* guard goes without a heartbeat, and a guard is active for longer than that.
PromptNetwork ==
  /\ Prompt /\ MaxRestarts = 0 /\ Callers = {}
  /\ NeedGuard \in 2 .. N
  /\ MessageValid <= HeartbeatTimeout
  /\ HeartbeatTimeout + 1 < ActiveTimeout

\* The second in which all guards start, and the one in which its nonces have timed
\* out: guards are only asked to register in these.
First == StartTime
Second == StartTime + MessageValid + 1

Known(g, h) == info[g][h].peer # None
Last(g, h) == info[g][h].lastUpdate
Fresh(g, h) == Known(g, h) /\ Last(g, h) = now
Few(g) == Cardinality(ActiveGuards(g)) < NeedGuard

\* g sent h a nonce in this second, in whatever message.
Offer(g, h, m) ==
  /\ m \in msgs /\ m.from = g /\ g # h /\ m.to \in {None, peer[h]}
  /\ m.at = now /\ m.nonce # None

\* g asked h to register, or to answer a heartbeat.
Ask(g, h, m) == Offer(g, h, m) /\ m.type # "approval"

\* g asked all guards to register; g sent h a heartbeat.
Calls(g) == \E m \in msgs : m.from = g /\ m.at = now /\ m.type = "register"
Beats(g, h) == \E m \in msgs : Offer(g, h, m) /\ m.type = "heartbeat"

\* h is due for a heartbeat of g.
Due(g, h) == Known(g, h) /\ now - Last(g, h) > HeartbeatTimeout

-----------------------------------------------------------------------------
\* The messages of a second

\* A guard knows others, by the identifiers they have.
KnownPeers ==
  \A g, h \in Guards :
    /\ peer[g] = <<g, 0>> /\ ~Known(g, g)
    /\ Known(g, h) => info[g][h].peer = peer[h]

\* Messages of former seconds have been received.
FormerReceived ==
  /\ \A r \in received : r[2] \in msgs
  /\ \A m \in msgs, g \in Guards :
       m.at < now /\ g # m.from /\ m.to \in {None, peer[g]} => <<g, m>> \in received

\* A nonce is made for the message that carries it; a message that answers none
\* carries one.
NonceCarried ==
  \A m \in msgs :
    /\ m.nonce # None => m.nonce.by = m.from /\ m.nonce.at = m.at
    /\ m.type # "approval" => m.nonce # None
    /\ m.type = "register" <=> m.to = None

\* A guard answers a message that it received; with a nonce of its own if it was
\* asked to register, and otherwise a heartbeat or a guard that it has just heard of.
Answers(m, h, q) ==
  /\ m.to = peer[h] /\ Offer(h, m.from, q) /\ q.nonce = m.answer
  /\ <<m.from, q>> \in received
  /\ IF m.nonce # None THEN q.type = "register" ELSE q.type = "heartbeat" \/ Fresh(m.from, h)

AnswerAsked ==
  \A m \in msgs :
    m.type = "approval" /\ m.at = now => \E h \in Guards : \E q \in msgs : Answers(m, h, q)

\* A nonce counts until its guard has answered.
NonceKept ==
  \A g, h \in Guards : \A q \in msgs :
    Offer(g, h, q) => Fresh(g, h) \/ q.nonce \in info[g][h].nonces

\* A nonce that was answered does not count.
AnsweredOff ==
  \A r \in received :
    r[2].type = "approval" => r[2].answer \notin info[r[1]][r[2].from].nonces

\* h answered the nonce of q, a message of g.
Answered(g, h, q) ==
  \E m \in msgs :
    m.type = "approval" /\ m.from = h /\ m.to = peer[g] /\ m.at = now /\ m.answer = q.nonce

\* Who was asked answers, with a nonce of its own if asked to register.
AskAnswered ==
  \A g, h \in Guards : \A q \in msgs :
    Ask(g, h, q) /\ <<h, q>> \in received =>
      /\ Answered(g, h, q)
      /\ q.type = "register" => \E m \in msgs : Offer(h, g, m) /\ m.type = "approval"

\* The nonce that came with an answer is answered: it comes while the answer counts,
\* or its guard has been heard of otherwise.
OfferAnswered ==
  \A g, h \in Guards : \A q \in msgs :
    Offer(g, h, q) /\ q.type = "approval" /\ ~Fresh(g, h) =>
      IF <<h, q>> \in received THEN Answered(g, h, q) ELSE q.answer \in info[h][g].nonces

\* A nonce counts until its guard was asked, or was heard of otherwise.
AskKept ==
  \A g, h \in Guards : \A q \in msgs :
    Ask(h, g, q) /\ <<g, q>> \notin received => q.nonce \in info[h][g].nonces \/ Fresh(g, h)

\* A guard asks another once in a second, by its update.
AskedOnce ==
  \A g, h \in Guards : \A p, q \in msgs :
    Ask(g, h, p) /\ Ask(g, h, q) => p = q /\ g \in updated

\* A guard answers once with a nonce.
OfferedOnce ==
  \A g, h \in Guards : \A p, q \in msgs :
    /\ Offer(g, h, p) /\ Offer(g, h, q)
    /\ p.type = "approval" /\ q.type = "approval" /\ p.answer = q.answer
    => p = q

SecondInv ==
  /\ KnownPeers /\ FormerReceived /\ NonceCarried /\ AnswerAsked /\ NonceKept /\ AnsweredOff
  /\ AskAnswered /\ OfferAnswered /\ AskKept /\ AskedOnce /\ OfferedOnce

-----------------------------------------------------------------------------
\* The seconds

\* What g knows of h is confirmed when a heartbeat is due, at the latest.
KnownInTime ==
  \A g, h \in Guards :
    Known(g, h) =>
      /\ Last(g, h) <= now /\ now - Last(g, h) <= HeartbeatTimeout + 1
      /\ Last(g, h) = First \/ Last(g, h) >= Second

NonceInTime ==
  \A g, h \in Guards : \A n \in info[g][h].nonces : First <= n.at /\ n.at <= now

\* A nonce that still counts in a later second for a known guard h is no younger than
\* what is known of h, or was meant for guard 0, and is no younger than what is known
\* of 0.
FormerNonce ==
  \A g, h \in Guards : \A n \in info[g][h].nonces :
    Known(g, h) /\ n.at < now =>
      \/ n.at <= Last(g, h) \/ ~Valid(n)
      \/ h # 0 /\ Known(g, 0) /\ n.at <= Last(g, 0) /\ Last(g, 0) < now

\* A nonce of this second was sent to its guard, or meant for guard 0.
PresentNonce ==
  \A g, h \in Guards : \A n \in info[g][h].nonces :
    Known(g, h) /\ n.at = now =>
      now = First \/ (\E q \in msgs : Offer(g, h, q)) \/ (h # 0 /\ Beats(g, 0))

\* When g has last heard of h, once the heartbeat that is due has been answered.
Reckoned(g, h) == IF Due(g, h) THEN now ELSE Last(g, h)

\* What is known of guard 0 since t0 and of another one since t falls due in an order
\* in which the nonce of the former's heartbeat never stops the latter's.
InStep(t0, t) ==
  (t <= t0 /\ t0 - t <= HeartbeatTimeout - MessageValid) \/ t0 + MessageValid + 1 <= t

AllInStep ==
  \A g, h \in Guards :
    h # 0 /\ Known(g, 0) /\ Known(g, h) /\ ~Calls(g) => InStep(Reckoned(g, 0), Reckoned(g, h))

\* A guard that is due is sent a nonce by update.
DueAsked ==
  \A g, h \in Guards : Due(g, h) /\ g \in updated => \E q \in msgs : Offer(g, h, q)

BeatsDue ==
  \A g, h \in Guards : Beats(g, h) => (Fresh(g, h) \/ Due(g, h)) /\ First < now

CallsInTime ==
  \A g \in Guards : Calls(g) => now = First \/ (now = Second /\ g # 0)

\* A guard finds enough others in the second second, by asking them at the latest.
FewInTime ==
  \A g \in Guards : Few(g) => now <= Second /\ (now = Second /\ g \in updated => Calls(g))

\* Until then a guard that finds too few has no nonce of its own but those of the
\* first second, and such a nonce for every guard that it does not know: it does not
\* ask.
OwnBlocked ==
  \A g \in Guards : Few(g) /\ ~Calls(g) => \A n \in info[g][g].nonces : n.at <= First

OthersBlocked ==
  \A g \in Guards :
    Few(g) /\ ~Calls(g) /\ now < Second /\ (now = First => g \in updated) =>
      \A h \in Guards : Known(g, h) \/ \E n \in info[g][h].nonces : n.at = First

\* Guard 0 asks in the first second, unless it has found enough guards.
ZeroAsks ==
  /\ now = First /\ 0 \notin updated => info[0][0].nonces = {}
  /\ First < now \/ 0 \in updated => ~Few(0) \/ (now = First /\ Calls(0))

\* Two guards know each other by the end of the first second, or neither does.
BothKnown ==
  \A g, h \in Guards :
    now = First /\ Known(g, h) => Known(h, g) \/ \E q \in msgs : Offer(h, g, q)

\* What guard 0 needs all guards for.
ZeroKnown ==
  NeedGuard = N /\ First < now =>
    \A g \in Guards : g # 0 => Known(0, g) /\ Known(g, 0)

TimeInv ==
  /\ KnownInTime /\ NonceInTime /\ FormerNonce /\ PresentNonce /\ AllInStep /\ DueAsked
  /\ BeatsDue /\ CallsInTime /\ FewInTime /\ OwnBlocked /\ OthersBlocked /\ ZeroAsks
  /\ BothKnown /\ ZeroKnown /\ First <= now

-----------------------------------------------------------------------------
\* What a guard does in a step

\* g forgets nonces of h that timed out, at most, and adds those of new.
Keeps(g, h, new) ==
  /\ info'[g][h].peer = info[g][h].peer /\ info'[g][h].lastUpdate = info[g][h].lastUpdate
  /\ info'[g][h].nonces \subseteq info[g][h].nonces \cup new
  /\ \A n \in info[g][h].nonces : Valid(n) => n \in info'[g][h].nonces
  /\ new \subseteq info'[g][h].nonces

\* g has heard of h.
Learns(g, h) ==
  info'[g][h].peer = peer[h] /\ info'[g][h].lastUpdate = now /\ info'[g][h].nonces = {}

\* g makes the nonces new, sends the messages sent and has heard of the guards learnt.
Does(g, new, sent, learnt) ==
  /\ UNCHANGED <<now, peer>> /\ updated \subseteq updated' /\ received \subseteq received'
  /\ \A x \in Guards : x # g => info'[x] = info[x]
  /\ \A h \in Guards : IF h \in learnt THEN Learns(g, h) ELSE Keeps(g, h, new[h])
  /\ \A h \in Guards : \A n \in new[h] :
       n \in Nonce /\ n.by = g /\ made[g] < n.no /\ n.at = now
  /\ msgs' = msgs \cup sent
  /\ \A m \in sent :
       /\ m.from = g /\ m.at = now
       /\ m.nonce # None =>
            m.nonce \in Nonce /\ m.nonce.by = g /\ made[g] < m.nonce.no /\ m.nonce.at = now

\* Nothing is made, sent or learnt.
NoNonces == [h \in Guards |-> {}]

\* The guards have their first identifiers.
LEMMA FirstPeers ==
  ASSUME DetectionInv, MaxRestarts = 0
  PROVE  /\ \A g \in Guards : peer[g] = <<g, 0>>
         /\ \A g, h \in Guards : peer[g] = peer[h] => g = h
         /\ \A g, h \in Guards : Known(g, h) => info[g][h].peer = peer[h]
         /\ \A m \in msgs : m \in Message /\ m.from \in Guards /\ m.peer = peer[m.from]
<1>1. \A p \in Peers : p = <<p[1], 0>> /\ p[1] \in Guards
  BY DEF Peers
<1>2. \A g \in Guards : peer[g] = <<g, 0>>
  BY <1>1 DEF DetectionInv, TypeOK, PeersOwned
<1>3. ASSUME NEW g \in Guards, NEW h \in Guards, Known(g, h)
      PROVE  info[g][h].peer = peer[h]
  <2>1. info[g][h].peer \in Peers
    BY <1>3 DEF Known, DetectionInv, TypeOK, Info
  <2>2. info[g][h].peer[1] = h
    BY <1>3 DEF Known, DetectionInv, KnownBefore, KnownOf
  <2>3. QED
    BY <1>1, <1>2, <2>1, <2>2
<1>4. ASSUME NEW m \in msgs
      PROVE  m \in Message /\ m.from \in Guards /\ m.peer = peer[m.from]
  <2>1. m \in Message /\ m.from \in Guards /\ m.peer \in Peers
    BY DEF DetectionInv, TypeOK, Message
  <2>2. m.peer[1] = m.from
    BY DEF DetectionInv, SentBefore
  <2>3. QED
    BY <1>1, <1>2, <2>1, <2>2
<1>5. \A g, h \in Guards : peer[g] = peer[h] => g = h
  BY DEF DetectionInv, PeersOwned
<1> QED
  BY <1>2, <1>3, <1>4, <1>5

\* What is known without the nonces that timed out.
LEMMA ClearedFacts ==
  ASSUME TypeOK, NEW g \in Guards, NEW h \in Guards
  PROVE  /\ info[g][h] \in Info
         /\ Cleared(g)[h].peer = info[g][h].peer
         /\ Cleared(g)[h].lastUpdate = info[g][h].lastUpdate
         /\ Cleared(g)[h].nonces = {n \in info[g][h].nonces : Valid(n)}
<1>1. info[g][h] \in Info
  BY DEF TypeOK
<1>2. Cleared(g)[h] = [info[g][h] EXCEPT !.nonces = {n \in info[g][h].nonces : Valid(n)}]
  BY DEF Cleared
<1>3. QED
  BY <1>1, <1>2 DEF Info

LEMMA NewNonceFacts ==
  ASSUME TypeOK, NEW g \in Guards, NEW k \in Nat \ {0}
  PROVE  /\ NewNonce(g, k) \in Nonce /\ NewNonce(g, k) # None /\ NewNonce(g, k).by = g
         /\ made[g] < NewNonce(g, k).no /\ NewNonce(g, k).at = now
<1>1. NewNonce(g, k) \in Nonce /\ NewNonce(g, k) # None
  BY NewNonceType
<1>2. QED
  BY <1>1 DEF NewNonce, TypeOK

\* The guard finds too few others, and asks all.
LEMMA CallsDoes ==
  ASSUME DetectionInv, PromptNetwork, NEW g \in Guards, Update(g), Few(g), MustInit(g, Cleared(g))
  PROVE  \E n \in Nonce : \E m :
           /\ n.at = now
           /\ Does(g, [h \in Guards |-> {n}], {m}, {})
           /\ m.type = "register" /\ m.to = None /\ m.nonce = n
           /\ received' = received /\ updated' = updated \cup {g} /\ g \notin updated
<1> DEFINE n == NewNonce(g, 1)
           m == Send(g, "register", None, n, None)
           new == [h \in Guards |-> {n}]
<1>1. TypeOK /\ Prompt
  BY DEF DetectionInv, PromptNetwork
<1>2. n \in Nonce /\ n # None /\ n.by = g /\ made[g] < n.no /\ n.at = now
  BY <1>1, NewNonceFacts
<1>3. /\ info' = [info EXCEPT ![g] =
           [h \in Guards |-> [Cleared(g)[h] EXCEPT !.nonces = {k \in @ : Valid(k)} \cup {n}]]]
      /\ msgs' = msgs \cup {m} /\ UNCHANGED <<now, peer, received>>
      /\ updated' = updated \cup {g} /\ g \notin updated
  BY <1>1 DEF Update, Initialise, Few
<1> HIDE DEF n
<1>4. m.from = g /\ m.at = now /\ m.nonce = n /\ m.type = "register" /\ m.to = None
  BY DEF Send
<1>5. ASSUME NEW h \in Guards PROVE Keeps(g, h, {n})
  <2>1. info'[g][h] = [Cleared(g)[h] EXCEPT !.nonces = {k \in @ : Valid(k)} \cup {n}]
    BY <1>1, <1>3 DEF TypeOK
  <2>2. Cleared(g)[h] \in Info
    BY <1>1, ClearedType
  <2>3. /\ info'[g][h].peer = Cleared(g)[h].peer
        /\ info'[g][h].lastUpdate = Cleared(g)[h].lastUpdate
        /\ info'[g][h].nonces = {k \in Cleared(g)[h].nonces : Valid(k)} \cup {n}
    BY <2>1, <2>2 DEF Info
  <2>4. QED
    BY <1>1, <2>3, ClearedFacts DEF Keeps
<1>6. \A x \in Guards : x # g => info'[x] = info[x]
  BY <1>1, <1>3 DEF TypeOK
<1>7. Does(g, new, {m}, {})
  <2> HIDE DEF m
  <2>1. \A h \in Guards : new[h] = {n}
    OBVIOUS
  <2> HIDE DEF new
  <2> QED
    BY <1>2, <1>3, <1>4, <1>5, <1>6, <2>1 DEF Does
<1> QED
  BY <1>2, <1>3, <1>4, <1>7

\* It has asked before, or 0 has asked it.
LEMMA BlockedDoes ==
  ASSUME DetectionInv, PromptNetwork, NEW g \in Guards, Update(g), Few(g), ~MustInit(g, Cleared(g))
  PROVE  /\ Does(g, NoNonces, {}, {})
         /\ received' = received /\ updated' = updated \cup {g} /\ g \notin updated
         /\ \A h \in Guards : info'[g][h].nonces = Cleared(g)[h].nonces
<1>1. TypeOK /\ Prompt
  BY DEF DetectionInv, PromptNetwork
<1>2. /\ info' = [info EXCEPT ![g] = Cleared(g)]
      /\ msgs' = msgs /\ UNCHANGED <<now, peer, received>>
      /\ updated' = updated \cup {g} /\ g \notin updated
  BY <1>1 DEF Update, Initialise, Few
<1>3. \A h \in Guards : info'[g][h] = Cleared(g)[h]
  BY <1>1, <1>2 DEF TypeOK
<1>4. \A x \in Guards : x # g => info'[x] = info[x]
  BY <1>1, <1>2 DEF TypeOK
<1>5. \A h \in Guards : Keeps(g, h, {}) /\ NoNonces[h] = {}
  BY <1>1, <1>3, ClearedFacts DEF Keeps, NoNonces
<1> QED
  BY <1>2, <1>3, <1>4, <1>5 DEF Does

\* It finds enough others, and sends heartbeats: the nonce of h's is nn[h].
LEMMA BeatsDoes ==
  ASSUME DetectionInv, PromptNetwork, NEW g \in Guards, Update(g), ~Few(g)
  PROVE  \E nn, new, sent :
           /\ Does(g, new, sent, {})
           /\ \A k \in Guards : \A n \in new[k] :
                \E h \in Guards : HeartbeatDue(g, h) /\ n = nn[h] /\ (h = k \/ h = 0)
           /\ \A h \in Guards : HeartbeatDue(g, h) => nn[h] \in new[h]
           /\ \A m \in sent : m.type = "heartbeat" /\ m.nonce # None /\
                \E h \in Guards : HeartbeatDue(g, h) /\ m.nonce = nn[h] /\ m.to = info[g][h].peer
           /\ \A h \in Guards : HeartbeatDue(g, h) =>
                \E m \in sent : m.nonce = nn[h] /\ m.to = info[g][h].peer
           /\ \A p, q \in sent : p.to = q.to => p = q
           /\ received' = received /\ updated' = updated \cup {g} /\ g \notin updated
<1> DEFINE due == {h \in Guards : HeartbeatDue(g, h)}
           Nth(h) == Cardinality({k \in due : k <= h})
           For(k) == {NewNonce(g, Nth(h)) : h \in {h \in due : h = k \/ h = 0}}
           Msg(h) == Send(g, "heartbeat", info[g][h].peer, NewNonce(g, Nth(h)), None)
           nn == [h \in Guards |-> NewNonce(g, Nth(h))]
           new == [k \in Guards |-> For(k)]
           sent == {Msg(h) : h \in due}
<1>1. TypeOK /\ Prompt
  BY DEF DetectionInv, PromptNetwork
<1>2. /\ info' = [info EXCEPT ![g] =
           [k \in Guards |-> [Cleared(g)[k] EXCEPT !.nonces = @ \cup For(k)]]]
      /\ msgs' = msgs \cup sent /\ UNCHANGED <<now, peer, received>>
      /\ updated' = updated \cup {g} /\ g \notin updated
  BY <1>1 DEF Update, Heartbeats, Few
<1>3. \A h \in due :
        /\ NewNonce(g, Nth(h)) \in Nonce /\ NewNonce(g, Nth(h)) # None
        /\ NewNonce(g, Nth(h)).by = g /\ made[g] < NewNonce(g, Nth(h)).no
        /\ NewNonce(g, Nth(h)).at = now
  <2>1. \A h \in due : Nth(h) \in Nat \ {0}
    BY DueCount
  <2> HIDE DEF Nth, due
  <2> QED
    BY <1>1, <2>1, NewNonceFacts
<1>4. \A h \in Guards : h \in due <=> HeartbeatDue(g, h)
  OBVIOUS
<1>5. \A h \in due : /\ Msg(h).from = g /\ Msg(h).at = now /\ Msg(h).type = "heartbeat"
                     /\ Msg(h).nonce = nn[h] /\ Msg(h).to = info[g][h].peer
  BY <1>4 DEF Send
<1>6. \A h \in due : nn[h] = NewNonce(g, Nth(h))
  BY <1>4
<1>7. \A k \in Guards : new[k] = For(k)
  OBVIOUS
<1>8. \A k \in Guards : \A n \in For(k) : \E h \in due : n = nn[h] /\ (h = k \/ h = 0)
  BY <1>6
<1>9. \A h \in due : nn[h] \in For(h)
  BY <1>6
<1> HIDE DEF Nth, nn
<1>10. ASSUME NEW h \in Guards PROVE Keeps(g, h, For(h))
  <2> HIDE DEF For
  <2>1. info'[g][h] = [Cleared(g)[h] EXCEPT !.nonces = @ \cup For(h)]
    BY <1>1, <1>2 DEF TypeOK
  <2>2. Cleared(g)[h] \in Info
    BY <1>1, ClearedType
  <2>3. /\ info'[g][h].peer = Cleared(g)[h].peer
        /\ info'[g][h].lastUpdate = Cleared(g)[h].lastUpdate
        /\ info'[g][h].nonces = Cleared(g)[h].nonces \cup For(h)
    BY <2>1, <2>2 DEF Info
  <2> QED
    BY <1>1, <2>3, ClearedFacts DEF Keeps
<1>11. \A x \in Guards : x # g => info'[x] = info[x]
  BY <1>1, <1>2 DEF TypeOK
<1> HIDE DEF Msg, For, new, due
<1>12. \A p, q \in sent : p.to = q.to => p = q
  <2> SUFFICES ASSUME NEW h \in due, NEW k \in due, Msg(h).to = Msg(k).to
               PROVE  Msg(h) = Msg(k)
    OBVIOUS
  <2>1. h \in Guards /\ k \in Guards /\ Known(g, h) /\ Known(g, k)
    BY <1>1, <1>4, ClearedFacts DEF HeartbeatDue, due, Known
  <2>2. peer[h] = peer[k]
    BY <1>5, <2>1, FirstPeers DEF PromptNetwork
  <2>3. h = k
    BY <2>1, <2>2, FirstPeers DEF PromptNetwork
  <2> QED
    BY <2>3
<1>13. due \subseteq Guards
  BY DEF due
<1>14. Does(g, new, sent, {})
  <2>1. \A m \in sent :
          /\ m.from = g /\ m.at = now
          /\ m.nonce # None =>
               m.nonce \in Nonce /\ m.nonce.by = g /\ made[g] < m.nonce.no /\ m.nonce.at = now
    BY <1>3, <1>5, <1>6
  <2>2. \A h \in Guards : \A n \in new[h] :
          n \in Nonce /\ n.by = g /\ made[g] < n.no /\ n.at = now
    BY <1>3, <1>6, <1>7, <1>8
  <2> HIDE DEF sent
  <2> QED
    BY <1>2, <1>7, <1>10, <1>11, <2>1, <2>2 DEF Does
<1>15. \A m \in sent : m.type = "heartbeat" /\ m.nonce # None /\
         \E h \in Guards : HeartbeatDue(g, h) /\ m.nonce = nn[h] /\ m.to = info[g][h].peer
  BY <1>3, <1>4, <1>5, <1>6, <1>13
<1>16. \A h \in Guards : HeartbeatDue(g, h) =>
         \E m \in sent : m.nonce = nn[h] /\ m.to = info[g][h].peer
  BY <1>4, <1>5
<1>17. \A k \in Guards : \A n \in new[k] :
         \E h \in Guards : HeartbeatDue(g, h) /\ n = nn[h] /\ (h = k \/ h = 0)
  BY <1>4, <1>7, <1>8, <1>13
<1>18. \A h \in Guards : HeartbeatDue(g, h) => nn[h] \in new[h]
  BY <1>4, <1>7, <1>9
<1> HIDE DEF sent
<1> QED
  BY <1>2, <1>12, <1>14, <1>15, <1>16, <1>17, <1>18

\* g receives m, a message of this second that it did not receive before.
Takes(g, m) ==
  /\ m \in msgs /\ m.from \in Guards /\ m.from # g /\ m.to \in {None, peer[g]} /\ m.at = now
  /\ <<g, m>> \notin received /\ received' = received \cup {<<g, m>>} /\ updated' = updated

LEMMA ReceiveTakes ==
  ASSUME DetectionInv, PromptNetwork, FormerReceived, NEW g \in Guards, NEW m \in msgs,
         Receive(g, m), updated' = updated
  PROVE  Takes(g, m) /\ m.peer = peer[m.from]
<1>1. m \in Message /\ m.from \in Guards /\ m.peer = peer[m.from]
  BY FirstPeers DEF PromptNetwork
<1>2. m.at \in Nat /\ now \in Nat /\ m.at <= now
  BY <1>1 DEF Message, DetectionInv, TypeOK, SentBefore
<1>3. /\ m.from # g /\ m.to \in {None, peer[g]}
      /\ <<g, m>> \notin received /\ received' = received \cup {<<g, m>>}
  BY DEF Receive, PromptNetwork
<1>4. m.at = now
  BY <1>2, <1>3 DEF FormerReceived
<1>5. QED
  BY <1>1, <1>3, <1>4 DEF Takes

LEMMA RegisterDoes ==
  ASSUME DetectionInv, PromptNetwork, FormerReceived, NEW g \in Guards, NEW m \in msgs,
         HandleRegister(g, m)
  PROVE  /\ Takes(g, m)
         /\ \E n \in Nonce : \E a :
              /\ Does(g, [k \in Guards |-> IF k = m.from \/ m.from = 0 THEN {n} ELSE {}], {a}, {})
              /\ a.type = "approval" /\ a.to = peer[m.from] /\ a.answer = m.nonce
              /\ a.nonce = n
<1> DEFINE n == NewNonce(g, 1)
           a == Send(g, "approval", m.peer, n, m.nonce)
           new == [k \in Guards |-> IF k = m.from \/ m.from = 0 THEN {n} ELSE {}]
<1>1. TypeOK /\ Prompt
  BY DEF DetectionInv, PromptNetwork
<1>2. n \in Nonce /\ n # None /\ n.by = g /\ made[g] < n.no /\ n.at = now
  BY <1>1, NewNonceFacts
<1>3. /\ info' = [info EXCEPT ![g] = AddNonce(Cleared(g), m.from, n)]
      /\ msgs' = msgs \cup {a} /\ UNCHANGED <<now, peer>> /\ updated' = updated
  BY DEF HandleRegister
<1>4. Takes(g, m) /\ m.peer = peer[m.from]
  BY ReceiveTakes DEF HandleRegister
<1> HIDE DEF n
<1>5. /\ a.from = g /\ a.at = now /\ a.nonce = n /\ a.type = "approval"
      /\ a.to = peer[m.from] /\ a.answer = m.nonce
  BY <1>4 DEF Send
<1>6. ASSUME NEW h \in Guards PROVE Keeps(g, h, new[h])
  <2>1. info'[g][h] = AddNonce(Cleared(g), m.from, n)[h]
    BY <1>1, <1>3 DEF TypeOK
  <2>2. Cleared(g)[h] \in Info
    BY <1>1, ClearedType
  <2>3. CASE h = m.from \/ m.from = 0
    <3>1. info'[g][h] = [Cleared(g)[h] EXCEPT !.nonces = @ \cup {n}] /\ new[h] = {n}
      BY <2>1, <2>3 DEF AddNonce
    <3> HIDE DEF new
    <3>2. /\ info'[g][h].peer = Cleared(g)[h].peer
          /\ info'[g][h].lastUpdate = Cleared(g)[h].lastUpdate
          /\ info'[g][h].nonces = Cleared(g)[h].nonces \cup {n}
      BY <2>2, <3>1 DEF Info
    <3> QED
      BY <1>1, <3>1, <3>2, ClearedFacts DEF Keeps
  <2>4. CASE ~(h = m.from \/ m.from = 0)
    <3>1. info'[g][h] = Cleared(g)[h] /\ new[h] = {}
      BY <2>1, <2>4 DEF AddNonce
    <3> HIDE DEF new
    <3> QED
      BY <1>1, <3>1, ClearedFacts DEF Keeps
  <2> QED
    BY <2>3, <2>4
<1>7. \A x \in Guards : x # g => info'[x] = info[x]
  BY <1>1, <1>3 DEF TypeOK
<1>8. Does(g, new, {a}, {})
  <2> HIDE DEF a
  <2>1. \A h \in Guards : \A k \in new[h] : k = n
    OBVIOUS
  <2> HIDE DEF new
  <2> QED
    BY <1>2, <1>3, <1>4, <1>5, <1>6, <1>7, <2>1 DEF Does, Takes
<1> QED
  BY <1>2, <1>4, <1>5, <1>8

LEMMA HeartbeatDoes ==
  ASSUME DetectionInv, PromptNetwork, FormerReceived, NEW g \in Guards, NEW m \in msgs,
         HandleHeartbeat(g, m)
  PROVE  /\ Takes(g, m)
         /\ \E a :
              /\ Does(g, NoNonces, {a}, {})
              /\ a.type = "approval" /\ a.to = peer[m.from] /\ a.answer = m.nonce
              /\ a.nonce = None
<1> DEFINE a == Send(g, "approval", m.peer, None, m.nonce)
<1>1. msgs' = msgs \cup {a} /\ UNCHANGED <<now, peer, info>> /\ updated' = updated
  BY DEF HandleHeartbeat
<1>2. Takes(g, m) /\ m.peer = peer[m.from]
  BY ReceiveTakes DEF HandleHeartbeat
<1>3. /\ a.from = g /\ a.at = now /\ a.nonce = None /\ a.type = "approval"
      /\ a.to = peer[m.from] /\ a.answer = m.nonce
  BY <1>2 DEF Send
<1>4. \A h \in Guards : Keeps(g, h, {}) /\ NoNonces[h] = {}
  BY <1>1 DEF Keeps, NoNonces
<1>5. Does(g, NoNonces, {a}, {})
  <2> HIDE DEF a
  <2> QED
    BY <1>1, <1>2, <1>3, <1>4 DEF Does, Takes
<1> QED
  BY <1>2, <1>3, <1>5

\* An answer to a nonce that counts.
LEMMA ApprovalDoes ==
  ASSUME DetectionInv, PromptNetwork, FormerReceived, NEW g \in Guards, NEW m \in msgs,
         HandleApproval(g, m), m.answer \in info[g][m.from].nonces, Valid(m.answer)
  PROVE  /\ Takes(g, m)
         /\ \E sent :
              /\ Does(g, NoNonces, sent, {m.from})
              /\ \A a \in sent : /\ a.type = "approval" /\ a.to = peer[m.from]
                                 /\ a.answer = m.nonce /\ a.nonce = None /\ m.nonce # None
              /\ m.nonce # None => \E a \in sent : TRUE
              /\ \A a, b \in sent : a = b
<1> DEFINE sent == Answer(g, m)
           known == [peer |-> m.peer, nonces |-> {}, lastUpdate |-> now, callbacks |-> {}]
<1>1. TypeOK
  BY DEF DetectionInv
<1>2. Takes(g, m) /\ m.peer = peer[m.from] /\ m.from \in Guards
  BY ReceiveTakes DEF HandleApproval, Takes
<1>3. m.answer \in Cleared(g)[m.from].nonces
  BY <1>1, <1>2, ClearedFacts
<1>4. /\ info' = [info EXCEPT ![g] = [Cleared(g) EXCEPT ![m.from] = known]]
      /\ msgs' = msgs \cup sent /\ UNCHANGED <<now, peer>> /\ updated' = updated
  BY <1>3 DEF HandleApproval, ApprovedInfo
<1>5. \A a \in sent : /\ a.from = g /\ a.at = now /\ a.nonce = None /\ a.type = "approval"
                      /\ a.to = peer[m.from] /\ a.answer = m.nonce /\ m.nonce # None
  BY <1>2 DEF Send, Answer
<1>6. (m.nonce # None => \E a \in sent : TRUE) /\ \A a, b \in sent : a = b
  BY DEF Answer
<1>7. Cleared(g) \in [Guards -> Info] /\ info'[g] = [Cleared(g) EXCEPT ![m.from] = known]
  BY <1>1, <1>4, ClearedType DEF TypeOK
<1>8. Learns(g, m.from)
  BY <1>2, <1>7 DEF Learns
<1>9. ASSUME NEW h \in Guards, h # m.from PROVE Keeps(g, h, {})
  <2>1. info'[g][h] = Cleared(g)[h]
    BY <1>7, <1>9
  <2> QED
    BY <1>1, <2>1, ClearedFacts DEF Keeps
<1>10. \A x \in Guards : x # g => info'[x] = info[x]
  BY <1>1, <1>4 DEF TypeOK
<1>11. \A h \in Guards : NoNonces[h] = {}
  BY DEF NoNonces
<1> HIDE DEF sent, known
<1>12. Does(g, NoNonces, sent, {m.from})
  BY <1>2, <1>4, <1>5, <1>8, <1>9, <1>10, <1>11 DEF Does, Takes
<1> QED
  BY <1>2, <1>5, <1>6, <1>12

\* An answer to a nonce that does not count.
LEMMA RefusalDoes ==
  ASSUME DetectionInv, PromptNetwork, FormerReceived, NEW g \in Guards, NEW m \in msgs,
         HandleApproval(g, m), ~(m.answer \in info[g][m.from].nonces /\ Valid(m.answer))
  PROVE  /\ Takes(g, m) /\ Does(g, NoNonces, {}, {})
         /\ m.answer \notin info'[g][m.from].nonces
<1>1. TypeOK
  BY DEF DetectionInv
<1>2. Takes(g, m) /\ m.from \in Guards
  BY ReceiveTakes DEF HandleApproval, Takes
<1>3. m.answer \notin Cleared(g)[m.from].nonces
  BY <1>1, <1>2, ClearedFacts
<1>4. /\ info' = [info EXCEPT ![g] = Cleared(g)]
      /\ msgs' = msgs /\ UNCHANGED <<now, peer>> /\ updated' = updated
  BY <1>3 DEF HandleApproval
<1>5. \A h \in Guards : info'[g][h] = Cleared(g)[h]
  BY <1>1, <1>4 DEF TypeOK
<1>6. \A x \in Guards : x # g => info'[x] = info[x]
  BY <1>1, <1>4 DEF TypeOK
<1>7. \A h \in Guards : Keeps(g, h, {}) /\ NoNonces[h] = {}
  BY <1>1, <1>5, ClearedFacts DEF Keeps, NoNonces
<1> QED
  BY <1>2, <1>3, <1>4, <1>5, <1>6, <1>7 DEF Does, Takes

\* update: g asks other guards, or nobody.
Asks(g, new, sent) ==
  /\ Does(g, new, sent, {})
  /\ received' = received /\ g \notin updated /\ updated' = updated \cup {g}
  /\ \A q \in sent :
       /\ q.type # "approval" /\ q.nonce # None /\ (q.type = "register" <=> q.to = None)
       /\ \A h \in Guards : h # g /\ q.to \in {None, peer[h]} => q.nonce \in new[h]
  /\ \A p, q \in sent : \A h \in Guards :
       p.to \in {None, peer[h]} /\ q.to \in {None, peer[h]} => p = q

\* g handles m: it answers those who ask, and learns of those whose answer counts.
Handles(g, m, new, sent, learnt) ==
  /\ Takes(g, m) /\ Does(g, new, sent, learnt)
  /\ learnt \subseteq {m.from}
  /\ \A a \in sent :
       /\ a.type = "approval" /\ a.to = peer[m.from] /\ a.answer = m.nonce /\ m.nonce # None
       /\ IF a.nonce # None THEN m.type = "register" /\ a.nonce \in new[m.from] /\ learnt = {}
                            ELSE m.type = "heartbeat" \/ m.from \in learnt
  /\ \A a, b \in sent : a = b
  /\ \A h \in Guards : new[h] # {} => m.type = "register" /\ m.from \in {0, h}
  /\ m.type # "approval" =>
       learnt = {} /\ \E a \in sent : m.type = "register" => a.nonce # None
  /\ m.type = "approval" =>
       /\ m.answer \notin info'[g][m.from].nonces
       /\ IF m.answer \in info[g][m.from].nonces /\ Valid(m.answer)
          THEN learnt = {m.from} /\ (m.nonce # None => \E a \in sent : TRUE)
          ELSE learnt = {}

LEMMA UpdateAsks ==
  ASSUME DetectionInv, PromptNetwork, NEW g \in Guards, Update(g)
  PROVE  \E new, sent : Asks(g, new, sent)
<1>1. TypeOK /\ None \notin Peers
  BY SizeAssumption DEF DetectionInv
<1>2. CASE Few(g) /\ MustInit(g, Cleared(g))
  <2>1. PICK n \in Nonce : \E m :
           /\ n.at = now
           /\ Does(g, [h \in Guards |-> {n}], {m}, {})
           /\ m.type = "register" /\ m.to = None /\ m.nonce = n
           /\ received' = received /\ updated' = updated \cup {g} /\ g \notin updated
    BY <1>2, CallsDoes
  <2>2. PICK m :
           /\ Does(g, [h \in Guards |-> {n}], {m}, {})
           /\ m.type = "register" /\ m.to = None /\ m.nonce = n
           /\ received' = received /\ updated' = updated \cup {g} /\ g \notin updated
    BY <2>1
  <2>3. n # None
    BY NoneAssumption
  <2>4. Asks(g, [h \in Guards |-> {n}], {m})
    BY <2>2, <2>3 DEF Asks
  <2> QED
    BY <2>4
<1>3. CASE Few(g) /\ ~MustInit(g, Cleared(g))
  <2>1. Asks(g, NoNonces, {})
    BY <1>3, BlockedDoes DEF Asks
  <2> QED
    BY <2>1
<1>4. CASE ~Few(g)
  <2>1. PICK nn, new, sent :
           /\ Does(g, new, sent, {})
           /\ \A k \in Guards : \A n \in new[k] :
                \E h \in Guards : HeartbeatDue(g, h) /\ n = nn[h] /\ (h = k \/ h = 0)
           /\ \A h \in Guards : HeartbeatDue(g, h) => nn[h] \in new[h]
           /\ \A m \in sent : m.type = "heartbeat" /\ m.nonce # None /\
                \E h \in Guards : HeartbeatDue(g, h) /\ m.nonce = nn[h] /\ m.to = info[g][h].peer
           /\ \A h \in Guards : HeartbeatDue(g, h) =>
                \E m \in sent : m.nonce = nn[h] /\ m.to = info[g][h].peer
           /\ \A p, q \in sent : p.to = q.to => p = q
           /\ received' = received /\ updated' = updated \cup {g} /\ g \notin updated
    BY <1>4, BeatsDoes
  <2>2. \A h \in Guards : HeartbeatDue(g, h) => Known(g, h)
    BY <1>1, ClearedFacts DEF HeartbeatDue, Known
  <2>3. \A h \in Guards : HeartbeatDue(g, h) => info[g][h].peer = peer[h] /\ peer[h] # None
    BY <1>1, <2>2, FirstPeers DEF PromptNetwork, TypeOK
  <2>4. ASSUME NEW q \in sent
        PROVE  /\ q.type # "approval" /\ q.nonce # None /\ (q.type = "register" <=> q.to = None)
               /\ \A h \in Guards : h # g /\ q.to \in {None, peer[h]} => q.nonce \in new[h]
    <3>1. PICK k \in Guards : HeartbeatDue(g, k) /\ q.nonce = nn[k] /\ q.to = info[g][k].peer
      BY <2>1
    <3>2. \A h \in Guards : q.to \in {None, peer[h]} => h = k
      BY <2>3, <3>1, FirstPeers DEF PromptNetwork
    <3> QED
      BY <2>1, <2>3, <3>1, <3>2
  <2>5. ASSUME NEW p \in sent, NEW q \in sent, NEW h \in Guards,
               p.to \in {None, peer[h]}, q.to \in {None, peer[h]}
        PROVE  p = q
    BY <2>1, <2>4, <2>5
  <2>6. Asks(g, new, sent)
    BY <2>1, <2>4, <2>5 DEF Asks
  <2> QED
    BY <2>6
<1> QED
  BY <1>2, <1>3, <1>4

LEMMA HandlerHandles ==
  ASSUME DetectionInv, PromptNetwork, FormerReceived, NonceCarried,
         NEW g \in Guards, NEW m \in msgs,
         HandleRegister(g, m) \/ HandleHeartbeat(g, m) \/ HandleApproval(g, m)
  PROVE  \E new, sent, learnt : Handles(g, m, new, sent, learnt)
<1>1. m.type # "approval" => m.nonce # None
  BY DEF NonceCarried
<1>2. NoNonces = [h \in Guards |-> {}]
  BY DEF NoNonces
<1>3. CASE HandleRegister(g, m)
  <2>1. m.type = "register" /\ Takes(g, m)
    BY <1>3, RegisterDoes DEF HandleRegister
  <2>2. PICK n \in Nonce : \E a :
          /\ Does(g, [k \in Guards |-> IF k = m.from \/ m.from = 0 THEN {n} ELSE {}], {a}, {})
          /\ a.type = "approval" /\ a.to = peer[m.from] /\ a.answer = m.nonce
          /\ a.nonce = n
    BY <1>3, RegisterDoes
  <2>3. PICK a :
          /\ Does(g, [k \in Guards |-> IF k = m.from \/ m.from = 0 THEN {n} ELSE {}], {a}, {})
          /\ a.type = "approval" /\ a.to = peer[m.from] /\ a.answer = m.nonce
          /\ a.nonce = n
    BY <2>2
  <2>4. n # None /\ m.from \in Guards
    BY <2>1, NoneAssumption DEF Takes
  <2>5. Handles(g, m, [k \in Guards |-> IF k = m.from \/ m.from = 0 THEN {n} ELSE {}], {a}, {})
    BY <1>1, <2>1, <2>3, <2>4 DEF Handles
  <2> QED
    BY <2>5
<1>4. CASE HandleHeartbeat(g, m)
  <2>1. m.type = "heartbeat"
    BY <1>4 DEF HandleHeartbeat
  <2>2. PICK a :
          /\ Does(g, NoNonces, {a}, {})
          /\ a.type = "approval" /\ a.to = peer[m.from] /\ a.answer = m.nonce
          /\ a.nonce = None
    BY <1>4, HeartbeatDoes
  <2>3. Handles(g, m, NoNonces, {a}, {})
    BY <1>1, <1>2, <1>4, <2>1, <2>2, HeartbeatDoes DEF Handles
  <2> QED
    BY <2>3
<1>5. CASE HandleApproval(g, m)
  <2>1. m.type = "approval"
    BY <1>5 DEF HandleApproval
  <2>2. CASE m.answer \in info[g][m.from].nonces /\ Valid(m.answer)
    <3>1. Takes(g, m) /\ m.from \in Guards
      BY <1>5, <2>2, ApprovalDoes DEF Takes
    <3>2. PICK sent :
           /\ Does(g, NoNonces, sent, {m.from})
           /\ \A a \in sent : /\ a.type = "approval" /\ a.to = peer[m.from]
                              /\ a.answer = m.nonce /\ a.nonce = None /\ m.nonce # None
           /\ m.nonce # None => \E a \in sent : TRUE
           /\ \A a, b \in sent : a = b
      BY <1>5, <2>2, ApprovalDoes
    <3>3. m.answer \notin info'[g][m.from].nonces
      BY <3>1, <3>2 DEF Does, Learns
    <3>4. Handles(g, m, NoNonces, sent, {m.from})
      BY <1>2, <2>1, <2>2, <3>1, <3>2, <3>3 DEF Handles
    <3> QED
      BY <3>4
  <2>3. CASE ~(m.answer \in info[g][m.from].nonces /\ Valid(m.answer))
    <3>1. Takes(g, m) /\ Does(g, NoNonces, {}, {}) /\ m.answer \notin info'[g][m.from].nonces
      BY <1>5, <2>3, RefusalDoes
    <3>2. Handles(g, m, NoNonces, {}, {})
      BY <1>2, <2>1, <2>3, <3>1 DEF Handles
    <3> QED
      BY <3>2
  <2> QED
    BY <2>2, <2>3
<1> QED
  BY <1>3, <1>4, <1>5

\* A step of the prompt network.
LEMMA PromptStep ==
  ASSUME DetectionInv, PromptNetwork, FormerReceived, NonceCarried, Next
  PROVE  \/ Tick
         \/ \E g \in Guards :
              \/ Update(g)
              \/ \E m \in msgs : \E new, sent, learnt : Handles(g, m, new, sent, learnt)
<1>1. ASSUME NEW g \in Guards PROVE ~CallInit(g) /\ ~Restart(g)
  <2>1. peer[g][2] = 0
    BY FirstPeers DEF PromptNetwork
  <2> QED
    BY <2>1 DEF PromptNetwork, CallInit, Restart
<1>2. \A g, h \in Guards, p \in Peers : ~Register(g, h, p)
  BY DEF PromptNetwork, Register
<1> QED
  BY <1>1, <1>2, HandlerHandles DEF Next

-----------------------------------------------------------------------------
\* The messages of a second, in each step

\* What is known and sent in a second stays so in it.
LEMMA Grows ==
  ASSUME DetectionInv, NEW g \in Guards, NEW new, NEW sent, NEW learnt, Does(g, new, sent, learnt)
  PROVE  /\ \A x, h \in Guards : /\ Known(x, h) => Known(x, h)'
                                 /\ Fresh(x, h) => Fresh(x, h)'
                                 /\ x # g \/ h \notin learnt =>
                                      (Known(x, h)' <=> Known(x, h)) /\ Last(x, h)' = Last(x, h)
         /\ \A h \in Guards : h \in learnt => Fresh(g, h)'
         /\ \A x \in Guards : Calls(x) => Calls(x)'
         /\ \A x, h \in Guards : Beats(x, h) => Beats(x, h)'
         /\ \A x, h \in Guards, q \in msgs' :
              /\ Offer(x, h, q) => Offer(x, h, q)'
              /\ Offer(x, h, q)' => Offer(x, h, q) \/ (x = g /\ q \in sent /\ q \notin msgs)
         /\ \A q \in sent : q.nonce # None => q \notin msgs
<1>1. TypeOK /\ None \notin Peers
  BY SizeAssumption DEF DetectionInv
<1>2. \A h \in Guards : h \in learnt => Fresh(g, h)' /\ Known(g, h)'
  BY <1>1 DEF Does, Learns, Fresh, Known, Last, TypeOK
<1>3. \A x, h \in Guards : x # g \/ h \notin learnt =>
        info'[x][h].peer = info[x][h].peer /\ info'[x][h].lastUpdate = info[x][h].lastUpdate
  BY DEF Does, Keeps
<1>4. now' = now /\ peer' = peer /\ msgs' = msgs \cup sent
  BY DEF Does
<1>5. \A x, h \in Guards : /\ Known(x, h) => Known(x, h)'
                           /\ Fresh(x, h) => Fresh(x, h)'
                           /\ x # g \/ h \notin learnt =>
                                (Known(x, h)' <=> Known(x, h)) /\ Last(x, h)' = Last(x, h)
  BY <1>2, <1>3, <1>4 DEF Known, Fresh, Last
<1>6. \A q \in sent : q.from = g /\ q.at = now /\ (q.nonce # None => q \notin msgs)
  <2> SUFFICES ASSUME NEW q \in sent, q.nonce # None, q \in msgs
               PROVE  FALSE
    BY DEF Does
  <2>1. q.nonce.by = g /\ made[g] < q.nonce.no /\ q.nonce.no \in Nat
    BY DEF Does, Nonce
  <2>2. q.nonce.no <= made[g] /\ made[g] \in Nat
    BY <1>1, <2>1 DEF DetectionInv, NoncesMade, TypeOK
  <2> QED
    BY <2>1, <2>2
<1>7. \A x \in Guards : Calls(x) => Calls(x)'
  BY <1>4 DEF Calls
<1>8. \A x, h \in Guards, q \in msgs' :
        /\ Offer(x, h, q) => Offer(x, h, q)'
        /\ Offer(x, h, q)' => Offer(x, h, q) \/ (x = g /\ q \in sent /\ q \notin msgs)
  BY <1>4, <1>6 DEF Offer
<1>9. \A x, h \in Guards : Beats(x, h) => Beats(x, h)'
  BY <1>4, <1>8 DEF Beats, Offer
<1> QED
  BY <1>2, <1>5, <1>6, <1>7, <1>8, <1>9

\* A nonce sent in this second counts in it.
LEMMA OfferValid ==
  ASSUME DetectionInv, NonceCarried, NEW g \in Guards, NEW h \in Guards, NEW q \in msgs,
         Offer(g, h, q)
  PROVE  Valid(q.nonce) /\ q.nonce.at = now /\ q.nonce.by = g
<1>1. q.nonce.at = now /\ q.nonce.by = g
  BY DEF NonceCarried, Offer
<1>2. now \in Nat /\ MessageValid \in Nat
  BY TimeAssumption DEF DetectionInv, TypeOK
<1> QED
  BY <1>1, <1>2 DEF Valid

\* The guard that an approval is sent to, and the message that it answers.
LEMMA WhoseAnswer ==
  ASSUME DetectionInv, PromptNetwork, AnswerAsked, NEW g \in Guards, NEW m \in msgs,
         m.type = "approval", m.at = now, m.to \in {None, peer[g]}
  PROVE  \E q \in msgs : Answers(m, g, q)
<1>1. PICK h \in Guards : \E q \in msgs : Answers(m, h, q)
  BY DEF AnswerAsked
<1>2. m.to = peer[h]
  BY <1>1 DEF Answers
<1>3. peer[h] # None
  BY SizeAssumption DEF DetectionInv, TypeOK
<1>4. h = g
  BY <1>2, <1>3, FirstPeers DEF PromptNetwork
<1> QED
  BY <1>1, <1>4

\* What holds of every step: g forgets no nonce that counts, but those of the guards
\* that it has heard of.
LEMMA DoesKeeps ==
  ASSUME DetectionInv, PromptNetwork, SecondInv,
         NEW g \in Guards, NEW new, NEW sent, NEW learnt, Does(g, new, sent, learnt),
         g \notin learnt,
         \A q \in sent : \A h \in Guards :
           q.nonce # None /\ h # g /\ q.to \in {None, peer[h]} => q.nonce \in new[h] /\ h \notin learnt,
         \A q \in sent : /\ q.type # "approval" => q.nonce # None
                         /\ q.type = "register" <=> q.to = None,
         \A r \in received' :
           r \in received \/ (/\ r[1] = g /\ r[2] \in msgs
                              /\ r[2].type = "approval" =>
                                   r[2].answer \notin info'[g][r[2].from].nonces)
  PROVE  /\ KnownPeers' /\ FormerReceived' /\ NonceCarried' /\ NonceKept' /\ AnsweredOff'
<1>1. TypeOK /\ None \notin Peers /\ now' = now /\ peer' = peer /\ msgs' = msgs \cup sent
  BY SizeAssumption DEF DetectionInv, Does
<1>2. KnownPeers'
  <2>1. \A x, h \in Guards : Known(x, h)' =>
          (x = g /\ h \in learnt /\ info'[x][h].peer = peer[h])
          \/ (Known(x, h) /\ info'[x][h].peer = info[x][h].peer)
    BY <1>1 DEF Does, Learns, Keeps, Known
  <2> QED
    BY <1>1, <2>1 DEF SecondInv, KnownPeers
<1>3. FormerReceived'
  <2>1. \A r \in received' : r[2] \in msgs'
    BY <1>1 DEF SecondInv, FormerReceived
  <2>2. ASSUME NEW m \in msgs', m.at < now PROVE m \in msgs
    <3>1. now \in Nat
      BY <1>1 DEF TypeOK
    <3> QED
      BY <1>1, <2>2, <3>1 DEF Does
  <2> QED
    BY <1>1, <2>1, <2>2 DEF SecondInv, FormerReceived, Does
<1>4. NonceCarried'
  BY <1>1 DEF SecondInv, NonceCarried, Does
<1>5. NonceKept'
  <2> SUFFICES ASSUME NEW x \in Guards, NEW h \in Guards, NEW q \in msgs', Offer(x, h, q)'
               PROVE  Fresh(x, h)' \/ q.nonce \in info'[x][h].nonces
    BY DEF NonceKept
  <2>1. CASE Offer(x, h, q)
    <3>1. q \in msgs /\ (Fresh(x, h) \/ q.nonce \in info[x][h].nonces)
      BY <2>1 DEF SecondInv, NonceKept, Offer
    <3>2. Valid(q.nonce)
      BY <2>1, <3>1, OfferValid DEF SecondInv
    <3>3. CASE Fresh(x, h) \/ (x = g /\ h \in learnt)
      BY <3>3, Grows
    <3>4. CASE q.nonce \in info[x][h].nonces /\ ~(x = g /\ h \in learnt)
      <4>1. CASE x = g
        BY <3>2, <3>4, <4>1 DEF Does, Keeps
      <4>2. CASE x # g
        <5>1. info'[x] = info[x]
          BY <4>2 DEF Does
        <5> QED
          BY <3>4, <5>1
      <4> QED
        BY <4>1, <4>2
    <3> QED
      BY <3>1, <3>3, <3>4
  <2>2. CASE x = g /\ q \in sent
    <3>1. q.nonce \in new[h] /\ h \notin learnt
      BY <1>1, <2>2 DEF Offer
    <3> QED
      BY <2>2, <3>1 DEF Does, Keeps
  <2> QED
    BY <2>1, <2>2, Grows
<1>6. AnsweredOff'
  <2> SUFFICES ASSUME NEW r \in received', r[2].type = "approval",
                      r[2].answer \in info'[r[1]][r[2].from].nonces
               PROVE  FALSE
    BY DEF AnsweredOff
  <2>1. r \in received
    OBVIOUS
  <2>2. r[1] \in Guards /\ r[2] \in msgs /\ r[2].from \in Guards
    <3>1. r \in Guards \X Message /\ r[2] \in msgs
      BY <1>1, <2>1 DEF TypeOK, SecondInv, FormerReceived
    <3> QED
      BY <3>1 DEF Message
  <2>3. r[2].answer \notin info[r[1]][r[2].from].nonces
    BY <2>1 DEF SecondInv, AnsweredOff
  <2>4. r[1] = g /\ r[2].from \notin learnt /\ r[2].answer \in new[r[2].from]
    BY <2>2, <2>3 DEF Does, Learns, Keeps
  <2>5. r[2].answer \in Nonce /\ r[2].answer.by = g /\ made[g] < r[2].answer.no
    BY <2>2, <2>4 DEF Does
  <2>6. r[2].answer # None /\ r[2].answer.no \in Nat
    BY <2>5, NoneAssumption DEF Nonce
  <2>7. r[2].answer.no <= made[g] /\ made[g] \in Nat
    BY <1>1, <2>2, <2>5, <2>6 DEF DetectionInv, NoncesMade, TypeOK
  <2> QED
    BY <2>5, <2>6, <2>7
<1> QED
  BY <1>2, <1>3, <1>4, <1>5, <1>6

LEMMA GrowsAnswers ==
  ASSUME DetectionInv, NEW g \in Guards, NEW new, NEW sent, NEW learnt, Does(g, new, sent, learnt)
  PROVE  /\ \A x, h \in Guards, q \in msgs' : Answered(x, h, q) => Answered(x, h, q)'
         /\ \A h \in Guards, m \in msgs, q \in msgs :
              m.from \in Guards /\ Answers(m, h, q) => Answers(m, h, q)'
<1>1. now' = now /\ peer' = peer /\ msgs \subseteq msgs' /\ received \subseteq received'
  BY DEF Does
<1>2. \A x, h \in Guards, q \in msgs' : Answered(x, h, q) => Answered(x, h, q)'
  BY <1>1 DEF Answered
<1>3. ASSUME NEW h \in Guards, NEW m \in msgs, NEW q \in msgs, m.from \in Guards, Answers(m, h, q)
      PROVE  Answers(m, h, q)'
  <2>1. Offer(h, m.from, q)'
    BY <1>1, <1>3 DEF Answers, Offer
  <2>2. Fresh(m.from, h) => Fresh(m.from, h)'
    BY <1>3, Grows
  <2> QED
    BY <1>1, <1>3, <2>1, <2>2 DEF Answers
<1> QED
  BY <1>2, <1>3

\* update: what is asked is new, and everything else stays.
LEMMA AsksKeeps ==
  ASSUME DetectionInv, PromptNetwork, SecondInv, NEW g \in Guards, NEW new, NEW sent,
         Asks(g, new, sent)
  PROVE  SecondInv'
<1>1. /\ TypeOK /\ None \notin Peers /\ Does(g, new, sent, {})
      /\ now' = now /\ peer' = peer /\ msgs' = msgs \cup sent
      /\ received' = received /\ g \notin updated /\ updated' = updated \cup {g}
  BY SizeAssumption DEF DetectionInv, Asks, Does
<1>2. KnownPeers' /\ FormerReceived' /\ NonceCarried' /\ NonceKept' /\ AnsweredOff'
  BY <1>1, DoesKeeps DEF Asks
<1>3. \A x, h \in Guards : (Known(x, h)' <=> Known(x, h)) /\ Last(x, h)' = Last(x, h)
  BY <1>1, Grows
<1>4. \A x, h \in Guards : Fresh(x, h)' <=> Fresh(x, h)
  BY <1>1, <1>3 DEF Fresh
<1>5. \A x, h \in Guards, q \in msgs' :
        /\ Offer(x, h, q) => Offer(x, h, q)'
        /\ Offer(x, h, q)' => Offer(x, h, q) \/ (x = g /\ q \in sent /\ q \notin msgs)
        /\ Offer(x, h, q)' /\ q.type = "approval" => Offer(x, h, q)
  BY <1>1, Grows DEF Asks
<1>6. \A x \in Guards, q \in sent : <<x, q>> \notin received
  BY <1>1, Grows DEF SecondInv, FormerReceived, Asks
<1>7. \A x, h \in Guards, q \in msgs : Offer(x, h, q) /\ q.nonce \in info[x][h].nonces =>
        q.nonce \in info'[x][h].nonces
  <2> SUFFICES ASSUME NEW x \in Guards, NEW h \in Guards, NEW q \in msgs, Offer(x, h, q),
                      q.nonce \in info[x][h].nonces
               PROVE  q.nonce \in info'[x][h].nonces
    OBVIOUS
  <2>1. Valid(q.nonce)
    BY OfferValid DEF SecondInv
  <2>2. CASE x = g
    BY <1>1, <2>1, <2>2 DEF Does, Keeps
  <2>3. CASE x # g
    BY <1>1, <2>3 DEF Does
  <2> QED
    BY <2>2, <2>3
<1>8. AnswerAsked'
  <2> SUFFICES ASSUME NEW m \in msgs', m.type = "approval", m.at = now
               PROVE  \E h \in Guards : \E q \in msgs' : Answers(m, h, q)'
    BY <1>1 DEF AnswerAsked
  <2>1. m \in msgs /\ m.from \in Guards
    BY <1>1, FirstPeers DEF Asks, PromptNetwork
  <2>2. PICK h \in Guards : \E q \in msgs : Answers(m, h, q)
    BY <2>1 DEF SecondInv, AnswerAsked
  <2> QED
    BY <1>1, <2>1, <2>2, GrowsAnswers
<1>9. AskAnswered'
  <2> SUFFICES ASSUME NEW x \in Guards, NEW h \in Guards, NEW q \in msgs', Ask(x, h, q)',
                      <<h, q>> \in received
               PROVE  /\ Answered(x, h, q)'
                      /\ q.type = "register" =>
                           \E m \in msgs' : Offer(h, x, m)' /\ m.type = "approval"
    BY <1>1 DEF AskAnswered
  <2>1. q \in msgs /\ Ask(x, h, q)
    BY <1>5, <1>6 DEF Ask, Offer
  <2>2. /\ Answered(x, h, q)
        /\ q.type = "register" => \E m \in msgs : Offer(h, x, m) /\ m.type = "approval"
    BY <2>1 DEF SecondInv, AskAnswered
  <2> QED
    BY <1>1, <1>5, <2>2, GrowsAnswers
<1>10. OfferAnswered'
  <2> SUFFICES ASSUME NEW x \in Guards, NEW h \in Guards, NEW q \in msgs', Offer(x, h, q)',
                      q.type = "approval", ~Fresh(x, h)'
               PROVE  IF <<h, q>> \in received THEN Answered(x, h, q)'
                      ELSE q.answer \in info'[h][x].nonces
    BY <1>1 DEF OfferAnswered
  <2>1. q \in msgs /\ Offer(x, h, q) /\ ~Fresh(x, h)
    BY <1>4, <1>5 DEF Offer
  <2>2. IF <<h, q>> \in received THEN Answered(x, h, q) ELSE q.answer \in info[h][x].nonces
    BY <2>1 DEF SecondInv, OfferAnswered
  <2>3. PICK p \in msgs : Answers(q, h, p)
    BY <2>1, WhoseAnswer DEF SecondInv, Offer
  <2>4. q.answer \in info[h][x].nonces => q.answer \in info'[h][x].nonces
    BY <1>7, <2>1, <2>3 DEF Answers, Offer
  <2> QED
    BY <1>1, <2>2, <2>4, GrowsAnswers
<1>11. AskKept'
  <2> SUFFICES ASSUME NEW x \in Guards, NEW h \in Guards, NEW q \in msgs', Ask(h, x, q)',
                      <<x, q>> \notin received
               PROVE  q.nonce \in info'[h][x].nonces \/ Fresh(x, h)'
    BY <1>1 DEF AskKept
  <2>1. CASE Ask(h, x, q)
    BY <1>4, <1>7, <2>1 DEF SecondInv, AskKept, Ask, Offer
  <2>2. CASE h = g /\ q \in sent
    <3>1. q.nonce \in new[x] /\ x \notin {}
      BY <1>1, <2>2 DEF Asks, Ask, Offer
    <3> QED
      BY <1>1, <2>2, <3>1 DEF Does, Keeps
  <2> QED
    BY <1>5, <2>1, <2>2 DEF Ask
<1>12. AskedOnce'
  <2> SUFFICES ASSUME NEW x \in Guards, NEW h \in Guards, NEW p \in msgs', NEW q \in msgs',
                      Ask(x, h, p)', Ask(x, h, q)'
               PROVE  p = q /\ x \in updated'
    BY DEF AskedOnce
  <2>1. CASE x = g
    <3>1. ASSUME NEW k \in msgs', Ask(g, h, k)' PROVE k \in sent /\ k.to \in {None, peer[h]}
      <4>1. ~Ask(g, h, k)
        BY <1>1 DEF SecondInv, AskedOnce, Ask, Offer
      <4> QED
        BY <1>1, <1>5, <3>1, <4>1 DEF Ask, Offer
    <3> QED
      BY <1>1, <2>1, <3>1 DEF Asks
  <2>2. CASE x # g
    <3>1. Ask(x, h, p) /\ Ask(x, h, q)
      BY <1>5, <2>2 DEF Ask
    <3> QED
      BY <1>1, <3>1 DEF SecondInv, AskedOnce, Ask, Offer
  <2> QED
    BY <2>1, <2>2
<1>13. OfferedOnce'
  <2> SUFFICES ASSUME NEW x \in Guards, NEW h \in Guards, NEW p \in msgs', NEW q \in msgs',
                      Offer(x, h, p)', Offer(x, h, q)', p.type = "approval", q.type = "approval",
                      p.answer = q.answer
               PROVE  p = q
    BY DEF OfferedOnce
  <2>1. Offer(x, h, p) /\ Offer(x, h, q)
    BY <1>5
  <2> QED
    BY <2>1 DEF SecondInv, OfferedOnce, Offer
<1> QED
  BY <1>2, <1>8, <1>9, <1>10, <1>11, <1>12, <1>13 DEF SecondInv

\* Which messages are sent when g handles m, and whose answer m is.
LEMMA HandlesSends ==
  ASSUME DetectionInv, PromptNetwork, SecondInv, NEW g \in Guards, NEW m \in msgs,
         NEW new, NEW sent, NEW learnt, Handles(g, m, new, sent, learnt)
  PROVE  /\ m.nonce # None => Offer(m.from, g, m)
         /\ \A x, h \in Guards, q \in msgs' :
              Offer(x, h, q)' =>
                \/ Offer(x, h, q)
                \/ /\ x = g /\ h = m.from /\ q \in sent /\ q \notin msgs
                   /\ m.type = "register" /\ learnt = {} /\ q.answer = m.nonce
         /\ \A x, h \in Guards, q \in msgs' : Ask(x, h, q)' <=> Ask(x, h, q)
         /\ \A h \in learnt : h = m.from /\ m.type = "approval"
         /\ m.type = "approval" => \E q \in msgs : Answers(m, g, q)
         /\ g \notin learnt
<1>1. /\ None \notin Peers /\ peer \in [Guards -> Peers] /\ Does(g, new, sent, learnt)
      /\ now' = now /\ peer' = peer /\ msgs' = msgs \cup sent /\ Takes(g, m)
      /\ m.from \in Guards /\ m.from # g /\ m.at = now /\ m.to \in {None, peer[g]}
  BY SizeAssumption DEF DetectionInv, TypeOK, Handles, Does, Takes
<1>2. m.nonce # None => Offer(m.from, g, m)
  BY <1>1 DEF Offer
<1>3. ASSUME NEW x \in Guards, NEW h \in Guards, NEW q \in msgs', Offer(x, h, q)', ~Offer(x, h, q)
      PROVE  /\ x = g /\ h = m.from /\ q \in sent /\ q \notin msgs
             /\ m.type = "register" /\ learnt = {} /\ q.answer = m.nonce
  <2>1. x = g /\ q \in sent /\ q \notin msgs
    BY <1>1, <1>3, Grows
  <2>2. q.nonce # None /\ q.to \in {None, peer[h]}
    BY <1>1, <1>3 DEF Offer
  <2>3. /\ q.to = peer[m.from] /\ q.answer = m.nonce
        /\ m.type = "register" /\ learnt = {}
    BY <2>1, <2>2 DEF Handles
  <2>4. peer[m.from] = peer[h]
    BY <1>1, <2>2, <2>3
  <2>5. h = m.from
    BY <1>1, <2>4, FirstPeers DEF PromptNetwork
  <2> QED
    BY <2>1, <2>3, <2>5
<1>4. ASSUME NEW x \in Guards, NEW h \in Guards, NEW q \in msgs'
      PROVE  Ask(x, h, q)' <=> Ask(x, h, q)
  <2>1. Offer(x, h, q)' /\ q.type # "approval" => Offer(x, h, q)
    BY <1>3 DEF Handles
  <2>2. Offer(x, h, q) => Offer(x, h, q)'
    BY <1>1, Grows
  <2> QED
    BY <2>1, <2>2 DEF Ask
<1>5. \A h \in learnt : h = m.from /\ m.type = "approval"
  BY DEF Handles
<1>6. m.type = "approval" => \E q \in msgs : Answers(m, g, q)
  BY <1>1, WhoseAnswer DEF SecondInv
<1> QED
  BY <1>1, <1>2, <1>3, <1>4, <1>5, <1>6

\* A handler: who has been asked answers, and every answer is to a message received.
LEMMA HandlesKeeps ==
  ASSUME DetectionInv, PromptNetwork, SecondInv, NEW g \in Guards, NEW m \in msgs,
         NEW new, NEW sent, NEW learnt, Handles(g, m, new, sent, learnt)
  PROVE  SecondInv'
<1>1. /\ TypeOK /\ None \notin Peers /\ Does(g, new, sent, learnt) /\ Takes(g, m)
      /\ now' = now /\ peer' = peer /\ msgs' = msgs \cup sent
      /\ received' = received \cup {<<g, m>>} /\ updated' = updated
      /\ m.from \in Guards /\ m.from # g /\ <<g, m>> \notin received
  BY SizeAssumption DEF DetectionInv, Handles, Does, Takes
<1>2. /\ m.nonce # None => Offer(m.from, g, m)
      /\ \A x, h \in Guards, q \in msgs' :
           Offer(x, h, q)' =>
             \/ Offer(x, h, q)
             \/ /\ x = g /\ h = m.from /\ q \in sent /\ q \notin msgs
                /\ m.type = "register" /\ learnt = {} /\ q.answer = m.nonce
      /\ \A x, h \in Guards, q \in msgs' : Ask(x, h, q)' <=> Ask(x, h, q)
      /\ \A h \in learnt : h = m.from /\ m.type = "approval"
      /\ m.type = "approval" => \E q \in msgs : Answers(m, g, q)
      /\ g \notin learnt
  BY HandlesSends
<1>3. \A q \in sent : /\ q.from = g /\ q.at = now /\ q.type = "approval" /\ q.to = peer[m.from]
                      /\ q.answer = m.nonce /\ m.nonce # None
  BY DEF Handles, Does
<1>4. KnownPeers' /\ FormerReceived' /\ NonceCarried' /\ NonceKept' /\ AnsweredOff'
  <2>1. ASSUME NEW q \in sent, NEW h \in Guards,
               q.nonce # None, h # g, q.to \in {None, peer[h]}
        PROVE  q.nonce \in new[h] /\ h \notin learnt
    <3>1. peer[h] = peer[m.from]
      BY <1>1, <1>3, <2>1 DEF TypeOK
    <3>2. h = m.from
      BY <1>1, <3>1, FirstPeers DEF PromptNetwork
    <3> QED
      BY <2>1, <3>2 DEF Handles
  <2>2. \A q \in sent : /\ q.type # "approval" => q.nonce # None
                        /\ q.type = "register" <=> q.to = None
    BY <1>1, <1>3 DEF TypeOK
  <2>3. \A r \in received' :
           r \in received \/ (/\ r[1] = g /\ r[2] \in msgs
                              /\ r[2].type = "approval" =>
                                   r[2].answer \notin info'[g][r[2].from].nonces)
    BY <1>1 DEF Handles
  <2> QED
    BY <1>1, <1>2, <2>1, <2>2, <2>3, DoesKeeps
<1>5. AnswerAsked'
  <2> SUFFICES ASSUME NEW a \in msgs', a.type = "approval", a.at = now
               PROVE  \E h \in Guards : \E q \in msgs' : Answers(a, h, q)'
    BY <1>1 DEF AnswerAsked
  <2>1. CASE a \in msgs
    <3>1. a.from \in Guards
      BY <2>1, FirstPeers DEF PromptNetwork
    <3>2. PICK h \in Guards : \E q \in msgs : Answers(a, h, q)
      BY <2>1 DEF SecondInv, AnswerAsked
    <3> QED
      BY <1>1, <2>1, <3>1, <3>2, GrowsAnswers
  <2>2. CASE a \in sent
    <3>1. Offer(m.from, g, m)'
      BY <1>1, <1>2, <1>3, <2>2 DEF Offer
    <3>2. m.from \in learnt => Fresh(g, m.from)'
      BY <1>1, Grows
    <3>3. IF a.nonce # None THEN m.type = "register" ELSE m.type = "heartbeat" \/ m.from \in learnt
      BY <2>2 DEF Handles
    <3>4. Answers(a, m.from, m)'
      BY <1>1, <1>3, <2>2, <3>1, <3>2, <3>3 DEF Answers
    <3> QED
      BY <1>1, <3>4
  <2> QED
    BY <1>1, <2>1, <2>2
<1>6. ASSUME NEW a \in sent PROVE Answered(m.from, g, m)'
  BY <1>1, <1>3, <1>6 DEF Answered
<1>7. AskAnswered'
  <2> SUFFICES ASSUME NEW x \in Guards, NEW h \in Guards, NEW q \in msgs', Ask(x, h, q)',
                      <<h, q>> \in received'
               PROVE  /\ Answered(x, h, q)'
                      /\ q.type = "register" =>
                           \E k \in msgs' : Offer(h, x, k)' /\ k.type = "approval"
    BY DEF AskAnswered
  <2>1. Ask(x, h, q)
    BY <1>2
  <2>2. CASE <<h, q>> \in received
    <3>1. /\ Answered(x, h, q)
          /\ q.type = "register" => \E k \in msgs : Offer(h, x, k) /\ k.type = "approval"
      BY <2>1, <2>2 DEF SecondInv, AskAnswered, Ask, Offer
    <3> QED
      BY <1>1, <3>1, Grows, GrowsAnswers
  <2>3. CASE h = g /\ q = m
    <3>1. x = m.from /\ m.type # "approval"
      BY <2>1, <2>3 DEF Ask, Offer
    <3>2. PICK a \in sent : m.type = "register" => a.nonce # None
      BY <3>1 DEF Handles
    <3>3. m.type = "register" => Offer(g, m.from, a)' /\ a.type = "approval"
      BY <1>1, <1>3, <3>2 DEF Offer
    <3> QED
      BY <1>1, <1>6, <2>3, <3>1, <3>3
  <2> QED
    BY <1>1, <2>2, <2>3
\* A nonce of g that counts stays, unless its guard is heard of.
<1>8. ASSUME NEW x \in Guards, NEW h \in Guards, NEW q \in msgs, Offer(x, h, q),
             q.nonce \in info[x][h].nonces, x # g \/ h \notin learnt
      PROVE  q.nonce \in info'[x][h].nonces
  <2>1. Valid(q.nonce)
    BY <1>8, OfferValid DEF SecondInv
  <2>2. CASE x = g
    BY <1>1, <1>8, <2>1, <2>2 DEF Does, Keeps
  <2>3. CASE x # g
    BY <1>1, <1>8, <2>3 DEF Does
  <2> QED
    BY <2>2, <2>3
<1>9. OfferAnswered'
  <2> SUFFICES ASSUME NEW x \in Guards, NEW h \in Guards, NEW q \in msgs', Offer(x, h, q)',
                      q.type = "approval", ~Fresh(x, h)'
               PROVE  IF <<h, q>> \in received' THEN Answered(x, h, q)'
                      ELSE q.answer \in info'[h][x].nonces
    BY DEF OfferAnswered
  <2>0. ~Fresh(x, h)
    BY <1>1, Grows
  <2>1. CASE ~Offer(x, h, q)
    <3>1. /\ x = g /\ h = m.from /\ q \in sent /\ q \notin msgs
          /\ m.type = "register" /\ q.answer = m.nonce
      BY <1>2, <2>1
    <3>2. <<h, q>> \notin received'
      <4>1. <<h, q>> \notin received
        BY <3>1 DEF SecondInv, FormerReceived
      <4> QED
        BY <1>1, <3>1, <4>1
    <3>3. Ask(m.from, g, m)
      BY <1>2, <1>3, <3>1 DEF Ask
    <3>4. m.nonce \in info[m.from][g].nonces
      BY <1>1, <2>0, <3>1, <3>3 DEF SecondInv, AskKept
    <3> QED
      BY <1>1, <3>1, <3>2, <3>4 DEF Does
  <2>2. CASE Offer(x, h, q)
    <3>1. q \in msgs /\ q.at = now /\ q.to \in {None, peer[h]} /\ q.from = x /\ q.nonce # None
      BY <2>2 DEF Offer
    <3>2. IF <<h, q>> \in received THEN Answered(x, h, q) ELSE q.answer \in info[h][x].nonces
      BY <2>0, <2>2, <3>1 DEF SecondInv, OfferAnswered
    <3>3. CASE <<h, q>> \in received
      BY <1>1, <3>2, <3>3, GrowsAnswers
    <3>4. PICK p \in msgs : Answers(q, h, p)
      BY <3>1, WhoseAnswer DEF SecondInv
    <3>5. p.nonce = q.answer /\ Offer(h, x, p) /\ p.type = "register"
      BY <3>1, <3>4 DEF Answers
    <3>6. CASE <<h, q>> \notin received /\ <<h, q>> \in received'
      <4>1. h = g /\ q = m /\ x = m.from
        BY <1>1, <3>1, <3>6
      <4>2. m.answer \in info[g][m.from].nonces /\ Valid(m.answer)
        BY <3>2, <3>5, <3>6, <4>1, OfferValid DEF SecondInv
      <4>3. \E a \in sent : TRUE
        BY <2>0, <3>1, <4>1, <4>2 DEF Handles
      <4> QED
        BY <1>6, <3>6, <4>1, <4>3
    <3>7. CASE <<h, q>> \notin received'
      <4>1. q.answer \in info[h][x].nonces
        BY <1>1, <3>2, <3>7
      <4>2. CASE h # g \/ x \notin learnt
        BY <1>8, <3>5, <3>7, <4>1, <4>2
      <4>3. CASE h = g /\ x \in learnt
        <5>1. x = m.from /\ m.type = "approval"
          BY <1>2, <4>3
        <5>2. PICK r \in msgs : Answers(m, g, r)
          BY <1>2, <5>1
        <5>3. Offer(g, x, r) /\ r.type # "approval" /\ r.nonce = m.answer
          BY <2>0, <4>3, <5>1, <5>2 DEF Answers
        <5>4. Ask(g, x, r) /\ Ask(g, x, p)
          BY <3>5, <4>3, <5>3 DEF Ask
        <5>5. r = p
          BY <5>4 DEF SecondInv, AskedOnce
        <5>6. m.nonce # None
          BY <2>0, <3>5, <4>3, <5>1, <5>2, <5>5 DEF Answers
        <5>7. Offer(x, g, m) /\ Offer(x, g, q) /\ m.answer = q.answer
          BY <1>2, <2>2, <3>5, <4>3, <5>1, <5>3, <5>5, <5>6
        <5>8. m = q
          BY <3>1, <5>1, <5>7 DEF SecondInv, OfferedOnce
        <5> QED
          BY <1>1, <3>7, <4>3, <5>8
      <4> QED
        BY <4>2, <4>3
    <3> QED
      BY <3>3, <3>6, <3>7
  <2> QED
    BY <2>1, <2>2
<1>10. AskKept'
  <2> SUFFICES ASSUME NEW x \in Guards, NEW h \in Guards, NEW q \in msgs', Ask(h, x, q)',
                      <<x, q>> \notin received', ~Fresh(x, h)'
               PROVE  q.nonce \in info'[h][x].nonces
    BY DEF AskKept
  <2>1. Ask(h, x, q) /\ q \in msgs /\ ~Fresh(x, h) /\ <<x, q>> \notin received
    BY <1>1, <1>2, Grows DEF Ask, Offer
  <2>2. q.nonce \in info[h][x].nonces
    BY <2>1 DEF SecondInv, AskKept
  <2>3. CASE h # g \/ x \notin learnt
    BY <1>8, <2>1, <2>2, <2>3 DEF Ask
  <2>4. CASE h = g /\ x \in learnt
    <3>1. x = m.from /\ m.type = "approval"
      BY <1>2, <2>4
    <3>2. PICK r \in msgs : Answers(m, g, r)
      BY <1>2, <3>1
    <3>3. Offer(g, x, r) /\ r.type # "approval" /\ <<x, r>> \in received
      BY <2>1, <2>4, <3>1, <3>2 DEF Answers
    <3>4. r = q
      BY <2>1, <2>4, <3>3 DEF SecondInv, AskedOnce, Ask
    <3> QED
      BY <2>1, <3>3, <3>4
  <2> QED
    BY <2>3, <2>4
<1>11. AskedOnce'
  <2> SUFFICES ASSUME NEW x \in Guards, NEW h \in Guards, NEW p \in msgs', NEW q \in msgs',
                      Ask(x, h, p)', Ask(x, h, q)'
               PROVE  p = q /\ x \in updated'
    BY DEF AskedOnce
  <2>1. Ask(x, h, p) /\ Ask(x, h, q) /\ p \in msgs /\ q \in msgs
    BY <1>2 DEF Ask, Offer
  <2> QED
    BY <1>1, <2>1 DEF SecondInv, AskedOnce
<1>12. OfferedOnce'
  <2> SUFFICES ASSUME NEW x \in Guards, NEW h \in Guards, NEW p \in msgs', NEW q \in msgs',
                      Offer(x, h, p)', Offer(x, h, q)', p.type = "approval", q.type = "approval",
                      p.answer = q.answer
               PROVE  p = q
    BY DEF OfferedOnce
  <2>1. ASSUME NEW b \in msgs', NEW c \in msgs', Offer(x, h, b)', Offer(x, h, c)',
               b.type = "approval", c.type = "approval", b.answer = c.answer,
               ~Offer(x, h, b), Offer(x, h, c)
        PROVE  FALSE
    <3>1. /\ x = g /\ h = m.from /\ b \in sent
          /\ m.type = "register" /\ b.answer = m.nonce
      BY <1>2, <2>1
    <3>2. c \in msgs /\ c.at = now /\ c.to \in {None, peer[h]} /\ c.from = x /\ c.nonce # None
      BY <2>1 DEF Offer
    <3>3. PICK r \in msgs : Answers(c, h, r)
      BY <2>1, <3>2, WhoseAnswer DEF SecondInv
    <3>4. Offer(h, x, r) /\ r.type = "register" /\ <<x, r>> \in received
      BY <3>2, <3>3 DEF Answers
    <3>5. Ask(h, x, r) /\ Ask(h, x, m)
      BY <1>2, <1>3, <3>1, <3>4 DEF Ask
    <3>6. r = m
      BY <3>5 DEF SecondInv, AskedOnce
    <3> QED
      BY <1>1, <3>1, <3>4, <3>6
  <2>2. CASE Offer(x, h, p) /\ Offer(x, h, q)
    BY <2>2 DEF SecondInv, OfferedOnce, Offer
  <2>3. CASE ~Offer(x, h, p) /\ ~Offer(x, h, q)
    <3>1. p \in sent /\ q \in sent
      BY <1>2, <2>3
    <3> QED
      BY <3>1 DEF Handles
  <2> QED
    BY <2>1, <2>2, <2>3
<1> QED
  BY <1>4, <1>5, <1>7, <1>9, <1>10, <1>11, <1>12 DEF SecondInv

\* The first states: nobody has sent anything.
LEMMA SecondInit ==
  ASSUME PromptNetwork, Init
  PROVE  SecondInv
<1>1. \A g, h \in Guards : info[g][h] = Unknown /\ peer[g] = <<g, 0>>
  BY DEF Init
<1>2. KnownPeers
  BY <1>1 DEF KnownPeers, Known, Unknown
<1>3. msgs = {} /\ received = {}
  BY DEF Init
<1> QED
  BY <1>2, <1>3 DEF SecondInv, FormerReceived, NonceCarried, AnswerAsked, NonceKept, AnsweredOff,
     AskAnswered, OfferAnswered, AskKept, AskedOnce, OfferedOnce

\* When a second is over, those who were sent a nonce have answered it; who has asked
\* all guards and they know each other.
LEMMA TickFresh ==
  ASSUME DetectionInv, PromptNetwork, SecondInv, Tick
  PROVE  /\ \A g, h \in Guards, q \in msgs : Offer(g, h, q) => Fresh(g, h)
         /\ \A g, h \in Guards : Calls(g) /\ g # h => Fresh(g, h) /\ Fresh(h, g)
<1>1. \A m \in msgs, g \in Guards :
        g # m.from /\ m.to \in {None, peer[g]} => <<g, m>> \in received
  BY DEF Tick, PromptNetwork
<1>2. ASSUME NEW g \in Guards, NEW h \in Guards, NEW q \in msgs, Offer(g, h, q), ~Fresh(g, h)
      PROVE  FALSE
  <2>1. <<h, q>> \in received
    BY <1>1, <1>2 DEF Offer
  <2>2. Answered(g, h, q)
    BY <1>2, <2>1 DEF SecondInv, AskAnswered, OfferAnswered, Ask
  <2>3. PICK m \in msgs :
          m.type = "approval" /\ m.from = h /\ m.to = peer[g] /\ m.at = now /\ m.answer = q.nonce
    BY <2>2 DEF Answered
  <2>4. <<g, m>> \in received
    BY <1>1, <1>2, <2>3 DEF Offer
  <2>5. m.answer \notin info[g][h].nonces
    BY <2>3, <2>4 DEF SecondInv, AnsweredOff
  <2> QED
    BY <1>2, <2>3, <2>5 DEF SecondInv, NonceKept
<1>3. ASSUME NEW g \in Guards, NEW h \in Guards, Calls(g), g # h
      PROVE  Fresh(g, h) /\ Fresh(h, g)
  <2>1. PICK q \in msgs : q.from = g /\ q.at = now /\ q.type = "register"
    BY <1>3 DEF Calls
  <2>2. Offer(g, h, q) /\ Ask(g, h, q)
    BY <1>3, <2>1 DEF SecondInv, NonceCarried, Offer, Ask
  <2>3. <<h, q>> \in received
    BY <1>1, <2>2 DEF Offer
  <2>4. \E m \in msgs : Offer(h, g, m)
    BY <2>1, <2>2, <2>3 DEF SecondInv, AskAnswered
  <2> QED
    BY <1>2, <2>2, <2>4
<1> QED
  BY <1>2, <1>3

\* A new second begins without messages of its own.
LEMMA TickClears ==
  ASSUME DetectionInv, Tick
  PROVE  /\ now \in Nat /\ now' = now + 1 /\ msgs' \subseteq msgs
         /\ UNCHANGED <<peer, info>> /\ updated' = {} /\ received' \subseteq received
         /\ \A m \in msgs : m.at \in Nat /\ m.at <= now
         /\ \A g, h \in Guards, q \in msgs' : ~Offer(g, h, q)'
         /\ \A g \in Guards : ~Calls(g)'
<1>1. TypeOK /\ \A m \in msgs : m \in Message /\ m.at <= now
  BY DEF DetectionInv, TypeOK, SentBefore
<1>2. now \in Nat /\ now' = now + 1 /\ msgs' \subseteq msgs
  BY <1>1 DEF Tick, TypeOK
<1>3. \A m \in msgs : m.at \in Nat /\ m.at <= now /\ m.at # now'
  BY <1>1, <1>2 DEF Message
<1> QED
  BY <1>2, <1>3 DEF Tick, Offer, Calls

LEMMA TickKeeps ==
  ASSUME DetectionInv, PromptNetwork, SecondInv, Tick
  PROVE  SecondInv'
<1>1. /\ now \in Nat /\ now' = now + 1 /\ msgs' \subseteq msgs
      /\ UNCHANGED <<peer, info>> /\ received' \subseteq received
      /\ \A m \in msgs : m.at \in Nat /\ m.at <= now
      /\ \A g, h \in Guards, q \in msgs' : ~Offer(g, h, q)'
  BY TickClears
<1>2. /\ \A m \in msgs, g \in Guards :
           g # m.from /\ m.to \in {None, peer[g]} => <<g, m>> \in received
      /\ received' = {r \in received : r[2] \in msgs'}
  BY DEF Tick, PromptNetwork
<1>3. KnownPeers' /\ NonceCarried' /\ AnsweredOff'
  BY <1>1 DEF SecondInv, KnownPeers, Known, NonceCarried, AnsweredOff
<1>4. FormerReceived'
  BY <1>1, <1>2 DEF FormerReceived
<1>5. AnswerAsked'
  BY <1>1 DEF AnswerAsked
<1>6. NonceKept' /\ AskAnswered' /\ OfferAnswered' /\ AskKept' /\ AskedOnce' /\ OfferedOnce'
  BY <1>1 DEF NonceKept, AskAnswered, OfferAnswered, AskKept, AskedOnce, OfferedOnce, Ask
<1> QED
  BY <1>3, <1>4, <1>5, <1>6 DEF SecondInv

LEMMA SecondStep ==
  ASSUME DetectionInv, PromptNetwork, SecondInv, Next
  PROVE  SecondInv'
<1>1. CASE Tick
  BY <1>1, TickKeeps
<1>2. ASSUME NEW g \in Guards, Update(g) PROVE SecondInv'
  BY <1>2, UpdateAsks, AsksKeeps
<1>3. ASSUME NEW g \in Guards, NEW m \in msgs,
             \E new, sent, learnt : Handles(g, m, new, sent, learnt)
      PROVE  SecondInv'
  BY <1>3, HandlesKeeps
<1> QED
  BY <1>1, <1>2, <1>3, PromptStep DEF SecondInv

-----------------------------------------------------------------------------
\* Times and numbers of guards

LEMMA TimeTypes ==
  ASSUME DetectionInv, PromptNetwork
  PROVE  /\ now \in Nat /\ First \in Nat /\ Second \in Nat /\ Second = First + MessageValid + 1
         /\ MessageValid \in Nat /\ HeartbeatTimeout \in Nat /\ ActiveTimeout \in Nat
         /\ MessageValid <= HeartbeatTimeout /\ HeartbeatTimeout + 1 < ActiveTimeout
         /\ \A g, h \in Guards : Last(g, h) \in Nat /\ \A n \in info[g][h].nonces : n.at \in Nat
<1>1. TypeOK
  BY DEF DetectionInv
<1>2. \A g, h \in Guards : info[g][h] \in Info
  BY <1>1 DEF TypeOK
<1>3. \A g, h \in Guards : Last(g, h) \in Nat /\ \A n \in info[g][h].nonces : n.at \in Nat
  BY <1>2 DEF Last, Info, Nonce
<1> QED
  BY <1>1, <1>3, TimeAssumption DEF TypeOK, PromptNetwork, First, Second

\* Guards are counted by their identifiers.
LEMMA CountedGuards ==
  ASSUME NEW p, NEW B \in SUBSET Guards, NEW A,
         \A h \in B : <<h, p[h]>> \in A, \A a \in A : \E h \in B : a = <<h, p[h]>>
  PROVE  IsFiniteSet(A) /\ Cardinality(A) = Cardinality(B)
<1> DEFINE f == [h \in B |-> <<h, p[h]>>]
<1>1. IsFiniteSet(B)
  BY GuardsFinite, FS_Subset
<1>2. \A h \in B : f[h] = <<h, p[h]>>
  OBVIOUS
<1>3. f \in [B -> A] /\ (\A h, k \in B : f[h] = f[k] => h = k) /\ \A a \in A : \E h \in B : f[h] = a
  BY <1>2
<1> HIDE DEF f
<1>4. f \in Bijection(B, A)
  BY <1>3 DEF Bijection, Injection, IsInjective, Surjection
<1>5. ExistsBijection(B, A)
  BY <1>4 DEF ExistsBijection
<1> QED
  BY <1>1, <1>5, FS_Bijection

LEMMA GuardsNumber ==
  ASSUME PromptNetwork
  PROVE  /\ IsFiniteSet(Guards) /\ Cardinality(Guards) = N /\ N \in Nat /\ NeedGuard \in Nat
         /\ 2 <= NeedGuard /\ NeedGuard <= N /\ 0 \in Guards
         /\ \A g \in Guards : \E h \in Guards : h # g
<1>1. N \in Nat /\ NeedGuard \in Nat /\ 2 <= NeedGuard /\ NeedGuard <= N
  BY SizeAssumption DEF PromptNetwork
<1>2. IsFiniteSet(Guards) /\ Cardinality(Guards) = N
  BY <1>1, FS_Interval DEF Guards
<1>3. 0 \in Guards /\ 1 \in Guards
  BY <1>1 DEF Guards
<1> QED
  BY <1>1, <1>2, <1>3

\* A known guard is active; a guard that knows all others has enough, and one that
\* needs all others and has enough knows them.
LEMMA KnownActive ==
  ASSUME DetectionInv, PromptNetwork, KnownPeers, KnownInTime, NEW g \in Guards
  PROVE  /\ Cardinality(ActiveGuards(g)) \in Nat
         /\ \A h \in Guards : Active(g, h) <=> Known(g, h)
         /\ (\A h \in Guards : h # g => Known(g, h)) => ~Few(g)
         /\ NeedGuard = N /\ ~Few(g) => \A h \in Guards : h # g => Known(g, h)
<1> DEFINE S == {h \in Guards : Known(g, h)}
<1>1. \A h \in Guards : Active(g, h) <=> Known(g, h)
  BY TimeTypes DEF Active, Known, KnownInTime, Last
<1>2. Cardinality(ActiveGuards(g)) = Cardinality({g} \cup S)
  <2>1. \A h \in S : Active(g, h) /\ info[g][h].peer = peer[h]
    BY <1>1 DEF KnownPeers
  <2>2. \A h \in {g} \cup S : <<h, peer[h]>> \in ActiveGuards(g)
    BY <2>1 DEF ActiveGuards
  <2>3. \A a \in ActiveGuards(g) : \E h \in {g} \cup S : a = <<h, peer[h]>>
    BY <1>1, <2>1 DEF ActiveGuards
  <2>4. {g} \cup S \in SUBSET Guards
    OBVIOUS
  <2> HIDE DEF S
  <2> QED
    BY <2>2, <2>3, <2>4, CountedGuards
<1>3. Few(g) <=> Cardinality({g} \cup S) < NeedGuard
  BY <1>2 DEF Few
<1>6. Cardinality({g} \cup S) \in Nat
  <2>1. {g} \cup S \in SUBSET Guards
    OBVIOUS
  <2> HIDE DEF S
  <2> QED
    BY <2>1, GuardsNumber, FS_Subset, FS_CardinalityType
<1>4. (\A h \in Guards : h # g => Known(g, h)) => ~Few(g)
  <2> SUFFICES ASSUME \A h \in Guards : h # g => Known(g, h)
               PROVE  ~Few(g)
    OBVIOUS
  <2>1. {g} \cup S = Guards
    OBVIOUS
  <2> QED
    BY <1>3, <2>1, GuardsNumber
<1>5. ASSUME NeedGuard = N, ~Few(g), NEW h \in Guards, h # g, ~Known(g, h)
      PROVE  FALSE
  <2>1. {g} \cup S \subseteq Guards \ {h}
    BY <1>5
  <2>2. IsFiniteSet(Guards \ {h}) /\ Cardinality(Guards \ {h}) = N - 1
    BY GuardsNumber, FS_RemoveElement
  <2>3. Cardinality({g} \cup S) <= N - 1 /\ Cardinality({g} \cup S) \in Nat
    BY <2>1, <2>2, FS_Subset, FS_CardinalityType
  <2> QED
    BY <1>3, <1>5, <2>3, GuardsNumber
<1> QED
  BY <1>1, <1>2, <1>4, <1>5, <1>6

\* Who has asked in this second, or sent a heartbeat, has updated.
LEMMA AskedUpdated ==
  ASSUME DetectionInv, PromptNetwork, SecondInv, NEW g \in Guards
  PROVE  /\ Calls(g) => g \in updated
         /\ \A h \in Guards : Beats(g, h) => g \in updated
<1>1. ASSUME NEW q \in msgs, q.from = g, q.at = now, q.type = "register" PROVE g \in updated
  <2>1. PICK h \in Guards : h # g
    BY GuardsNumber
  <2>2. Ask(g, h, q)
    BY <1>1, <2>1 DEF SecondInv, NonceCarried, Offer, Ask
  <2> QED
    BY <2>2 DEF SecondInv, AskedOnce
<1>2. \A h \in Guards : Beats(g, h) => g \in updated
  BY DEF SecondInv, AskedOnce, Beats, Ask
<1> QED
  BY <1>1, <1>2 DEF Calls

-----------------------------------------------------------------------------
\* The seconds, in each step

\* What a step within a second does in its time: a guard learns of those that it or
\* they asked in this second, asks when it may, and must when it updates.
Orderly(g, new, sent, learnt) ==
  /\ Does(g, new, sent, learnt)
  /\ \A h \in Guards : h \in learnt =>
       /\ h # g /\ (Beats(g, h) \/ Calls(g) \/ Calls(h))
       /\ now = First => Known(h, g) \/ \E q \in msgs : Offer(h, g, q)
  /\ \A h \in Guards : Known(g, h) /\ new[h] # {} =>
       now = First \/ (\E q \in msgs' : Offer(g, h, q)') \/ (h # 0 /\ Beats(g, 0)')
  /\ \A x, h \in Guards : Beats(x, h)' => Beats(x, h) \/ (x = g /\ Due(g, h))
  /\ \A x \in Guards : Calls(x)' => Calls(x) \/ (x = g /\ (now = First \/ (now = Second /\ g # 0)))
  /\ Few(g) /\ ~Calls(g)' /\ new[g] # {} => now = First
  /\ g = 0 /\ 0 \notin updated' => new[0] = {}
  /\ updated \subseteq updated' /\ updated' \subseteq updated \cup {g}
  /\ g \in updated' /\ g \notin updated =>
       /\ \A h \in Guards : Due(g, h) => \E q \in msgs' : Offer(g, h, q)'
       /\ Few(g) /\ ~Calls(g)' =>
            /\ now # Second /\ ~(g = 0 /\ now = First)
            /\ \A h \in Guards : Known(g, h) \/ \E n \in info[g][h].nonces : Valid(n)

\* A guard that finds enough others still does.
LEMMA FewStays ==
  ASSUME DetectionInv, PromptNetwork, KnownPeers, KnownPeers', NEW x \in Guards,
         NEW g \in Guards, NEW new, NEW sent, NEW learnt, Does(g, new, sent, learnt), Few(x)'
  PROVE  Few(x)
<1>1. now \in Nat /\ ActiveTimeout \in Nat /\ 0 < ActiveTimeout
  BY TimeTypes
<1>2. now' = now /\ peer' = peer
  BY DEF Does
<1>3. ASSUME NEW h \in Guards, Active(x, h)
      PROVE  Active(x, h)' /\ info'[x][h].peer = info[x][h].peer
  <2>1. info[x][h].peer = peer[h] /\ info[x][h].peer # None
    BY <1>3 DEF Active, Known, KnownPeers
  <2>2. CASE x = g /\ h \in learnt
    <3>1. info'[x][h].peer = peer[h] /\ info'[x][h].lastUpdate = now
      BY <2>2 DEF Does, Learns
    <3> QED
      BY <1>1, <1>2, <2>1, <3>1 DEF Active
  <2>3. CASE ~(x = g /\ h \in learnt)
    <3>1. info'[x][h].peer = info[x][h].peer /\ info'[x][h].lastUpdate = info[x][h].lastUpdate
      BY <2>3 DEF Does, Keeps
    <3> QED
      BY <1>2, <1>3, <3>1 DEF Active
  <2> QED
    BY <2>2, <2>3
<1>4. ActiveGuards(x) \subseteq ActiveGuards(x)'
  BY <1>2, <1>3 DEF ActiveGuards
<1>5. IsFiniteSet(ActiveGuards(x)')
  <2> DEFINE B == {x} \cup {h \in Guards : Active(x, h)'}
  <2>1. \A h \in Guards : Active(x, h)' => info'[x][h].peer = peer'[h]
    BY DEF Active, Known, KnownPeers
  <2>2. \A h \in B : <<h, peer'[h]>> \in ActiveGuards(x)'
    BY <2>1 DEF ActiveGuards
  <2>3. \A a \in ActiveGuards(x)' : \E h \in B : a = <<h, peer'[h]>>
    BY <2>1 DEF ActiveGuards
  <2>4. B \in SUBSET Guards
    OBVIOUS
  <2> HIDE DEF B
  <2> QED
    BY <2>2, <2>3, <2>4, CountedGuards
<1>6. /\ Cardinality(ActiveGuards(x)) <= Cardinality(ActiveGuards(x)')
      /\ Cardinality(ActiveGuards(x)) \in Nat /\ Cardinality(ActiveGuards(x)') \in Nat
  BY <1>4, <1>5, FS_Subset, FS_CardinalityType
<1>7. Cardinality(ActiveGuards(x)') < NeedGuard /\ NeedGuard \in Nat
  BY GuardsNumber DEF Few
<1> QED
  BY <1>6, <1>7 DEF Few

\* Who is asked in this second, and when that may be.
LEMMA HeardInTime ==
  ASSUME DetectionInv, PromptNetwork, SecondInv, TimeInv, NEW g \in Guards, NEW h \in Guards,
         Beats(g, h) \/ Calls(g) \/ Calls(h)
  PROVE  /\ now = First \/ Second <= now
         /\ \/ now = First \/ (now = Second /\ (Calls(g) \/ h # 0))
            \/ Known(g, h) /\ (Fresh(g, h) \/ Due(g, h))
<1>1. /\ now \in Nat /\ First \in Nat /\ Second \in Nat /\ Second = First + MessageValid + 1
      /\ MessageValid \in Nat /\ HeartbeatTimeout \in Nat /\ MessageValid <= HeartbeatTimeout
      /\ Last(g, h) \in Nat
  BY TimeTypes
<1>2. Known(g, h) => Last(g, h) <= now /\ (Last(g, h) = First \/ Last(g, h) >= Second)
  BY DEF TimeInv, KnownInTime
<1>3. CASE Beats(g, h)
  <2>1. (Fresh(g, h) \/ Due(g, h)) /\ First < now
    BY <1>3 DEF TimeInv, BeatsDue
  <2> QED
    BY <1>1, <1>2, <2>1 DEF Fresh, Due
<1>4. CASE Calls(g) \/ Calls(h)
  <2>1. now = First \/ (now = Second /\ (h # 0 \/ Calls(g)))
    BY <1>4 DEF TimeInv, CallsInTime
  <2> QED
    BY <1>1, <2>1
<1> QED
  BY <1>3, <1>4

LEMMA OrderlyTime ==
  ASSUME DetectionInv, PromptNetwork, SecondInv, SecondInv', TimeInv,
         NEW g \in Guards, NEW new, NEW sent, NEW learnt, Orderly(g, new, sent, learnt)
  PROVE  TimeInv'
<1>1. Does(g, new, sent, learnt) /\ now' = now /\ First <= now
  BY DEF Orderly, Does, TimeInv
<1>2. /\ now \in Nat /\ First \in Nat /\ Second \in Nat /\ Second = First + MessageValid + 1
      /\ MessageValid \in Nat /\ HeartbeatTimeout \in Nat
      /\ MessageValid <= HeartbeatTimeout /\ HeartbeatTimeout + 1 < ActiveTimeout
      /\ \A x, h \in Guards : Last(x, h) \in Nat /\ \A n \in info[x][h].nonces : n.at \in Nat
  BY TimeTypes
<1>3. /\ \A x, h \in Guards : /\ Known(x, h) => Known(x, h)'
                              /\ x # g \/ h \notin learnt =>
                                   (Known(x, h)' <=> Known(x, h)) /\ Last(x, h)' = Last(x, h)
      /\ \A h \in Guards : h \in learnt => Known(g, h)' /\ Last(g, h)' = now
  BY <1>1, Grows DEF Fresh
<1>4. \A x \in Guards : Few(x)' => Few(x)
  BY <1>1, FewStays DEF SecondInv
<1>5. /\ \A x \in Guards : Calls(x) => Calls(x)'
      /\ \A x, h \in Guards : Beats(x, h) => Beats(x, h)'
      /\ \A x, h \in Guards : (\E q \in msgs : Offer(x, h, q)) => \E q \in msgs' : Offer(x, h, q)'
  <2>1. \A x, h \in Guards, q \in msgs' : Offer(x, h, q) => Offer(x, h, q)'
    BY <1>1, Grows
  <2>2. msgs \subseteq msgs'
    BY <1>1 DEF Does
  <2> QED
    BY <1>1, <2>1, <2>2, Grows
<1>6. \A h \in Guards : h \in learnt =>
        /\ h # g /\ (Beats(g, h) \/ Calls(g) \/ Calls(h)) /\ (now = First \/ Second <= now)
        /\ \/ now = First \/ (now = Second /\ (Calls(g) \/ h # 0))
           \/ Known(g, h) /\ (Fresh(g, h) \/ Due(g, h))
  BY HeardInTime DEF Orderly

\* The nonces that count.
<1>7. \A x, h \in Guards : \A n \in info'[x][h].nonces :
        \/ n \in info[x][h].nonces /\ ~(x = g /\ h \in learnt)
        \/ x = g /\ n \in new[h] /\ n.at = now /\ h \notin learnt
  BY <1>1 DEF Does, Keeps, Learns
<1>8. \A x, h \in Guards : \A n \in info[x][h].nonces :
        Valid(n) => n \in info'[x][h].nonces \/ Known(x, h)'
  <2> SUFFICES ASSUME NEW x \in Guards, NEW h \in Guards, NEW n \in info[x][h].nonces, Valid(n),
                      ~(x = g /\ h \in learnt)
               PROVE  n \in info'[x][h].nonces
    BY <1>3
  <2>1. CASE x = g
    BY <1>1, <2>1 DEF Does, Keeps
  <2>2. CASE x # g
    BY <1>1, <2>2 DEF Does
  <2> QED
    BY <2>1, <2>2
<1>9. \A x, h \in Guards : Known(x, h) =>
        /\ Last(x, h) <= now /\ now - Last(x, h) <= HeartbeatTimeout + 1
        /\ Last(x, h) = First \/ Last(x, h) >= Second
  BY DEF TimeInv, KnownInTime
<1>10. KnownInTime'
  <2> SUFFICES ASSUME NEW x \in Guards, NEW h \in Guards, Known(x, h)'
               PROVE  /\ Last(x, h)' <= now /\ now - Last(x, h)' <= HeartbeatTimeout + 1
                      /\ Last(x, h)' = First \/ Last(x, h)' >= Second
    BY <1>1 DEF KnownInTime, First, Second
  <2>1. CASE x = g /\ h \in learnt
    BY <1>2, <1>3, <1>6, <2>1
  <2>2. CASE ~(x = g /\ h \in learnt)
    BY <1>3, <1>9, <2>2
  <2> QED
    BY <2>1, <2>2
<1>11. NonceInTime'
  BY <1>1, <1>2, <1>7 DEF TimeInv, NonceInTime, First
<1>12. FormerNonce'
  <2> SUFFICES ASSUME NEW x \in Guards, NEW h \in Guards, NEW n \in info'[x][h].nonces,
                      Known(x, h)', n.at < now
               PROVE  \/ n.at <= Last(x, h)' \/ ~Valid(n)
                      \/ h # 0 /\ Known(x, 0)' /\ n.at <= Last(x, 0)' /\ Last(x, 0)' < now
    BY <1>1 DEF FormerNonce, Valid
  <2>1. n \in info[x][h].nonces /\ ~(x = g /\ h \in learnt) /\ n.at \in Nat
    BY <1>2, <1>7
  <2>2. Known(x, h) /\ Last(x, h)' = Last(x, h)
    BY <1>3, <2>1
  <2>3. \/ n.at <= Last(x, h) \/ ~Valid(n)
        \/ h # 0 /\ Known(x, 0) /\ n.at <= Last(x, 0) /\ Last(x, 0) < now
    BY <2>1, <2>2 DEF TimeInv, FormerNonce
  <2>4. CASE h # 0 /\ Known(x, 0) /\ n.at <= Last(x, 0) /\ Last(x, 0) < now /\ x = g /\ 0 \in learnt
    <3>1. 0 \in Guards /\ Last(x, 0) \in Nat /\ (Last(x, 0) = First \/ Last(x, 0) >= Second)
      BY <1>2, <1>9, <2>4, GuardsNumber
    <3>2. Due(x, 0) \/ now = Second
      BY <1>2, <1>6, <2>4, <3>1 DEF Fresh
    <3>3. n.at < now - MessageValid
      BY <1>2, <2>1, <2>4, <3>1, <3>2 DEF Due
    <3> QED
      BY <1>2, <2>1, <3>3 DEF Valid
  <2> QED
    BY <1>3, <2>2, <2>3, <2>4, GuardsNumber
<1>13. PresentNonce'
  <2> SUFFICES ASSUME NEW x \in Guards, NEW h \in Guards, NEW n \in info'[x][h].nonces,
                      Known(x, h)', n.at = now
               PROVE  now = First \/ (\E q \in msgs' : Offer(x, h, q)') \/ (h # 0 /\ Beats(x, 0)')
    BY <1>1 DEF PresentNonce, First
  <2>1. Known(x, h)
    BY <1>3, <1>7
  <2>2. CASE n \in info[x][h].nonces
    BY <1>5, <2>1, <2>2, GuardsNumber DEF TimeInv, PresentNonce
  <2>3. CASE x = g /\ n \in new[h]
    BY <2>1, <2>3 DEF Orderly
  <2> QED
    BY <1>7, <2>2, <2>3
<1>14. AllInStep'
  <2> SUFFICES ASSUME NEW x \in Guards, NEW h \in Guards, h # 0, Known(x, 0)', Known(x, h)',
                      ~Calls(x)'
               PROVE  InStep(Reckoned(x, 0)', Reckoned(x, h)')
    BY DEF AllInStep, InStep
  <2>1. 0 \in Guards /\ ~Calls(x)
    BY <1>5, GuardsNumber
  <2>2. ASSUME NEW k \in Guards, Known(x, k)'
        PROVE  Reckoned(x, k)' = IF x = g /\ k \in learnt THEN now ELSE Reckoned(x, k)
    <3>1. CASE x = g /\ k \in learnt
      BY <1>1, <1>3, <3>1 DEF Reckoned
    <3>2. CASE ~(x = g /\ k \in learnt)
      BY <1>1, <1>3, <3>2 DEF Reckoned, Due
    <3> QED
      BY <3>1, <3>2
  <2>3. ASSUME NEW k \in Guards, x = g, k \in learnt, Fresh(x, k) \/ Due(x, k)
        PROVE  Known(x, k) /\ Reckoned(x, k) = now
    BY <2>3 DEF Reckoned, Fresh, Due
  <2>4. CASE now = First
    <3>1. \A k \in Guards : Known(x, k)' => Reckoned(x, k)' = First
      BY <1>2, <1>3, <1>9, <2>2, <2>4 DEF Reckoned, Due
    <3> QED
      BY <1>2, <2>1, <3>1 DEF InStep
  <2>5. CASE now # First /\ ~(now = Second /\ x = g /\ h \in learnt)
    <3>1. ASSUME NEW k \in Guards, x = g, k \in learnt, k \in {0, h}
          PROVE  Known(x, k) /\ Reckoned(x, k) = now
      <4>1. Fresh(x, k) \/ Due(x, k)
        BY <1>6, <2>1, <2>5, <3>1
      <4> QED
        BY <2>1, <2>3, <3>1, <4>1
    <3>2. \A k \in {0, h} : Known(x, k) /\ Reckoned(x, k)' = Reckoned(x, k)
      BY <1>3, <2>1, <2>2, <3>1
    <3> QED
      BY <2>1, <3>2 DEF TimeInv, AllInStep
  <2>6. CASE now = Second /\ x = g /\ h \in learnt
    <3>1. Reckoned(x, h)' = Second
      BY <2>2, <2>6
    <3>2. Reckoned(x, 0)' \in {First, Second}
      <4>1. CASE 0 \in learnt
        BY <2>1, <2>2, <2>6, <4>1
      <4>2. CASE 0 \notin learnt
        <5>1. Known(x, 0) /\ Reckoned(x, 0)' = Reckoned(x, 0)
          BY <1>3, <2>1, <2>2, <4>2
        <5> QED
          BY <1>2, <1>9, <2>1, <2>6, <5>1 DEF Reckoned
      <4> QED
        BY <4>1, <4>2
    <3> QED
      BY <1>2, <3>1, <3>2 DEF InStep
  <2> QED
    BY <2>4, <2>5, <2>6
<1>15. DueAsked'
  <2> SUFFICES ASSUME NEW x \in Guards, NEW h \in Guards, Due(x, h)', x \in updated'
               PROVE  \E q \in msgs' : Offer(x, h, q)'
    BY DEF DueAsked
  <2>1. Due(x, h)
    BY <1>1, <1>2, <1>3 DEF Due
  <2>2. CASE x \in updated
    BY <1>5, <2>1, <2>2 DEF TimeInv, DueAsked
  <2>3. CASE x \notin updated
    <3>1. x = g
      BY <2>3 DEF Orderly
    <3> QED
      BY <2>1, <2>3, <3>1 DEF Orderly
  <2> QED
    BY <2>2, <2>3
<1>16. BeatsDue'
  <2> SUFFICES ASSUME NEW x \in Guards, NEW h \in Guards, Beats(x, h)'
               PROVE  (Fresh(x, h)' \/ Due(x, h)') /\ First < now
    BY <1>1 DEF BeatsDue, First
  <2>1. (Fresh(x, h) \/ Due(x, h)) /\ First < now
    <3>1. Beats(x, h) \/ Due(x, h)
      BY DEF Orderly
    <3>2. Beats(x, h) => (Fresh(x, h) \/ Due(x, h)) /\ First < now
      BY DEF TimeInv, BeatsDue
    <3>3. Due(x, h) => First < now
      BY <1>2, <1>9 DEF Due
    <3> QED
      BY <3>1, <3>2, <3>3
  <2>2. CASE x = g /\ h \in learnt
    BY <1>1, <1>3, <2>1, <2>2 DEF Fresh
  <2>3. CASE ~(x = g /\ h \in learnt)
    BY <1>1, <1>3, <2>1, <2>3 DEF Fresh, Due
  <2> QED
    BY <2>1, <2>2, <2>3
<1>17. CallsInTime'
  <2> SUFFICES ASSUME NEW x \in Guards, Calls(x)'
               PROVE  now = First \/ (now = Second /\ x # 0)
    BY <1>1 DEF CallsInTime, First, Second
  <2> QED
    BY DEF TimeInv, CallsInTime, Orderly
<1>18. FewInTime'
  <2> SUFFICES ASSUME NEW x \in Guards, Few(x)'
               PROVE  now <= Second /\ (now = Second /\ x \in updated' => Calls(x)')
    BY <1>1 DEF FewInTime, Second
  <2>1. Few(x) /\ now <= Second /\ (now = Second /\ x \in updated => Calls(x))
    BY <1>4 DEF TimeInv, FewInTime
  <2> QED
    BY <1>5, <2>1 DEF Orderly
<1>19. OwnBlocked'
  <2> SUFFICES ASSUME NEW x \in Guards, Few(x)', ~Calls(x)', NEW n \in info'[x][x].nonces
               PROVE  n.at <= First
    BY DEF OwnBlocked, First
  <2>1. Few(x) /\ ~Calls(x)
    BY <1>4, <1>5
  <2>2. CASE n \in info[x][x].nonces
    BY <2>1, <2>2 DEF TimeInv, OwnBlocked
  <2>3. CASE x = g /\ n \in new[x] /\ n.at = now
    BY <1>2, <2>1, <2>3 DEF Orderly
  <2> QED
    BY <1>7, <2>2, <2>3
<1>20. OthersBlocked'
  <2> SUFFICES ASSUME NEW x \in Guards, Few(x)', ~Calls(x)', now < Second,
                      now = First => x \in updated', NEW h \in Guards, ~Known(x, h)'
               PROVE  \E n \in info'[x][h].nonces : n.at = First
    BY <1>1 DEF OthersBlocked, First, Second
  <2>1. Few(x) /\ ~Calls(x) /\ ~Known(x, h)
    BY <1>3, <1>4, <1>5
  <2>2. PICK n \in info[x][h].nonces : n.at = First /\ Valid(n)
    <3>1. CASE now = First => x \in updated
      <4>1. PICK n \in info[x][h].nonces : n.at = First
        BY <2>1, <3>1 DEF TimeInv, OthersBlocked
      <4> QED
        BY <1>2, <4>1 DEF Valid
    <3>2. CASE now = First /\ x \notin updated
      <4>1. x = g /\ \E n \in info[g][h].nonces : Valid(n)
        BY <2>1, <3>2 DEF Orderly
      <4>2. \A n \in info[x][h].nonces : n.at = First
        BY <1>2, <3>2 DEF TimeInv, NonceInTime
      <4> QED
        BY <4>1, <4>2
    <3> QED
      BY <3>1, <3>2
  <2> QED
    BY <1>8, <2>2
<1>21. ZeroAsks'
  <2>1. 0 \in Guards
    BY GuardsNumber
  <2>2. ASSUME now = First, 0 \notin updated' PROVE info'[0][0].nonces = {}
    <3>1. info[0][0].nonces = {}
      BY <2>2 DEF TimeInv, ZeroAsks, Orderly
    <3>2. g = 0 => new[0] = {}
      BY <2>2 DEF Orderly
    <3> QED
      BY <1>7, <2>1, <3>1, <3>2
  <2>3. ASSUME First < now \/ 0 \in updated' PROVE ~Few(0)' \/ (now = First /\ Calls(0)')
    <3>1. CASE First < now \/ 0 \in updated
      BY <1>4, <1>5, <2>1, <3>1 DEF TimeInv, ZeroAsks
    <3>2. CASE now = First /\ 0 \notin updated /\ 0 \in updated'
      BY <1>4, <2>1, <3>2 DEF Orderly
    <3> QED
      BY <1>1, <1>2, <2>3, <3>1, <3>2
  <2> QED
    BY <1>1, <2>2, <2>3 DEF ZeroAsks, First
<1>22. BothKnown'
  <2> SUFFICES ASSUME NEW x \in Guards, NEW h \in Guards, now = First, Known(x, h)'
               PROVE  Known(h, x)' \/ \E q \in msgs' : Offer(h, x, q)'
    BY <1>1 DEF BothKnown, First
  <2>1. Known(h, x) \/ \E q \in msgs : Offer(h, x, q)
    BY <1>3 DEF TimeInv, BothKnown, Orderly
  <2> QED
    BY <1>3, <1>5, <2>1
<1>23. ZeroKnown'
  BY <1>1, <1>3, GuardsNumber DEF TimeInv, ZeroKnown, First
<1> QED
  BY <1>1, <1>10, <1>11, <1>12, <1>13, <1>14, <1>15, <1>16, <1>17, <1>18, <1>19, <1>20, <1>21,
     <1>22, <1>23 DEF TimeInv, First

\* When a guard that finds too few others asks them, and what keeps it from asking.
LEMMA MayCall ==
  ASSUME DetectionInv, PromptNetwork, SecondInv, TimeInv, NEW g \in Guards,
         Few(g), g \notin updated
  PROVE  IF MustInit(g, Cleared(g))
         THEN now = First \/ (now = Second /\ g # 0)
         ELSE /\ now # Second /\ ~(g = 0 /\ now = First)
              /\ \A h \in Guards : Known(g, h) \/ \E n \in info[g][h].nonces : Valid(n)
              /\ \A h \in Guards : ~Due(g, h)
<1>1. /\ now \in Nat /\ First \in Nat /\ Second \in Nat /\ Second = First + MessageValid + 1
      /\ MessageValid \in Nat /\ HeartbeatTimeout \in Nat /\ ActiveTimeout \in Nat
      /\ MessageValid <= HeartbeatTimeout /\ HeartbeatTimeout + 1 < ActiveTimeout
      /\ \A x, h \in Guards : Last(x, h) \in Nat /\ \A n \in info[x][h].nonces : n.at \in Nat
  BY TimeTypes
<1>2. /\ \A h \in Guards : Known(g, h) =>
           /\ Last(g, h) <= now /\ now - Last(g, h) <= HeartbeatTimeout + 1
           /\ Last(g, h) = First \/ Last(g, h) >= Second
      /\ \A n \in info[g][g].nonces : n.at <= First
      /\ now <= Second /\ First <= now /\ ~Known(g, g) /\ ~Calls(g)
  BY AskedUpdated DEF TimeInv, KnownInTime, FewInTime, OwnBlocked, SecondInv, KnownPeers
<1>3. MustInit(g, Cleared(g)) <=>
        \E h \in Guards :
          /\ ~Known(g, h) \/ Last(g, h) < now - ActiveTimeout
          /\ {n \in info[g][h].nonces : Valid(n)} = {}
  <2>1. \A h \in Guards :
          /\ Cleared(g)[h].peer = info[g][h].peer
          /\ Cleared(g)[h].lastUpdate = info[g][h].lastUpdate
          /\ Cleared(g)[h].nonces = {n \in info[g][h].nonces : Valid(n)}
    BY ClearedFacts DEF DetectionInv
  <2> QED
    BY <2>1 DEF MustInit, Known, Last
<1>4. MustInit(g, Cleared(g)) <=>
        \E h \in Guards : ~Known(g, h) /\ \A n \in info[g][h].nonces : ~Valid(n)
  <2>1. \A h \in Guards : Known(g, h) => ~(Last(g, h) < now - ActiveTimeout)
    BY <1>1, <1>2
  <2> QED
    BY <1>3, <2>1
<1>5. now = Second => MustInit(g, Cleared(g))
  <2>1. now = Second => \A n \in info[g][g].nonces : ~Valid(n)
    BY <1>1, <1>2 DEF Valid
  <2> QED
    BY <1>2, <1>4, <2>1
<1>6. g = 0 /\ now = First => MustInit(g, Cleared(g))
  BY <1>2, <1>4 DEF TimeInv, ZeroAsks
<1>7. \A h \in Guards : Due(g, h) => now = Second
  BY <1>1, <1>2 DEF Due
<1>8. MustInit(g, Cleared(g)) => now = First \/ (now = Second /\ g # 0)
  <2>1. now = Second => g # 0
    BY <1>1 DEF TimeInv, ZeroAsks
  <2>2. ASSUME First < now, now < Second PROVE ~MustInit(g, Cleared(g))
    <3>1. \A h \in Guards : Known(g, h) \/ \E n \in info[g][h].nonces : n.at = First
      BY <1>1, <1>2, <2>2 DEF TimeInv, OthersBlocked
    <3>2. \A h \in Guards : \A n \in info[g][h].nonces : n.at = First => Valid(n)
      BY <1>1, <2>2 DEF Valid
    <3> QED
      BY <1>4, <3>1, <3>2
  <2> QED
    BY <1>1, <1>2, <2>1, <2>2
<1> QED
  BY <1>4, <1>5, <1>6, <1>7, <1>8

LEMMA CallsOrderly ==
  ASSUME DetectionInv, PromptNetwork, SecondInv, TimeInv, NEW g \in Guards,
         Update(g), Few(g), MustInit(g, Cleared(g))
  PROVE  \E new, sent, learnt : Orderly(g, new, sent, learnt)
<1>1. PICK n \in Nonce : \E m :
        /\ n.at = now
        /\ Does(g, [h \in Guards |-> {n}], {m}, {})
        /\ m.type = "register" /\ m.to = None /\ m.nonce = n
        /\ received' = received /\ updated' = updated \cup {g} /\ g \notin updated
  BY CallsDoes
<1>2. PICK m :
        /\ Does(g, [h \in Guards |-> {n}], {m}, {})
        /\ m.type = "register" /\ m.to = None /\ m.nonce = n
        /\ received' = received /\ updated' = updated \cup {g} /\ g \notin updated
  BY <1>1
<1> DEFINE new == [h \in Guards |-> {n}]
<1>3. now' = now /\ peer' = peer /\ msgs' = msgs \cup {m} /\ m.from = g /\ m.at = now /\ n # None
  BY <1>2, NoneAssumption DEF Does
<1>4. \A h \in Guards : h # g => Offer(g, h, m)'
  BY <1>2, <1>3 DEF Offer
<1>5. \A h \in Guards : Known(g, h) => h # g
  BY DEF SecondInv, KnownPeers
<1>6. Calls(g)'
  BY <1>2, <1>3 DEF Calls
<1>7. \A x \in Guards : Calls(x)' => Calls(x) \/ x = g
  BY <1>3 DEF Calls
<1>8. now = First \/ (now = Second /\ g # 0)
  BY <1>2, MayCall
<1>9. \A x, h \in Guards : Beats(x, h)' => Beats(x, h)
  BY <1>2, <1>3 DEF Beats, Offer
<1>10. \A h \in Guards : Due(g, h) => h # g
  BY <1>5 DEF Due
<1>11. Does(g, new, {m}, {})
  BY <1>2
<1> HIDE DEF new
<1>12. Orderly(g, new, {m}, {})
  BY <1>2, <1>3, <1>4, <1>5, <1>6, <1>7, <1>8, <1>9, <1>10, <1>11 DEF Orderly
<1> QED
  BY <1>12

LEMMA BlockedOrderly ==
  ASSUME DetectionInv, PromptNetwork, SecondInv, TimeInv, NEW g \in Guards,
         Update(g), Few(g), ~MustInit(g, Cleared(g))
  PROVE  \E new, sent, learnt : Orderly(g, new, sent, learnt)
<1>1. Does(g, NoNonces, {}, {}) /\ updated' = updated \cup {g} /\ g \notin updated
  BY BlockedDoes
<1>2. now' = now /\ peer' = peer /\ msgs' = msgs
  BY <1>1 DEF Does
<1>3. \A h \in Guards : NoNonces[h] = {}
  BY DEF NoNonces
<1>4. /\ now # Second /\ ~(g = 0 /\ now = First)
      /\ \A h \in Guards : Known(g, h) \/ \E n \in info[g][h].nonces : Valid(n)
      /\ \A h \in Guards : ~Due(g, h)
  BY <1>1, MayCall
<1>5. \A x, h \in Guards : (Beats(x, h)' => Beats(x, h)) /\ (Calls(x)' => Calls(x))
  BY <1>2 DEF Beats, Offer, Calls
<1>6. Orderly(g, NoNonces, {}, {})
  BY <1>1, <1>3, <1>4, <1>5, GuardsNumber DEF Orderly
<1> QED
  BY <1>6

\* A guard that is due is sent a heartbeat: the nonces that count for it are of this
\* second, and were sent to it.
LEMMA DueBeats ==
  ASSUME DetectionInv, PromptNetwork, SecondInv, TimeInv, NEW g \in Guards, NEW h \in Guards,
         Due(g, h), g \notin updated
  PROVE  HeartbeatDue(g, h) \/ \E q \in msgs : Offer(g, h, q)
<1>1. /\ now \in Nat /\ First \in Nat /\ Second \in Nat /\ Second = First + MessageValid + 1
      /\ MessageValid \in Nat /\ HeartbeatTimeout \in Nat /\ MessageValid <= HeartbeatTimeout
      /\ \A x \in Guards : Last(g, x) \in Nat /\ \A n \in info[g][x].nonces : n.at \in Nat
  BY TimeTypes
<1>2. Known(g, h) /\ now - Last(g, h) > HeartbeatTimeout /\ Last(g, h) >= First
  BY <1>1 DEF Due, TimeInv, KnownInTime
<1>3. ~Calls(g) /\ ~Beats(g, 0)
  BY AskedUpdated, GuardsNumber
<1>4. ASSUME NEW n \in info[g][h].nonces, Valid(n), n.at = now
      PROVE  \E q \in msgs : Offer(g, h, q)
  BY <1>1, <1>2, <1>3, <1>4 DEF TimeInv, PresentNonce
<1>5. ASSUME NEW n \in info[g][h].nonces, Valid(n), n.at # now
      PROVE  FALSE
  <2>1. n.at < now /\ n.at \in Nat /\ n.at >= now - MessageValid
    BY <1>1, <1>5 DEF TimeInv, NonceInTime, Valid
  <2>2. h # 0 /\ Known(g, 0) /\ n.at <= Last(g, 0) /\ Last(g, 0) < now
    BY <1>1, <1>2, <1>5, <2>1 DEF TimeInv, FormerNonce
  <2>3. 0 \in Guards /\ InStep(Reckoned(g, 0), Reckoned(g, h))
    BY <1>2, <1>3, <2>2, GuardsNumber DEF TimeInv, AllInStep
  <2>4. Reckoned(g, h) = now
    BY DEF Reckoned
  <2>5. Reckoned(g, 0) = Last(g, 0)
    BY <1>1, <2>1, <2>2, <2>3 DEF Reckoned, Due
  <2> QED
    BY <1>1, <2>1, <2>2, <2>3, <2>4, <2>5 DEF InStep
<1>6. (\A n \in info[g][h].nonces : ~Valid(n)) => HeartbeatDue(g, h)
  <2>1. /\ Cleared(g)[h].peer = info[g][h].peer
        /\ Cleared(g)[h].lastUpdate = info[g][h].lastUpdate
        /\ Cleared(g)[h].nonces = {n \in info[g][h].nonces : Valid(n)}
    BY ClearedFacts DEF DetectionInv
  <2>2. info[g][h].lastUpdate < now - HeartbeatTimeout
    BY <1>1, <1>2 DEF Last
  <2> QED
    BY <1>2, <2>1, <2>2 DEF HeartbeatDue, Known
<1> QED
  BY <1>4, <1>5, <1>6

LEMMA BeatsOrderly ==
  ASSUME DetectionInv, PromptNetwork, SecondInv, TimeInv, NEW g \in Guards, Update(g), ~Few(g)
  PROVE  \E new, sent, learnt : Orderly(g, new, sent, learnt)
<1>1. PICK nn, new, sent :
        /\ Does(g, new, sent, {})
        /\ \A k \in Guards : \A n \in new[k] :
             \E h \in Guards : HeartbeatDue(g, h) /\ n = nn[h] /\ (h = k \/ h = 0)
        /\ \A h \in Guards : HeartbeatDue(g, h) => nn[h] \in new[h]
        /\ \A m \in sent : m.type = "heartbeat" /\ m.nonce # None /\
             \E h \in Guards : HeartbeatDue(g, h) /\ m.nonce = nn[h] /\ m.to = info[g][h].peer
        /\ \A h \in Guards : HeartbeatDue(g, h) =>
             \E m \in sent : m.nonce = nn[h] /\ m.to = info[g][h].peer
        /\ \A p, q \in sent : p.to = q.to => p = q
        /\ received' = received /\ updated' = updated \cup {g} /\ g \notin updated
  BY BeatsDoes
<1>2. now' = now /\ peer' = peer /\ msgs' = msgs \cup sent /\ \A m \in sent : m.from = g /\ m.at = now
  BY <1>1 DEF Does
<1>3. ASSUME NEW h \in Guards, HeartbeatDue(g, h)
      PROVE  Due(g, h) /\ info[g][h].peer = peer[h] /\ peer[h] # None /\ h # g
  <2>1. info[g][h].peer # None /\ info[g][h].lastUpdate < now - HeartbeatTimeout
    BY <1>3, ClearedFacts DEF HeartbeatDue, DetectionInv
  <2>2. Known(g, h) /\ now - Last(g, h) > HeartbeatTimeout
    BY <2>1, TimeTypes DEF Known, Last
  <2> QED
    BY <2>1, <2>2 DEF Due, SecondInv, KnownPeers
<1>4. ASSUME NEW h \in Guards, HeartbeatDue(g, h)
      PROVE  Beats(g, h)' /\ \E q \in msgs' : Offer(g, h, q)'
  <2>1. PICK m \in sent : m.nonce = nn[h] /\ m.to = info[g][h].peer
    BY <1>1, <1>4
  <2>2. m.type = "heartbeat" /\ Offer(g, h, m)' /\ m \in msgs'
    BY <1>1, <1>2, <1>3, <1>4, <2>1 DEF Offer
  <2> QED
    BY <2>2 DEF Beats
<1>5. \A h \in Guards : Known(g, h) /\ new[h] # {} =>
        (\E q \in msgs' : Offer(g, h, q)') \/ (h # 0 /\ Beats(g, 0)')
  BY <1>1, <1>4
<1>6. ASSUME NEW x \in Guards, NEW h \in Guards, Beats(x, h)', ~Beats(x, h)
      PROVE  x = g /\ Due(g, h)
  <2>1. PICK q \in msgs' : Offer(x, h, q)' /\ q.type = "heartbeat" /\ q \notin msgs
    BY <1>2, <1>6 DEF Beats, Offer
  <2>2. q \in sent /\ x = g /\ q.to \in {None, peer[h]}
    BY <1>2, <2>1 DEF Offer
  <2>3. PICK k \in Guards : HeartbeatDue(g, k) /\ q.to = info[g][k].peer
    BY <1>1, <2>2
  <2>4. peer[h] = peer[k] /\ Due(g, k)
    BY <1>3, <2>2, <2>3
  <2>5. h = k
    BY <2>4, FirstPeers DEF PromptNetwork
  <2> QED
    BY <2>2, <2>4, <2>5
<1>7. \A x \in Guards : Calls(x)' => Calls(x)
  BY <1>1, <1>2 DEF Calls
<1>8. \A h \in Guards : Due(g, h) => \E q \in msgs' : Offer(g, h, q)'
  BY <1>1, <1>2, <1>4, DueBeats DEF Offer
<1>9. Orderly(g, new, sent, {})
  BY <1>1, <1>5, <1>6, <1>7, <1>8, GuardsNumber DEF Orderly
<1> QED
  BY <1>9

LEMMA HandlesOrderly ==
  ASSUME DetectionInv, PromptNetwork, SecondInv, TimeInv, NEW g \in Guards, NEW m \in msgs,
         NEW new, NEW sent, NEW learnt, Handles(g, m, new, sent, learnt)
  PROVE  Orderly(g, new, sent, learnt)
<1>1. /\ Does(g, new, sent, learnt) /\ Takes(g, m) /\ m.from \in Guards /\ m.from # g
      /\ m.at = now /\ now' = now /\ peer' = peer /\ msgs' = msgs \cup sent /\ updated' = updated
  BY DEF Handles, Takes, Does
<1>2. /\ m.nonce # None => Offer(m.from, g, m)
      /\ \A x, h \in Guards, q \in msgs' :
           Offer(x, h, q)' => Offer(x, h, q) \/ q \in sent
      /\ \A h \in learnt : h = m.from /\ m.type = "approval"
      /\ m.type = "approval" => \E q \in msgs : Answers(m, g, q)
      /\ g \notin learnt
  BY HandlesSends
<1>3. \A q \in sent : q.type = "approval" /\ q.to = peer[m.from] /\ q.from = g /\ q.at = now
  BY DEF Handles, Does
<1>4. \A x, h \in Guards : (Beats(x, h)' => Beats(x, h)) /\ (Calls(x)' => Calls(x))
  BY <1>1, <1>2, <1>3 DEF Beats, Calls, Offer
<1>5. ASSUME NEW h \in Guards, h \in learnt
      PROVE  /\ h # g /\ (Beats(g, h) \/ Calls(g) \/ Calls(h))
             /\ now = First => Known(h, g) \/ \E q \in msgs : Offer(h, g, q)
  <2>1. PICK q \in msgs : Answers(m, g, q)
    BY <1>2, <1>5
  <2>2. h = m.from /\ h # g /\ Offer(g, h, q)
    BY <1>1, <1>2, <1>5, <2>1 DEF Answers
  <2>3. /\ q.from = g /\ q.at = now /\ q.to \in {None, peer[h]} /\ q.nonce # None
        /\ q.type \in {"register", "approval", "heartbeat"}
    BY <2>2 DEF Offer, DetectionInv, TypeOK, Message
  <2>4. q.type = "approval" => Calls(h)
    <3>1. SUFFICES ASSUME q.type = "approval" PROVE Calls(h)
      OBVIOUS
    <3>2. PICK r \in msgs : Answers(q, h, r)
      BY <2>3, <3>1, WhoseAnswer DEF SecondInv
    <3> QED
      BY <2>3, <3>2 DEF Answers, Offer, Calls
  <2>5. Beats(g, h) \/ Calls(g) \/ Calls(h)
    BY <2>2, <2>3, <2>4 DEF Beats, Calls
  <2>6. now = First => ~Beats(g, h)
    BY TimeTypes DEF TimeInv, BeatsDue
  <2>7. now = First => Known(h, g) \/ \E p \in msgs : Offer(h, g, p)
    <3>1. CASE m.nonce # None
      BY <1>2, <2>2, <3>1
    <3>2. CASE m.nonce = None
      <4>1. q.type = "heartbeat" \/ Fresh(h, g)
        BY <2>1, <2>2, <3>2 DEF Answers
      <4> QED
        BY <2>2, <2>6, <4>1 DEF Beats, Fresh
    <3> QED
      BY <3>1, <3>2
  <2> QED
    BY <2>2, <2>5, <2>7
<1>6. ASSUME NEW h \in Guards, new[h] # {}
      PROVE  /\ m.type = "register"
             /\ (now = First /\ m.from = 0) \/ (m.from = h /\ \E q \in msgs' : Offer(g, h, q)')
  <2>1. m.type = "register" /\ m.from \in {0, h}
    BY <1>6 DEF Handles
  <2>2. CASE m.from = 0
    <3>1. Calls(0)
      BY <1>1, <2>1, <2>2 DEF Calls
    <3> QED
      BY <2>1, <2>2, <3>1, GuardsNumber DEF TimeInv, CallsInTime
  <2>3. CASE m.from = h
    <3>1. PICK a \in sent : a.nonce # None
      BY <2>1 DEF Handles
    <3>2. Offer(g, h, a)' /\ a \in msgs'
      BY <1>1, <1>3, <2>3, <3>1 DEF Offer
    <3> QED
      BY <2>1, <2>3, <3>2
  <2> QED
    BY <2>1, <2>2, <2>3
<1>7. new[g] # {} => now = First /\ m.from = 0
  BY <1>1, <1>6
<1> QED
  BY <1>1, <1>4, <1>5, <1>6, <1>7 DEF Orderly

LEMMA TimeInit ==
  ASSUME PromptNetwork, Init
  PROVE  TimeInv
<1>1. now = First /\ msgs = {} /\ updated = {} /\ First \in Nat /\ MessageValid \in Nat
  BY TimeAssumption DEF Init, First
<1>2. \A g, h \in Guards : info[g][h] = Unknown /\ ~Known(g, h) /\ info[g][h].nonces = {}
  BY DEF Init, Known, Unknown
<1>3. KnownInTime /\ NonceInTime /\ FormerNonce /\ PresentNonce /\ AllInStep /\ DueAsked /\ BothKnown
  BY <1>1, <1>2 DEF KnownInTime, NonceInTime, FormerNonce, PresentNonce, AllInStep, DueAsked,
     BothKnown
<1>4. BeatsDue /\ CallsInTime
  BY <1>1 DEF BeatsDue, Beats, CallsInTime, Calls
<1>5. now < Second /\ now <= Second /\ now # Second
  BY <1>1 DEF First, Second
<1>6. FewInTime /\ OwnBlocked /\ OthersBlocked
  BY <1>1, <1>2, <1>5 DEF FewInTime, OwnBlocked, OthersBlocked
<1>7. ZeroAsks /\ ZeroKnown
  BY <1>1, <1>2, GuardsNumber DEF ZeroAsks, ZeroKnown
<1> QED
  BY <1>1, <1>3, <1>4, <1>6, <1>7 DEF TimeInv

\* A second that is over: who was sent a nonce has answered, and nobody is due.
LEMMA TickTime ==
  ASSUME DetectionInv, PromptNetwork, SecondInv, SecondInv', TimeInv, Tick
  PROVE  TimeInv'
<1>1. /\ now \in Nat /\ First \in Nat /\ Second \in Nat /\ Second = First + MessageValid + 1
      /\ MessageValid \in Nat /\ HeartbeatTimeout \in Nat
      /\ MessageValid <= HeartbeatTimeout /\ HeartbeatTimeout + 1 < ActiveTimeout
      /\ ActiveTimeout \in Nat
      /\ \A x, h \in Guards : Last(x, h) \in Nat /\ \A n \in info[x][h].nonces : n.at \in Nat
  BY TimeTypes
<1>2. /\ now' = now + 1 /\ UNCHANGED <<peer, info>> /\ updated' = {}
      /\ \A g, h \in Guards, q \in msgs' : ~Offer(g, h, q)'
      /\ \A g \in Guards : ~Calls(g)'
  BY TickClears
<1>3. updated = Guards /\ First <= now
  BY DEF Tick, PromptNetwork, TimeInv
<1>4. /\ \A g, h \in Guards, q \in msgs : Offer(g, h, q) => Fresh(g, h)
      /\ \A g, h \in Guards : Calls(g) /\ g # h => Fresh(g, h) /\ Fresh(h, g)
  BY TickFresh
<1>5. \A g, h \in Guards : (Known(g, h)' <=> Known(g, h)) /\ Last(g, h)' = Last(g, h)
  BY <1>2 DEF Known, Last
<1>6. \A g, h \in Guards : ~Due(g, h)
  BY <1>1, <1>3, <1>4 DEF TimeInv, DueAsked, Due, Fresh
<1>7. \A g, h \in Guards : Known(g, h) =>
        /\ Last(g, h) <= now /\ now - Last(g, h) <= HeartbeatTimeout
        /\ Last(g, h) = First \/ Last(g, h) >= Second
  BY <1>1, <1>6 DEF Due, TimeInv, KnownInTime
<1>8. KnownInTime'
  BY <1>1, <1>2, <1>5, <1>7 DEF KnownInTime, First, Second
<1>9. \A g \in Guards : Few(g)' => Few(g) /\ ~Calls(g)
  <2>1. ASSUME NEW g \in Guards, NEW h \in Guards PROVE Active(g, h)' <=> Active(g, h)
    <3>1. Known(g, h) => now + 1 - Last(g, h) < ActiveTimeout /\ now - Last(g, h) < ActiveTimeout
      BY <1>1, <1>7
    <3> QED
      BY <1>1, <1>2, <3>1 DEF Active, Known, Last
  <2>2. \A g \in Guards : ActiveGuards(g)' = ActiveGuards(g)
    BY <1>2, <2>1 DEF ActiveGuards
  <2>3. \A g \in Guards : Calls(g) => ~Few(g)
    BY <1>4, KnownActive DEF Fresh, SecondInv, TimeInv
  <2> QED
    BY <2>2, <2>3 DEF Few
<1>10. NonceInTime'
  BY <1>1, <1>2 DEF TimeInv, NonceInTime, First
<1>11. FormerNonce'
  <2> SUFFICES ASSUME NEW g \in Guards, NEW h \in Guards, NEW n \in info[g][h].nonces, Known(g, h)
               PROVE  \/ n.at <= Last(g, h) \/ ~Valid(n)'
                      \/ h # 0 /\ Known(g, 0) /\ n.at <= Last(g, 0) /\ Last(g, 0) < now + 1
    BY <1>2, <1>5, GuardsNumber DEF FormerNonce
  <2>1. n.at \in Nat /\ n.at <= now /\ 0 \in Guards
    BY <1>1, GuardsNumber DEF TimeInv, NonceInTime
  <2>2. CASE n.at < now
    <3>1. ~Valid(n) => ~Valid(n)'
      BY <1>1, <1>2, <2>1 DEF Valid
    <3>2. \/ n.at <= Last(g, h) \/ ~Valid(n)
          \/ h # 0 /\ Known(g, 0) /\ n.at <= Last(g, 0) /\ Last(g, 0) < now
      BY <2>2 DEF TimeInv, FormerNonce
    <3> QED
      BY <1>1, <2>1, <3>1, <3>2
  <2>3. CASE n.at = now
    <3>1. now = First \/ (\E q \in msgs : Offer(g, h, q)) \/ (h # 0 /\ Beats(g, 0))
      BY <2>3 DEF TimeInv, PresentNonce
    <3>2. now = First => n.at <= Last(g, h)
      BY <1>1, <1>7, <2>3
    <3>3. (\E q \in msgs : Offer(g, h, q)) => n.at <= Last(g, h)
      BY <1>1, <1>4, <2>3 DEF Fresh
    <3>4. h # 0 /\ Beats(g, 0) => Known(g, 0) /\ Last(g, 0) = now
      BY <1>4, <2>1 DEF Beats, Fresh
    <3> QED
      BY <1>1, <2>1, <2>3, <3>1, <3>2, <3>3, <3>4
  <2> QED
    BY <1>1, <2>1, <2>2, <2>3
<1>12. PresentNonce'
  BY <1>1, <1>2 DEF TimeInv, NonceInTime, PresentNonce
<1>13. AllInStep'
  <2> SUFFICES ASSUME NEW g \in Guards, NEW h \in Guards, h # 0, Known(g, 0), Known(g, h)
               PROVE  InStep(Reckoned(g, 0)', Reckoned(g, h)')
    BY <1>5, GuardsNumber DEF AllInStep, InStep
  <2>1. 0 \in Guards
    BY GuardsNumber
  <2>2. /\ Last(g, 0) \in Nat /\ Last(g, 0) <= now /\ now - Last(g, 0) <= HeartbeatTimeout
        /\ Last(g, h) \in Nat /\ Last(g, h) <= now /\ now - Last(g, h) <= HeartbeatTimeout
    BY <1>1, <1>7, <2>1
  <2>3. InStep(Last(g, 0), Last(g, h))
    <3>1. CASE Calls(g)
      <4>1. ~Known(g, g)
        BY DEF SecondInv, KnownPeers
      <4>2. Last(g, 0) = now /\ Last(g, h) = now
        BY <1>4, <2>1, <3>1, <4>1 DEF Fresh
      <4> QED
        BY <1>1, <4>2 DEF InStep
    <3>2. CASE ~Calls(g)
      BY <1>6, <2>1, <3>2 DEF TimeInv, AllInStep, Reckoned
    <3> QED
      BY <3>1, <3>2
  <2>4. ASSUME NEW k \in Guards, Known(g, k)
        PROVE  Reckoned(g, k)' = IF now + 1 - Last(g, k) > HeartbeatTimeout THEN now + 1
                                 ELSE Last(g, k)
    <3>1. Known(g, k)' /\ Last(g, k)' = Last(g, k) /\ now' = now + 1
      BY <1>2, <1>5, <2>4
    <3>2. Due(g, k)' <=> now + 1 - Last(g, k) > HeartbeatTimeout
      BY <1>1, <3>1 DEF Due
    <3> QED
      BY <3>1, <3>2 DEF Reckoned
  <2>5. /\ Reckoned(g, 0)' = IF now + 1 - Last(g, 0) > HeartbeatTimeout THEN now + 1 ELSE Last(g, 0)
        /\ Reckoned(g, h)' = IF now + 1 - Last(g, h) > HeartbeatTimeout THEN now + 1 ELSE Last(g, h)
    BY <2>1, <2>4
  <2> QED
    BY <1>1, <2>2, <2>3, <2>5 DEF InStep
<1>14. DueAsked' /\ BeatsDue' /\ CallsInTime'
  BY <1>2 DEF DueAsked, BeatsDue, Beats, CallsInTime
<1>15. FewInTime'
  <2> SUFFICES ASSUME NEW g \in Guards, Few(g)'
               PROVE  now + 1 <= Second
    BY <1>2 DEF FewInTime, Second
  <2>1. now <= Second /\ now # Second
    BY <1>3, <1>9 DEF TimeInv, FewInTime
  <2> QED
    BY <1>1, <2>1
<1>16. OwnBlocked'
  BY <1>2, <1>9 DEF TimeInv, OwnBlocked, First
<1>17. OthersBlocked'
  <2> SUFFICES ASSUME NEW g \in Guards, Few(g)', now + 1 < Second
               PROVE  \A h \in Guards : Known(g, h) \/ \E n \in info[g][h].nonces : n.at = First
    BY <1>2, <1>5 DEF OthersBlocked, First, Second
  <2>1. Few(g) /\ ~Calls(g) /\ now < Second /\ g \in updated
    BY <1>1, <1>3, <1>9
  <2> QED
    BY <2>1 DEF TimeInv, OthersBlocked
<1>18. First < now' /\ now' # First
  BY <1>1, <1>2, <1>3
<1>19. ZeroAsks'
  <2>1. 0 \in Guards /\ (~Few(0) \/ Calls(0))
    BY <1>3, GuardsNumber DEF TimeInv, ZeroAsks
  <2> QED
    BY <1>9, <1>18, <2>1 DEF ZeroAsks, First
<1>20. BothKnown'
  BY <1>18 DEF BothKnown, First
<1>21. ZeroKnown'
  <2> SUFFICES ASSUME NeedGuard = N, NEW g \in Guards, g # 0
               PROVE  Known(0, g) /\ Known(g, 0)
    BY <1>5, GuardsNumber DEF ZeroKnown
  <2>1. 0 \in Guards
    BY GuardsNumber
  <2>2. CASE First < now
    BY <2>2 DEF TimeInv, ZeroKnown
  <2>3. CASE now = First
    <3>1. ~Few(0) \/ Calls(0)
      BY <1>3, <2>1 DEF TimeInv, ZeroAsks
    <3>2. CASE Calls(0)
      BY <1>4, <2>1, <3>2 DEF Fresh
    <3>3. CASE ~Few(0)
      <4>1. Known(0, g)
        BY <2>1, <3>3, KnownActive DEF SecondInv, TimeInv
      <4>2. Known(g, 0) \/ \E q \in msgs : Offer(g, 0, q)
        BY <2>1, <2>3, <4>1 DEF TimeInv, BothKnown
      <4> QED
        BY <1>4, <2>1, <4>1, <4>2 DEF Fresh
    <3> QED
      BY <3>1, <3>2, <3>3
  <2> QED
    BY <1>1, <1>3, <2>2, <2>3
<1>22. First <= now'
  BY <1>1, <1>2, <1>3
<1> QED
  BY <1>8, <1>10, <1>11, <1>12, <1>13, <1>14, <1>15, <1>16, <1>17, <1>19, <1>20, <1>21, <1>22
  DEF TimeInv, First

LEMMA TimeStep ==
  ASSUME DetectionInv, PromptNetwork, SecondInv, TimeInv, Next
  PROVE  TimeInv'
<1>1. SecondInv'
  BY SecondStep
<1>2. CASE Tick
  BY <1>1, <1>2, TickTime
<1>3. ASSUME NEW g \in Guards, Update(g) PROVE TimeInv'
  <2>1. \E new, sent, learnt : Orderly(g, new, sent, learnt)
    BY <1>3, CallsOrderly, BlockedOrderly, BeatsOrderly
  <2> QED
    BY <1>1, <2>1, OrderlyTime
<1>4. ASSUME NEW g \in Guards, NEW m \in msgs,
             \E new, sent, learnt : Handles(g, m, new, sent, learnt)
      PROVE  TimeInv'
  BY <1>1, <1>4, HandlesOrderly, OrderlyTime
<1> QED
  BY <1>2, <1>3, <1>4, PromptStep DEF SecondInv

\* Nothing happens.
LEMMA PromptStutter ==
  ASSUME SecondInv, TimeInv, UNCHANGED vars
  PROVE  SecondInv' /\ TimeInv'
<1>1. /\ now' = now /\ peer' = peer /\ info' = info /\ msgs' = msgs /\ updated' = updated
      /\ received' = received
  BY DEF vars
<1>2. SecondInv'
  <2>1. KnownPeers' /\ FormerReceived' /\ NonceCarried' /\ AnsweredOff'
    BY <1>1 DEF SecondInv, KnownPeers, Known, FormerReceived, NonceCarried, AnsweredOff
  <2>2. AnswerAsked'
    <3>1. \A m, h, q : Answers(m, h, q)' <=> Answers(m, h, q)
      BY <1>1 DEF Answers, Offer, Fresh, Known, Last
    <3> QED
      BY <1>1, <3>1 DEF SecondInv, AnswerAsked
  <2>5. NonceKept'
    BY <1>1 DEF SecondInv, NonceKept, Offer, Fresh, Known, Last
  <2>3. AskAnswered' /\ OfferAnswered' /\ AskKept'
    BY <1>1 DEF SecondInv, AskAnswered, OfferAnswered, AskKept, Answered, Ask, Offer, Fresh, Known,
       Last
  <2>4. AskedOnce' /\ OfferedOnce'
    BY <1>1 DEF SecondInv, AskedOnce, OfferedOnce, Ask, Offer
  <2> QED
    BY <2>1, <2>2, <2>3, <2>4, <2>5 DEF SecondInv
<1>3. TimeInv'
  <2>1. KnownInTime' /\ NonceInTime' /\ FormerNonce' /\ First <= now'
    BY <1>1 DEF TimeInv, KnownInTime, NonceInTime, FormerNonce, Valid, Known, Last, First, Second
  <2>2. PresentNonce'
    BY <1>1 DEF TimeInv, PresentNonce, Known, Offer, Beats, First
  <2>3. AllInStep' /\ DueAsked'
    BY <1>1 DEF TimeInv, AllInStep, DueAsked, InStep, Reckoned, Due, Known, Last, Calls, Offer
  <2>4. BeatsDue' /\ CallsInTime'
    BY <1>1 DEF TimeInv, BeatsDue, CallsInTime, Beats, Calls, Offer, Fresh, Due, Known, Last, First,
       Second
  <2>5. FewInTime' /\ OwnBlocked' /\ OthersBlocked' /\ ZeroAsks'
    BY <1>1 DEF TimeInv, FewInTime, OwnBlocked, OthersBlocked, ZeroAsks, Few, ActiveGuards, Active,
       Calls, Known, First, Second
  <2>6. BothKnown' /\ ZeroKnown'
    BY <1>1 DEF TimeInv, BothKnown, ZeroKnown, Known, Offer, First
  <2> QED
    BY <2>1, <2>2, <2>3, <2>4, <2>5, <2>6 DEF TimeInv
<1> QED
  BY <1>2, <1>3

-----------------------------------------------------------------------------
\* What holds of the prompt network

\* The messages of a second and the times of what is known are always as described.
THEOREM PromptInvariant ==
  ASSUME PromptNetwork
  PROVE  Spec => [](SecondInv /\ TimeInv)
<1>1. Init => SecondInv /\ TimeInv
  BY SecondInit, TimeInit
<1>2. DetectionInv /\ SecondInv /\ TimeInv /\ [Next]_vars => (SecondInv /\ TimeInv)'
  BY SecondStep, TimeStep, PromptStutter
<1> QED
  BY <1>1, <1>2, DetectionInvariant, PTL DEF Spec

\* What is known is never forgotten, and is active.
LEMMA ActiveStays ==
  ASSUME DetectionInv, DetectionInv', PromptNetwork, SecondInv, TimeInv, TimeInv', Next,
         NEW g \in Guards, NEW h \in Guards, Active(g, h)
  PROVE  Active(g, h)'
<1>1. Known(g, h)
  BY DEF Active, Known
<1>2. Known(g, h)'
  <2>1. CASE Tick
    BY <1>1, <2>1 DEF Tick, Known
  <2>2. ASSUME NEW x \in Guards, NEW new, NEW sent, NEW learnt, Does(x, new, sent, learnt)
        PROVE  Known(g, h)'
    BY <1>1, <2>2, Grows
  <2>3. ASSUME NEW x \in Guards, Update(x) PROVE Known(g, h)'
    BY <2>2, <2>3, UpdateAsks DEF Asks
  <2> QED
    BY <2>1, <2>2, <2>3, PromptStep DEF SecondInv, Handles
<1>3. now' \in Nat /\ info'[g][h].lastUpdate \in Nat
  <2>1. TypeOK' /\ info'[g][h] \in Info
    BY DEF DetectionInv, TypeOK
  <2> QED
    BY <2>1 DEF TypeOK, Info
<1>4. now' - info'[g][h].lastUpdate <= HeartbeatTimeout + 1
  BY <1>2 DEF TimeInv, KnownInTime, Last
<1>5. now' - info'[g][h].lastUpdate < ActiveTimeout
  BY <1>3, <1>4, TimeTypes
<1> QED
  BY <1>2, <1>5 DEF Active, Known

\* While messages arrive at once, an active guard stays active: its heartbeat is due,
\* sent and answered in time.  No nonce meant for guard 0 ever keeps it from being sent.
THEOREM StaysActiveHolds ==
  ASSUME PromptNetwork
  PROVE  Spec => StaysActive
<1>1. ASSUME DetectionInv, DetectionInv', SecondInv, TimeInv, TimeInv', [Next]_vars
      PROVE  [\A g, h \in Guards : peer' = peer /\ Active(g, h) => Active(g, h)']_vars
  BY <1>1, ActiveStays
<1> QED
  BY <1>1, DetectionInvariant, PromptInvariant, PTL DEF Spec, StaysActive

\* While messages arrive at once, every guard finds as many active guards as it needs
\* once the nonces of the first second have timed out, whatever kept it from asking.
THEOREM EnoughActiveHolds ==
  ASSUME PromptNetwork
  PROVE  Spec => []EnoughActive
<1>1. ASSUME DetectionInv, SecondInv, TimeInv, now > StartTime + MessageValid + 1,
             NEW g \in Guards
      PROVE  Cardinality(ActiveGuards(g)) >= NeedGuard
  <2>1. ~(now <= Second)
    BY <1>1, TimeTypes DEF First, Second
  <2>2. ~Few(g)
    BY <1>1, <2>1 DEF TimeInv, FewInTime
  <2>3. Cardinality(ActiveGuards(g)) \in Nat /\ NeedGuard \in Nat
    BY <1>1, KnownActive, GuardsNumber DEF SecondInv, TimeInv
  <2> QED
    BY <2>2, <2>3 DEF Few
<1>2. DetectionInv /\ SecondInv /\ TimeInv => EnoughActive
  BY <1>1 DEF EnoughActive
<1> QED
  BY <1>2, DetectionInvariant, PromptInvariant, PTL

\* While messages arrive at once, guard 0 and every other guard know each other after
\* the first second, if a guard needs all guards.
THEOREM AllRegisteredHolds ==
  ASSUME PromptNetwork, NeedGuard = N
  PROVE  Spec => []AllRegistered
<1>1. ASSUME DetectionInv, SecondInv, TimeInv, now > StartTime, NEW g \in Guards \ {0}
      PROVE  Active(0, g) /\ Active(g, 0)
  <2>1. 0 \in Guards /\ First < now
    BY <1>1, GuardsNumber, TimeTypes DEF First
  <2>2. Known(0, g) /\ Known(g, 0)
    BY <1>1, <2>1 DEF TimeInv, ZeroKnown
  <2> QED
    BY <1>1, <2>1, <2>2, KnownActive DEF SecondInv, TimeInv
<1>2. DetectionInv /\ SecondInv /\ TimeInv => AllRegistered
  BY <1>1 DEF AllRegistered
<1> QED
  BY <1>2, DetectionInvariant, PromptInvariant, PTL
=============================================================================
