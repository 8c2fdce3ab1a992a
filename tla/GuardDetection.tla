--------------------------- MODULE GuardDetection ---------------------------
(***************************************************************************)
(* packages/detection: each guard finds out which other guards are active, *)
(* and under which p2p identifier, by having them answer its nonces.       *)
(*                                                                         *)
(* A guard may come back from a restart under another identifier; what is  *)
(* sent to an identifier reaches its guard only while it uses it.  The     *)
(* messages sent are kept in a growing set: a message may be received      *)
(* late, twice, out of order or never, until it expires.                   *)
(***************************************************************************)
EXTENDS Integers, FiniteSets

CONSTANTS
  N,                 \* number of guards
  NeedGuard,         \* needGuardThreshold, set by the signer
  ActiveTimeout, HeartbeatTimeout, MessageValid,
  Prompt,            \* whether messages arrive at once, and update runs at
                     \* every second
  Callers,           \* guards whose signer calls register
  StartTime,         \* time at which the system starts
  MaxTime,           \* BOUND: time at which the model stops
  MaxRestarts,       \* BOUND: restarts of a guard
  MaxNonces,         \* BOUND: nonces a guard makes
  None               \* undefined

Guards == 0 .. N - 1

\* An identifier: that of a guard after so many changes of it.
Peers == Guards \X (0 .. MaxRestarts)

ASSUME SizeAssumption ==
  /\ N \in Nat \ {0} /\ NeedGuard \in Nat
  /\ Prompt \in BOOLEAN /\ Callers \subseteq Guards
  /\ MaxRestarts \in Nat /\ MaxNonces \in Nat
  /\ None \notin Peers

ASSUME TimeAssumption ==
  /\ ActiveTimeout \in Nat /\ HeartbeatTimeout \in Nat /\ MessageValid \in Nat
  /\ StartTime \in Nat /\ MaxTime \in Nat

VARIABLES
  now,       \* the clock of all guards, in seconds
  peer,      \* peer[g]: identifier that g uses
  info,      \* info[g][h]: what g knows of h (guardsInfo)
  made,      \* made[g]: number of nonces g made
  msgs,      \* messages sent
  updated,   \* guards whose update ran in this second, if Prompt
  received,  \* messages received, if Prompt
  left       \* left[p]: time at which p was given up (history)

vars == <<now, peer, info, made, msgs, updated, received, left>>

Nonce == [by : Guards, no : Nat, at : Nat]

ASSUME NoneAssumption == None \notin Nonce

Info == [peer : Peers \cup {None}, nonces : SUBSET Nonce, lastUpdate : Nat,
         callbacks : SUBSET Peers]

\* A message of guard from, sent as identifier peer to identifier to, or to all
\* if it is None.
Message == [type : {"register", "approval", "heartbeat"}, from : Guards, peer : Peers,
            to : Peers \cup {None}, nonce : Nonce \cup {None},
            answer : Nonce \cup {None}, at : Nat]

TypeOK ==
  /\ now \in Nat
  /\ peer \in [Guards -> Peers]
  /\ info \in [Guards -> [Guards -> Info]]
  /\ made \in [Guards -> Nat]
  /\ msgs \subseteq Message
  /\ \A m \in msgs : m.to = None => m.type = "register"
  /\ updated \subseteq Guards /\ received \subseteq (Guards \X Message)
  /\ left \in [Peers -> Nat \cup {None}]

Unknown == [peer |-> None, nonces |-> {}, lastUpdate |-> 0, callbacks |-> {}]

Init ==
  /\ now = StartTime
  /\ peer = [g \in Guards |-> <<g, 0>>]
  /\ info = [g \in Guards |-> [h \in Guards |-> Unknown]]
  /\ made = [g \in Guards |-> 0]
  /\ msgs = {} /\ updated = {} /\ received = {}
  /\ left = [p \in Peers |-> None]

-----------------------------------------------------------------------------
\* Mutant: who was registered once counts as active.
ActiveEver(g, h) == info[g][h].peer # None

\* isGuardActive
Active(g, h) ==
  info[g][h].peer # None /\ now - info[g][h].lastUpdate < ActiveTimeout

\* activeGuards: g itself and the others it believes active.
ActiveGuards(g) == {<<g, peer[g]>>} \cup {<<h, info[g][h].peer>> : h \in {h \in Guards : Active(g, h)}}

\* A nonce has not timed out.  Its time has a fraction of a second, the clock it
\* is compared with has not: one made in the last second allowed is kept.
Valid(n) == n.at >= now - MessageValid

\* clearNonce: what g knows, without the nonces that timed out.
Cleared(g) ==
  [h \in Guards |-> [info[g][h] EXCEPT !.nonces = {n \in @ : Valid(n)}]]

\* The k-th nonce that g makes in an action.
NewNonce(g, k) == [by |-> g, no |-> made[g] + k, at |-> now]
MayMake(g, k) == made[g] + k <= MaxNonces

\* Mutant: the nonce replaces what is known of the guard.
AddNonceAnew(known, h, nonce) ==
  [k \in Guards |-> IF k = h \/ h = 0 THEN [Unknown EXCEPT !.nonces = {nonce}]
                    ELSE known[k]]

\* addNonce(h): index 0 is taken for undefined, and its nonce given to all.
AddNonce(known, h, nonce) ==
  [k \in Guards |-> IF k = h \/ h = 0 THEN [known[k] EXCEPT !.nonces = @ \cup {nonce}]
                    ELSE known[k]]

Send(g, type, to, nonce, answer) ==
  [type |-> type, from |-> g, peer |-> peer[g], to |-> to, nonce |-> nonce,
   answer |-> answer, at |-> now]

-----------------------------------------------------------------------------
\* init and update

\* Some guard is neither active nor asked: everybody is asked to register.
MustInit(g, known) ==
  \E h \in Guards :
    /\ known[h].peer = None \/ known[h].lastUpdate < now - ActiveTimeout
    /\ known[h].nonces = {}

Initialise(g, known) ==
  IF MustInit(g, known)
  THEN /\ MayMake(g, 1)
       /\ info' = [info EXCEPT ![g] =
            [h \in Guards |-> [known[h] EXCEPT !.nonces =
               {n \in @ : Valid(n)} \cup {NewNonce(g, 1)}]]]
       /\ made' = [made EXCEPT ![g] = @ + 1]
       /\ msgs' = msgs \cup {Send(g, "register", None, NewNonce(g, 1), None)}
  ELSE info' = [info EXCEPT ![g] = known] /\ UNCHANGED <<made, msgs>>

\* The application initialises detection.
CallInit(g) ==
  /\ ~Prompt
  /\ Initialise(g, info[g])
  /\ UNCHANGED <<now, peer, updated, received, left>>

\* Mutant: an unknown guard is due as well.
HeartbeatDueAny(g, h) ==
  /\ Cleared(g)[h].lastUpdate < now - HeartbeatTimeout
  /\ Cleared(g)[h].nonces = {}

HeartbeatDue(g, h) ==
  /\ Cleared(g)[h].peer # None
  /\ Cleared(g)[h].lastUpdate < now - HeartbeatTimeout
  /\ Cleared(g)[h].nonces = {}

\* Heartbeats to those who are due, in the order of their indexes, each with a
\* nonce of its own.
Heartbeats(g) ==
  LET due == {h \in Guards : HeartbeatDue(g, h)}
      Nth(h) == Cardinality({k \in due : k <= h})
      For(k) == {NewNonce(g, Nth(h)) : h \in {h \in due : h = k \/ h = 0}}
  IN /\ MayMake(g, Cardinality(due))
     /\ info' = [info EXCEPT ![g] =
          [k \in Guards |-> [Cleared(g)[k] EXCEPT !.nonces = @ \cup For(k)]]]
     /\ made' = [made EXCEPT ![g] = @ + Cardinality(due)]
     /\ msgs' = msgs \cup
          {Send(g, "heartbeat", info[g][h].peer, NewNonce(g, Nth(h)), None) : h \in due}

Update(g) ==
  /\ Prompt => g \notin updated
  /\ IF Cardinality(ActiveGuards(g)) < NeedGuard
     THEN Initialise(g, Cleared(g)) ELSE Heartbeats(g)
  /\ updated' = IF Prompt THEN updated \cup {g} ELSE updated
  /\ UNCHANGED <<now, peer, received, left>>

-----------------------------------------------------------------------------
\* Messages

Receive(g, m) ==
  /\ m.from # g /\ m.to \in {None, peer[g]}
  /\ now - MessageValid <= m.at
  /\ Prompt => <<g, m>> \notin received
  /\ received' = IF Prompt THEN received \cup {<<g, m>>} ELSE received

\* A guard asks g to register: g answers, and has its own nonce answered.
HandleRegister(g, m) ==
  /\ m.type = "register" /\ Receive(g, m)
  /\ MayMake(g, 1)
  /\ info' = [info EXCEPT ![g] = AddNonce(Cleared(g), m.from, NewNonce(g, 1))]
  /\ made' = [made EXCEPT ![g] = @ + 1]
  /\ msgs' = msgs \cup {Send(g, "approval", m.peer, NewNonce(g, 1), m.nonce)}
  /\ UNCHANGED <<now, peer, updated, left>>

HandleHeartbeat(g, m) ==
  /\ m.type = "heartbeat" /\ Receive(g, m)
  /\ msgs' = msgs \cup {Send(g, "approval", m.peer, None, m.nonce)}
  /\ UNCHANGED <<now, peer, info, made, updated, left>>

\* Mutant: only the nonce that is answered is forgotten.
ApprovedKeeping(known, m) ==
  [known EXCEPT ![m.from] = [peer |-> m.peer, nonces |-> @.nonces \ {m.answer},
                             lastUpdate |-> now, callbacks |-> {}]]

\* Mutant: those who wait are not told.
ApprovedUntold(known, m) ==
  [known EXCEPT ![m.from] = [@ EXCEPT !.peer = m.peer, !.nonces = {}, !.lastUpdate = now]]

\* What is known once the sender of m has answered a nonce.
ApprovedInfo(known, m) ==
  [known EXCEPT ![m.from] = [peer |-> m.peer, nonces |-> {}, lastUpdate |-> now,
                             callbacks |-> {}]]

\* Mutant: the nonce that comes with an answer is not answered.
AnswerLost(g, m) == {}

\* The answer to the nonce that came with an answer.
Answer(g, m) ==
  IF m.nonce = None THEN {} ELSE {Send(g, "approval", m.peer, None, m.nonce)}

\* An answer to a nonce of g: the sender is active, and those who wait for it
\* are told.  Other answers are ignored.
HandleApproval(g, m) ==
  /\ m.type = "approval" /\ Receive(g, m)
  /\ IF m.answer \in Cleared(g)[m.from].nonces
     THEN /\ info' = [info EXCEPT ![g] = ApprovedInfo(Cleared(g), m)]
          /\ msgs' = msgs \cup Answer(g, m)
     ELSE info' = [info EXCEPT ![g] = Cleared(g)] /\ UNCHANGED msgs
  /\ UNCHANGED <<now, peer, made, updated, left>>

\* The signer registers guard h under an identifier that others know it by.  If
\* h is active it is told at once whether that is its identifier.
Register(g, h, p) ==
  /\ g \in Callers /\ h # g
  /\ p[1] = h /\ p[2] <= peer[h][2]
  /\ ~Active(g, h)
  /\ MayMake(g, 1)
  /\ info' = [info EXCEPT ![g] =
       [Cleared(g) EXCEPT ![h].nonces = @ \cup {NewNonce(g, 1)},
                          ![h].callbacks = @ \cup {p}]]
  /\ made' = [made EXCEPT ![g] = @ + 1]
  /\ msgs' = msgs \cup {Send(g, "register", p, NewNonce(g, 1), None)}
  /\ UNCHANGED <<now, peer, updated, received, left>>

-----------------------------------------------------------------------------
\* g restarts under a new identifier and knows nobody.
Restart(g) ==
  /\ peer[g][2] < MaxRestarts
  /\ peer' = [peer EXCEPT ![g] = <<g, peer[g][2] + 1>>]
  /\ left' = [left EXCEPT ![peer[g]] = now]
  /\ info' = [info EXCEPT ![g] = [h \in Guards |-> Unknown]]
  /\ UNCHANGED <<now, made, msgs, updated, received>>

\* Time passes; if Prompt, every update ran and every message was received.
Tick ==
  /\ now < MaxTime
  /\ Prompt => /\ updated = Guards
               /\ \A m \in msgs, g \in Guards :
                    g # m.from /\ m.to \in {None, peer[g]} => <<g, m>> \in received
  /\ now' = now + 1
  /\ updated' = {}
  /\ msgs' = {m \in msgs : now + 1 - MessageValid <= m.at}
  /\ received' = {r \in received : r[2] \in msgs'}
  /\ UNCHANGED <<peer, info, made, left>>

Next ==
  \/ Tick
  \/ \E g \in Guards :
       \/ CallInit(g) \/ Update(g) \/ Restart(g)
       \/ \E m \in msgs : HandleRegister(g, m) \/ HandleHeartbeat(g, m) \/ HandleApproval(g, m)
       \/ \E h \in Guards, p \in Peers : Register(g, h, p)

Spec == Init /\ [][Next]_vars

-----------------------------------------------------------------------------
\* Properties

\* A guard known under its new identifier is never again taken for the former
\* one, whatever answers from before its restart are still under way: one
\* answer makes all other nonces worthless (handleApproveMessage).
PeerForward ==
  [][\A g, h \in Guards :
       info[g][h].peer # None /\ info'[g][h].peer # None
         => info[g][h].peer[2] <= info'[g][h].peer[2]]_vars

\* A guard is believed active under an identifier it has given up only for the
\* time of its last answer, and of the delay that answer may have had.
ActiveAlive ==
  \A g, h \in Guards :
    Active(g, h) /\ info[g][h].peer # peer[h]
      => now - left[info[g][h].peer] < ActiveTimeout + MessageValid

\* While messages arrive at once, an active guard stays active: its heartbeat
\* is due, sent and answered in time.
StaysActive ==
  [][\A g, h \in Guards : peer' = peer /\ Active(g, h) => Active(g, h)']_vars

\* While messages arrive at once, and a guard needs all guards, guard 0 and every
\* other guard know each other within the first second, although each restarts the
\* others' exchange with its own.  Guards other than 0 may miss each other for
\* longer: see RegistersWhenFew.
AllRegistered ==
  now > StartTime /\ (\A g \in Guards : peer[g][2] = 0) =>
    \A g \in Guards \ {0} : Active(0, g) /\ Active(g, 0)

\* While messages arrive at once, every guard finds as many active guards as it
\* needs, and keeps them, once the nonces of the first second have timed out: what
\* RegistersWhenFew denies delays it, and no longer than that.
EnoughActive ==
  now > StartTime + MessageValid + 1 =>
    \A g \in Guards : Cardinality(ActiveGuards(g)) >= NeedGuard

\* A guard that finds fewer active guards than it needs has asked all guards to
\* register: 'if more than half of guards are inactive send register message'
\* (update).  It does not when the one nonce that it sent guard 0 counts as
\* sent to all.
RegistersWhenFew ==
  \A g \in updated :
    Cardinality(ActiveGuards(g)) < NeedGuard =>
      \E m \in msgs : m.from = g /\ m.type = "register" /\ m.to = None

\* Nobody waits for the registration of a guard that is active: whichever nonce
\* it answered, those who wait are told (registerPromised).
NobodyWaits ==
  \A g, h \in Guards : Active(g, h) => info[g][h].callbacks = {}
=============================================================================
