------------------------------ MODULE MultiSig ------------------------------
(*****************************************************************************)
(* The multi-sig protocol of packages/ergo-multi-sig, for one transaction:   *)
(* N guards commit to secrets of their own, the guard whose turn it is       *)
(* gathers the commitments, asks those who committed for their proofs and    *)
(* assembles the signed transaction.                                         *)
(*                                                                           *)
(* A handler is one action, but where it gives others the opportunity to     *)
(* change the transaction under it: handleCommitment awaits the state        *)
(* context with the semaphore held, while the turn's methods and             *)
(* generateCommitment, which take no semaphore, may run.                     *)
(*                                                                           *)
(* A secret, with its commitment, is a number: the n-th its guard made, 0 if *)
(* there is none.  The proof for a secret fits one round: the commitments    *)
(* and the simulation that made the challenge.  A guard's index stands for   *)
(* its public key and for its peer id.                                       *)
(*****************************************************************************)
EXTENDS Integers, FiniteSets

CONSTANTS
  N,             \* number of guards
  Required,      \* requiredSigner: how many have to sign
  TxTimeout,     \* txSignTimeout, in turns
  Slack,         \* turns that a message can outlive the one it was sent in
  Known,         \* may the guard of the turn be known active: subset of BOOLEAN
  ContextFails,  \* whether the state context may be unavailable
  SignFailing,   \* guards whose sign may fail to commit, or to send its commitment
  UnfitThrows,   \* whether assembling proofs that do not fit may throw
  PromptFrom,    \* from this turn on, handleMyTurn is called as the turn begins,
                 \* once, all is received in the turn, and nothing fails
  SignAgain,     \* outcomes after which the application calls sign again
  MaxTurn,       \* BOUND: last turn
  MaxGen,        \* BOUND: commitments a guard makes
  MaxCalls       \* BOUND: calls of handleMyTurn in one turn before PromptFrom

ASSUME SizeAssumption ==
  /\ N \in Nat \ {0} /\ Required \in Nat \ {0}
  /\ {TxTimeout, Slack, PromptFrom, MaxTurn, MaxGen, MaxCalls} \subseteq Nat
  /\ Known \subseteq BOOLEAN

ASSUME SignAgainAssumption == SignAgain \subseteq {"rejected", "timed out", "invalid"}

VARIABLES
  turn,          \* turns so far: the clock
  calls,         \* calls of handleMyTurn in this turn
  tx,            \* tx[g]: the transaction in the queue of g (TxQueued)
  sem,           \* sem[g]: the semaphore of g, or the call that holds it
  signed,        \* signed[g]: outcomes g assembled and has yet to handle
  net,           \* messages under way
  gens,          \* gens[g]: secrets g has made
  sims,          \* sims[g]: rounds g has initiated
  promise,       \* promise[g]: what sign returned to g's application
  proofs         \* history: all proofs given

vars == <<turn, calls, tx, sem, signed, net, gens, sims, promise, proofs>>

Guards == 0 .. N - 1
Round == [by : Guards, k : Nat, com : [Guards -> Nat]]
NoRound == [by |-> 0, k |-> 0, com |-> [g \in Guards |-> 0]]
Proof == [n : Nat, round : Round]
NoProof == [n |-> 0, round |-> NoRound]
Undefined == -1     \* simulatedBag not set
EmptyBag == 0       \* simulatedBag without hints; else the round's number
Free == [pc |-> "free", com |-> [g \in Guards |-> 0]]
Stuck == [Free EXCEPT !.pc = "stuck"]    \* acquired, never released

TxQueued ==
  [asked : BOOLEAN,                 \* tx, boxes, resolve and reject are set
   secret : Nat, commitments : [Guards -> Nat],
   simulatedBag : Nat \cup {Undefined},
   signs : [Guards -> Proof],
   coordinator : Guards \cup {-1},
   createTime : Nat \cup {-1}]      \* -1: not in the queue

NoTx ==
  [asked |-> FALSE, secret |-> 0, commitments |-> [g \in Guards |-> 0],
   simulatedBag |-> Undefined, signs |-> [g \in Guards |-> NoProof],
   coordinator |-> -1, createTime |-> -1]

Message ==
  [type : {"generate", "commit", "initiate", "sign", "signed"},
   from : Guards, to : Guards, at : Nat,
   n : Nat,                         \* commit, sign: the secret's number
   round : Round,                   \* initiate, sign: the round
   valid : BOOLEAN]                 \* signed: whether its proofs fit

Queued(g) == tx[g].createTime # -1

Leader == turn % N       \* getCurrentTurnInd
Committed(com) == {g \in Guards : com[g] # 0}
Signed(signs) == {g \in Guards : signs[g] # NoProof}

Msg(type, g, h, n, r, valid) ==
  [type |-> type, from |-> g, to |-> h, at |-> turn, n |-> n, round |-> r,
   valid |-> valid]

\* Mutant: one guard too many.
OthersOff(g) == (0 .. N) \ {g}

\* Nobody sends a message to itself over the network.
Others(g) == Guards \ {g}

Init ==
  /\ turn = 0 /\ calls = 0
  /\ tx = [g \in Guards |-> NoTx]
  /\ sem = [g \in Guards |-> Free]
  /\ signed = [g \in Guards |-> {}]
  /\ net = {}
  /\ gens = [g \in Guards |-> 0] /\ sims = [g \in Guards |-> 0]
  /\ promise = [g \in Guards |-> "none"]
  /\ proofs = {}

-----------------------------------------------------------------------------
\* getQueuedTransaction: an unknown transaction is put in the queue, empty.
Entry(g) == IF Queued(g) THEN tx[g] ELSE [NoTx EXCEPT !.createTime = turn]

\* What the timers and the network may do before PromptFrom, and no more after.
Prompt == turn >= PromptFrom
Begun == Prompt => calls = 1
MayKnow(g) == IF Prompt \/ g = Leader THEN {TRUE} ELSE Known
NoContext == ContextFails /\ ~Prompt

Acquired(g) == sem[g] = Free

\* A new secret and its commitment, in generateCommitment.
WithCommitment(g, e) ==
  IF ~e.asked THEN e
  ELSE [e EXCEPT !.coordinator = Leader, !.secret = gens[g] + 1,
                 !.commitments[g] = gens[g] + 1]

\* generateCommitment of g, whose transaction is e: nothing without the
\* transaction; the commitment is sent to the guard of the turn.
GenerateCommitment(g, e, known, m) ==
  IF known /\ e.asked
  THEN /\ gens[g] < MaxGen
       /\ gens' = [gens EXCEPT ![g] = @ + 1]
       /\ tx' = [tx EXCEPT ![g] = WithCommitment(g, e)]
       /\ net' = m \cup (IF g = Leader THEN {}
                         ELSE {Msg("commit", g, Leader, gens[g] + 1, NoRound, FALSE)})
  ELSE tx' = [tx EXCEPT ![g] = e] /\ net' = m /\ UNCHANGED gens

\* The application calls sign once while its promise is open.
MaySign(g) ==
  /\ Begun
  /\ promise[g] \in {"none"} \cup SignAgain
  /\ Acquired(g)

\* sign: the transaction is in the queue before g commits.
Sign(g) ==
  /\ MaySign(g)
  /\ promise' = [promise EXCEPT ![g] = "open"]
  /\ \E known \in MayKnow(g) :
       GenerateCommitment(g, [Entry(g) EXCEPT !.asked = TRUE], known, net)
  /\ UNCHANGED <<turn, calls, sem, signed, sims, proofs>>

\* sign, when committing throws, or sending the commitment: the promise is
\* rejected, but the transaction stays in the queue.
SignFails(g) ==
  /\ g \in SignFailing /\ ~Prompt
  /\ MaySign(g)
  /\ promise' = [promise EXCEPT ![g] = "rejected"]
  /\ LET e == [Entry(g) EXCEPT !.asked = TRUE]
     IN \/ /\ tx' = [tx EXCEPT ![g] = e] /\ UNCHANGED gens
        \/ /\ gens[g] < MaxGen /\ g # Leader
           /\ gens' = [gens EXCEPT ![g] = @ + 1]
           /\ tx' = [tx EXCEPT ![g] = WithCommitment(g, e)]
  /\ UNCHANGED <<turn, calls, sem, signed, net, sims, proofs>>

Reset(e) ==
  [e EXCEPT !.simulatedBag = EmptyBag, !.commitments = NoTx.commitments,
            !.signs = NoTx.signs]

\* handleMyTurn and handleMyTurnForTx: what was gathered is dropped first, then
\* a guard that did not coordinate yet asks all for new commitments.
HandleMyTurn(g) ==
  /\ g = Leader
  /\ calls < IF Prompt THEN 1 ELSE MaxCalls
  /\ calls' = calls + 1
  /\ LET e == Reset(tx[g])
     IN IF ~Queued(g) THEN UNCHANGED <<tx, gens, net>>
        ELSE IF e.coordinator = g
        THEN tx' = [tx EXCEPT ![g] = e] /\ UNCHANGED <<gens, net>>
        ELSE GenerateCommitment(g, [e EXCEPT !.coordinator = g], TRUE,
               net \cup {Msg("generate", g, h, 0, NoRound, FALSE) : h \in Others(g)})
  /\ UNCHANGED <<turn, sem, signed, sims, promise, proofs>>

\* processMessage of a "generateCommitment" message.
HandleGenerate(m) ==
  /\ m.type = "generate"
  /\ \E known \in MayKnow(m.to) :
       GenerateCommitment(m.to, tx[m.to], known, net \ {m})
  /\ UNCHANGED <<turn, calls, sem, signed, sims, promise, proofs>>

\* Mutant: the own commitment is counted twice.
WantedFewer(e) ==
  e.asked /\ e.secret # 0 /\ Cardinality(Committed(e.commitments)) + 1 < Required

\* A commitment is only taken while there are too few.
Wanted(e) ==
  e.asked /\ e.secret # 0 /\ Cardinality(Committed(e.commitments)) < Required

\* The turn was g's at some time since m was sent: m may have come then, and
\* waited for the semaphore since.
CameInTurn(m, g) == \E t \in m.at .. turn : g = t % N

\* Enough commitments: the semaphore is kept while the state context is awaited.
HandleCommitment(m) ==
  LET g == m.to
      e == Entry(g)
      com == [e.commitments EXCEPT ![m.from] = m.n]
  IN /\ m.type = "commit"
     /\ net' = net \ {m}
     /\ \/ g # Leader /\ UNCHANGED <<tx, sem>>
        \/ /\ CameInTurn(m, g)
           /\ Acquired(g)
           /\ tx' = [tx EXCEPT ![g] = IF Wanted(e) THEN [e EXCEPT !.commitments = com]
                                        ELSE e]
           /\ sem' = IF Wanted(e) /\ Cardinality(Committed(com)) >= Required
                     THEN [sem EXCEPT ![g] = [pc |-> "simulate", com |-> com]]
                     ELSE sem
     /\ UNCHANGED <<turn, calls, signed, gens, sims, promise, proofs>>

\* The rest of handleCommitment: the simulation of the guards left out, the
\* own proof, then what the transaction holds by now is sent to those it names.
InitiateSign(g) ==
  LET com == sem[g].com
      r == [by |-> g, k |-> sims[g] + 1, com |-> com]
      now == tx[g].commitments
  IN /\ sem[g].pc = "simulate"
     /\ sem' = [sem EXCEPT ![g] = Free]
     /\ sims' = [sims EXCEPT ![g] = @ + 1]
     /\ tx' = [tx EXCEPT ![g].simulatedBag = r.k,
                         ![g].signs[g] = [n |-> tx[g].secret, round |-> r]]
     /\ proofs' = proofs \cup {[by |-> g, n |-> tx[g].secret, round |-> r]}
     /\ net' = net \cup {Msg("initiate", g, h, 0, [r EXCEPT !.com = now], FALSE) :
                           h \in Committed(now) \ {g}}
     /\ UNCHANGED <<turn, calls, signed, gens, promise>>

\* No state context, for the simulation or for the own proof: the error is
\* logged and the semaphore released.
InitiateFails(g) ==
  /\ NoContext
  /\ sem[g].pc = "simulate"
  /\ sem' = [sem EXCEPT ![g] = Free]
  /\ \/ UNCHANGED <<tx, sims>>
     \/ /\ sims' = [sims EXCEPT ![g] = @ + 1]
        /\ tx' = [tx EXCEPT ![g].simulatedBag = sims[g] + 1]
  /\ UNCHANGED <<turn, calls, signed, net, gens, promise, proofs>>

\* initiateSign: the proof is made with the secret the guard has now.  Without
\* state context the semaphore stays acquired.
HandleInitiate(m) ==
  LET g == m.to
      e == Entry(g)
  IN /\ m.type = "initiate"
     /\ \/ /\ m.from # Leader
           /\ net' = net \ {m} /\ UNCHANGED <<tx, sem, proofs>>
        \/ /\ CameInTurn(m, m.from)
           /\ Acquired(g)
           /\ tx' = [tx EXCEPT ![g] = e]
           /\ \/ /\ e.asked /\ e.secret # 0
                 /\ proofs' = proofs \cup {[by |-> g, n |-> e.secret, round |-> m.round]}
                 /\ net' = (net \ {m})
                      \cup {Msg("sign", g, m.from, e.secret, m.round, FALSE)}
                 /\ UNCHANGED sem
              \/ /\ e.asked /\ e.secret # 0 /\ NoContext
                 /\ sem' = [sem EXCEPT ![g] = Stuck]
                 /\ net' = net \ {m} /\ UNCHANGED proofs
              \/ /\ ~(e.asked /\ e.secret # 0)
                 /\ net' = net \ {m} /\ UNCHANGED <<sem, proofs>>
     /\ UNCHANGED <<turn, calls, signed, gens, sims, promise>>

\* What g assembles is a valid signature if its proofs are those of the guards
\* whose commitments it holds, for these commitments and its simulation.
Fits(g, e) ==
  LET r == [by |-> g, k |-> e.simulatedBag, com |-> e.commitments]
  IN /\ Cardinality(Committed(e.commitments)) >= Required
     /\ e.signs = [h \in Guards |-> IF e.commitments[h] = 0 THEN NoProof
                                    ELSE [n |-> e.commitments[h], round |-> r]]

\* handleSign, whoever's turn it is.  To assemble proofs that do not fit may
\* throw; then the semaphore stays acquired.
HandleSign(m) ==
  LET g == m.to
      e == Entry(g)
      new == [e EXCEPT !.signs[m.from] = [n |-> m.n, round |-> m.round]]
  IN /\ m.type = "sign"
     /\ Acquired(g)
     /\ net' = net \ {m}
     /\ \/ /\ e.asked /\ e.simulatedBag # Undefined
           /\ tx' = [tx EXCEPT ![g] = new]
           /\ IF Cardinality(Signed(new.signs)) < Required THEN UNCHANGED <<sem, signed>>
              ELSE \/ /\ signed' = [signed EXCEPT ![g] = @ \cup {Fits(g, new)}]
                      /\ UNCHANGED sem
                   \/ /\ UnfitThrows /\ ~Fits(g, new)
                      /\ sem' = [sem EXCEPT ![g] = Stuck]
                      /\ UNCHANGED signed
        \/ /\ ~(e.asked /\ e.simulatedBag # Undefined)
           /\ tx' = [tx EXCEPT ![g] = e] /\ UNCHANGED <<sem, signed>>
     /\ UNCHANGED <<turn, calls, gens, sims, promise, proofs>>

\* Mutant: the signed transaction is not verified.
Unverified(valid) == "resolved"

Outcome(valid) == IF valid THEN "resolved" ELSE "invalid"

\* A promise is settled once.
SettledAs(g, outcome) == IF promise[g] = "open" THEN outcome ELSE promise[g]

\* handleSignedTx: the promise is settled and the transaction leaves the queue.
\* The verification throws without the boxes that sign brings, or without state
\* context; then the semaphore stays acquired.
HandleSignedTx(g, valid) ==
  /\ Acquired(g)
  /\ \/ /\ Entry(g).asked
        /\ promise' = [promise EXCEPT ![g] = SettledAs(g, Outcome(valid))]
        /\ tx' = [tx EXCEPT ![g] = NoTx]
        /\ UNCHANGED sem
     \/ /\ ~Entry(g).asked \/ NoContext
        /\ sem' = [sem EXCEPT ![g] = Stuck]
        /\ tx' = [tx EXCEPT ![g] = Entry(g)]
        /\ UNCHANGED promise

\* The end of handleSign: the assembled transaction is handled, then sent.
SendSignedTx(g) ==
  \E valid \in signed[g] :
    /\ HandleSignedTx(g, valid)
    /\ signed' = [signed EXCEPT ![g] = @ \ {valid}]
    /\ net' = net \cup {Msg("signed", g, h, 0, NoRound, valid) : h \in Others(g)}
    /\ UNCHANGED <<turn, calls, gens, sims, proofs>>

HandleSigned(m) ==
  /\ m.type = "signed"
  /\ HandleSignedTx(m.to, m.valid)
  /\ net' = net \ {m}
  /\ UNCHANGED <<turn, calls, signed, gens, sims, proofs>>

\* Mutant: an expired transaction is dropped without a word.
DropPromise(g) == promise[g]

ExpiredPromise(g) == IF tx[g].asked THEN SettledAs(g, "timed out") ELSE promise[g]

\* cleanup of a transaction that is in the queue for too long.
Cleanup(g) ==
  /\ Acquired(g)
  /\ Queued(g) /\ tx[g].createTime + TxTimeout < turn
  /\ tx' = [tx EXCEPT ![g] = NoTx]
  /\ promise' = [promise EXCEPT ![g] = ExpiredPromise(g)]
  /\ UNCHANGED <<turn, calls, sem, signed, net, gens, sims, proofs>>

\* Messages expire: what a turn leaves under way is lost, or late by Slack
\* turns.  A prompt turn lasts until all is handled that can be.
Tick ==
  /\ turn < MaxTurn
  /\ Prompt =>
       /\ Begun
       /\ \A m \in net : sem[m.to].pc = "stuck"
       /\ \A g \in Guards : sem[g].pc # "simulate"
                            /\ (signed[g] # {} => sem[g].pc = "stuck")
  /\ turn' = turn + 1 /\ calls' = 0
  /\ net' = {m \in net : m.at + Slack >= turn + 1}
  /\ UNCHANGED <<tx, sem, signed, gens, sims, promise, proofs>>

Receive(m) ==
  /\ Begun
  /\ \/ HandleGenerate(m) \/ HandleCommitment(m) \/ HandleInitiate(m)
     \/ HandleSign(m) \/ HandleSigned(m)

Next ==
  \/ \E g \in Guards :
       \/ Sign(g) \/ SignFails(g) \/ HandleMyTurn(g) \/ InitiateSign(g) \/ InitiateFails(g)
       \/ SendSignedTx(g) \/ Cleanup(g)
  \/ \E m \in net : Receive(m)
  \/ Tick

Spec == Init /\ [][Next]_vars

\* The timer of cleanup, and the state context that is awaited, come in the end.
FairSpec ==
  Spec /\ \A g \in Guards :
            WF_vars(Cleanup(g)) /\ WF_vars(InitiateSign(g) \/ InitiateFails(g))

-----------------------------------------------------------------------------
TypeOK ==
  /\ turn \in Nat /\ calls \in Nat
  /\ tx \in [Guards -> TxQueued]
  /\ sem \in [Guards -> [pc : {"free", "simulate", "stuck"}, com : [Guards -> Nat]]]
  /\ signed \in [Guards -> SUBSET BOOLEAN]
  /\ net \subseteq Message
  /\ gens \in [Guards -> Nat] /\ sims \in [Guards -> Nat]
  /\ promise \in [Guards -> {"none", "open", "rejected", "resolved", "invalid", "timed out"}]
  /\ proofs \subseteq [by : Guards, n : Nat, round : Round]

\* The promise sign returned is settled before its transaction leaves the queue,
\* whatever is lost, late or fails (handleSignedTx, cleanup).
OpenPromiseQueued == \A g \in Guards : promise[g] = "open" => Queued(g) /\ tx[g].asked

\* A leader only puts together proofs that belong together: "collects partial
\* proofs and signs the transaction when all proofs are collected"
\* (MultiSigHandler.ts:502).
ProofsFit == \A g \in Guards : FALSE \notin signed[g]

\* What a guard takes for signed was signed by enough guards that were asked to,
\* each with the secret it had committed to, in one round: a refinement of
\* SharedTx (handleCommitment, initiateSign, handleSign, handleSignedTx).
Shared == INSTANCE SharedTx WITH
  asked <- {g \in Guards : promise[g] # "none"},
  resolved <- {g \in Guards : promise[g] = "resolved"}

Implements == Shared!Spec

\* Whatever happened before, a turn at its best is enough: if all guards have
\* the transaction and no call is in progress as that turn begins, all have it
\* signed when the turn ends (handleMyTurnForTx drops all that is stale).
\* This needs two signers or more: one alone never initiates (handleCommitment).  And
\* TxTimeout < N: a guard that led the transaction when it last committed asks nobody
\* when its turn comes again (coordinator).
Recovers ==
  [](/\ turn = PromptFrom /\ calls = 0 /\ net = {}
     /\ \A g \in Guards : promise[g] = "open" /\ sem[g] = Free /\ signed[g] = {}
                        /\ tx[g].createTime + TxTimeout >= turn
     => [](turn > PromptFrom => \A g \in Guards : promise[g] = "resolved"))

\* "cleaning unsigned transaction after txSignTimeout if the transaction still
\* exist in queue" (MultiSigHandler.ts:677).
CleanedUp ==
  \A g \in Guards :
    Queued(g) /\ tx[g].createTime + TxTimeout < turn ~> ~Queued(g)
=============================================================================
