# Verification of the sign-protocols

TLA+ models of the protocols in this repository, the TLC runs that check them on
small instances, and TLAPS proofs for every value of the constants. Line numbers
are those of the sources named with them; `TssSigner.ts` is
`src/packages/tss/lib/tss/TssSigner.ts`.

## The system

A set of guards holds the shares of a threshold key. When the guards' application
wants a message signed it asks its own guard; the guards agree over a p2p network
on who takes part, and each hands the ceremony to a local process, tss-api, that
runs it with its peers. Ergo transactions have a protocol of their own
(multi-sig). A service beside tss-api carries the messages of key generation.

| Component | State | Operations | Interacts with |
|---|---|---|---|
| TSS signing protocol (`packages/tss`) | signing queue, requests put aside, signature cache, threshold, last round, two mutexes | `sign`, `update` (timer), handlers of request, approve, start, cached, `handleSignData`, POST failure | Communicator (messages), detection (`activeGuards`, `register`), tss-api (HTTP, callback) |
| Communicator (`packages/communication`) | list of guards' keys, cached own index | `sendMessage`, `handleMessage`, `changePks` | base class of signer, detection and multi-sig |
| Guard detection (`packages/detection`) | per guard: peer id, nonces, last update, callbacks | `init`, `update`, register, approval and heartbeat handlers, `register`, `activeGuards` | Communicator; answers the signer |
| Ergo multi-sig (`packages/ergo-multi-sig`) | map of transactions with commitments, secrets and proofs, semaphore | `sign`, handlers of generateCommitment, commitment, initiateSign, sign and signedTx messages, `handleMyTurn`, `cleanup` | Communicator, detection |
| tss-api operations (`services/tss-api/app`, Go) | channel map, operation maps, per operation the error, status and party channels | start of sign and keygen, gossip, timeout, end | signer (HTTP, callback), other tss-apis |
| tss-api controller, storage, connection | files, HTTP | routes | operations |
| Keygen dialer (`services/keygen-service/src/communication`) | libp2p node, message queue with retries, relays | send, retry, reconnect | tss-api, relays |
| Keygen process control | the tss process, trust key | restart, wait for peers, keygen | tss-api, dialer |
| Encryption (`packages/encryption`) | none | sign, verify | Communicator |

What is hard:

* Guards disagree: about who is active, under which peer id, about the message
  being queued at all, about whether an earlier ceremony succeeded.
* Messages are lost, repeated, late or overtaken. They carry a timestamp and
  expire, and most of them only count in the turn of the guard that leads.
* Handlers are async functions interleaved at their awaits. Most reads of the
  queue are made without the mutex; a mutex may be held across an HTTP call.
* Entries time out, are queued again, and the outcome of the former ceremony may
  come late. Guards restart while their tss-api runs on.
* tss-api runs goroutines around unbuffered channels and unlocked maps.
* A multi-sig round consists of secrets that may be renewed, and of proofs that
  say nothing of the round they belong to.
* The dialer's streams, connections and relays come and go under its messages.

What makes each component correct: a ceremony is started with the same peers by
everybody, only by guards that agreed to that request, by enough of them, once
(signing); no handler blocks the others, no entry is lost silently (signing
queue); a guard is listed as active only under the peer id from which it answered
a fresh nonce (detection); proofs and commitments of one transaction belong to the
same round, and its promise is settled (multi-sig); an operation ends, calls
its caller, and frees its message (tss-api); a message is sent at most once, or dropped
after its retries (dialer). `PROJECT.json` lists each hazard at its line.

## Modules

`Ceremony.tla` is the abstract specification: requests are made, guards agree to
requests, a request's ceremony is started once by its initiator with enough peers
that agreed, and joined with the same peers. It has no turns, queues, messages or
clocks.

`TssSigner.tla` is the protocol of `N` guards. A handler of `TssSigner.ts`, with all it
calls, is one action, but for the two that check the turn and act after an await,
`update` and `handleStartMessage`: they are split there.

| Action | Code |
|---|---|
| `SignMsg` | `sign`, with the request that waited for it |
| `UpdateCleanup`, then `UpdateThreshold`, then `UpdateRequest` | `update`: cleanup and the check of the turn; the threshold and the active guards; the requests, in whosever turn it is by then |
| `ReceiveRequest`, `Registered` | `handleRequestMessage`, directly and as the callback of `detection.register` |
| `HandleApprove` | `handleApproveMessage`, with the start message and the POST |
| `HandleStart`, then `Join` | `handleStartMessage`: the checks of the turn and of the approvals; the POST, once the mutex is free |
| `HandleCached` | `handleSignCachedMessage` |
| `HandleSignData` | `handleSignData`, called back by tss-api |
| `PostFails` | the error handler in `startSign` |
| `ResultLost` | the call that reports an outcome fails (`errorCallBackCall`) |
| `CacheExpires`, `Crash`, `Tick` | timers, restarts, the clock |

The messages sent stay in four growing sets, from which a handler may take any
fresh one, at any time, any number of times or never: loss, repetition, delay and
reordering need no actions of their own. A signature is the record of what it
signs, so a guard's approval exists only if it was sent. What detection answers is
a constant, `Views[g]`: any answer of the set may be given at any call. The
variable `posts` is the history of ceremonies handed to tss-apis; `running` are
those that have not reported; `updating` and `joining` hold the split handlers that
wait. `handleRequestMessage` reads the active guards twice and may find others the
second time. Clocks agree; a restart loses all of a guard's
memory, but neither its tss-api nor the messages under way.

`SignQueue.tla` is one guard, with the same handlers split at their awaits. A
handler is a task with a program counter and the local variables it keeps across
awaits; the mutexes are queues of the tasks that hold and await them; an entry
removed from an array is still held by the tasks that looked it up before. The
other guards, tss-api and the application are its environment. An await of the
injected parts (encryption, detection, HTTP) may last arbitrarily long; the grant
of a free mutex lasts no longer than the current turn of the event loop (`Quiet`).

`GuardDetection.tla` is the detection of `N` guards, one action per method
(`init`, `update`, `register`) and per message type. A guard's peer id is the guard
and the number of its restarts, so an answer of a former life can be told from one
of the present. With `Prompt`, time only passes once every message has been
received and every guard's `update` has run: this is the network in which guards
must find each other. Without it messages come in any order, late, repeated or
never. `update` is atomic: the awaits between its heartbeats are left out. Clocks
count seconds, as `getDate` does; a nonce's own time has a fraction (`Valid`).

`SharedTx.tla` is the abstract specification of multi-sig: applications ask their
guards to sign, guards that were asked give proofs, and a guard takes the
transaction for signed if enough guards gave the proofs of one round. A round is
the commitments and the simulation of the guards left out. There are no turns,
messages, queues or timeouts.

`MultiSig.tla` is the multi-sig protocol of `N` guards about one transaction:

| Action | Code in `MultiSigHandler.ts` |
|---|---|
| `Sign`, or `SignFails` | `sign`, with `generateCommitment`, which may throw: the promise is rejected, the transaction stays |
| `HandleMyTurn` | `handleMyTurn`, `handleMyTurnForTx` |
| `HandleGenerate` | `generateCommitment`, asked for by a message |
| `HandleCommitment`, then `InitiateSign` or `InitiateFails` | `handleCommitment`, before and after it awaits the state context |
| `HandleInitiate` | `initiateSign` |
| `HandleSign`, then `SendSignedTx` | `handleSign`, up to and from its call of `handleSignedTx` |
| `HandleSigned` | `handleSignedTx`, of a message |
| `Cleanup` | `cleanup` |
| `Tick` | the clock, in turns; messages that expire |

A handler holds the semaphore to its end, so it is one action,
except where others may change the transaction all the same: the turn's methods and
`generateCommitment` take no semaphore, and run while `handleCommitment` awaits.
The turn is checked before the semaphore is awaited: a message is processed if the turn
was right at any time since it was sent (`CameInTurn`).
The semaphore of a guard is free, held by that call, or stuck: acquired by a call
that threw, be it `handleSignedTx`, `initiateSign` or the assembly of proofs in
`handleSign`. A promise is settled once (`SettledAs`). A secret, with its commitment, is a number, 0 if there is none; a
proof is the number of the secret and the round it was made for. What `handleSign`
assembles is valid if it has just the proofs of what the guard then holds (`Fits`):
this stands for the sigma protocol's verification. Constants say how bad the network
may be: `Slack` turns that messages outlive their own, whether a guard knows the
turn's guard to be active (`Known`), whether the state context may fail, whose `sign`
may fail (`SignFailing`), whether the assembly of proofs that do not fit throws or gives
an invalid transaction (`UnfitThrows`), and from which turn on all is well
(`PromptFrom`). `SignAgain` says after which outcomes the
application calls `sign` again.

`Delivery.tla` is what the keygen service promises of messages: each is posted at most
once to each application, and not after it was given up. `Dialer.tla` is the service's
dialer (`Dialer.ts`): its identity and the file that keeps it, the message queue with
its retries, the loop that opens a stream for one message at a time, the streams and
the sources they read from, subscribers, the address book, and the intervals that
bring a relay back. The other end of a stream is part of the module, since a
message's effect is there. What libp2p does (streams that break, peers that connect,
disconnect, are discovered) are actions of its environment. The growing delays of
retries are not modelled: a retry may come at any time.

`KeygenService.tla` composes the dialer with the process control: the tss binary
and its restarts (`Tss.runBinary`), the wait for the peers and the call of keygen
(`Tss.tryCallApi`), and the death of the process, which forgets all but the files.
The API is served, and keygen called, after the dialer's start was awaited
(`index.ts`), so a second `getInstance` never overlaps the first.

`TssOperation.tla` is one tss-api process: its operations, keygen and signs, each
with the loop of `StartAction`, the goroutines of gossip, end message, party update
and timeout, and the channels between them. A send on a channel without buffer is a
state of the sender, which the receipt ends. The maps are shared by all operations.
Go's panics (a send on a closed channel, the close of a closed or nil one) end the
process, which is started again. The rounds of tss-lib are not modelled: a party
may end or refuse a message at any time, or never. The HTTP call that tells the caller
may fail: of a success, the failure of that call is told instead; of a failure, the
second failure is only logged (`calls`). `TssSigner` and `SignQueue` use as their
environment what these operations do: one at a time for each message, which reports
once or not at all.

The modules `MC*.tla` give the instances that TLC checks. `CeremonyProofs`,
`TssSignerProofs`, `TssRoundProofs`, `SignQueueProofs`, `GuardDetectionProofs`,
`MultiSigProofs`, `KeygenServiceProofs` and `TssOperationProofs` hold the proofs.

A `Mutant` operator stands just before the definition it changes: it is that code
with a plausible mistake, and shows that a property would notice it. Nothing uses
it.

## What the runs check

`TssSigner`: one message, two of the guards needed, messages that live 1 s. Three guards
are the fewest for which guards can disagree about a third and a quorum of 2 can leave one
out; for turns, faults and caches two guards do. The first turn ends before `MaxTime` in
both runs, so that requests are made, start messages arrive and guards join late.

| Run | Bounds | Shows |
|---|---|---|
| `TssViews` | three guards; guard 0 may have lost sight of guard 1, guard 2 may hold a former peer id of guard 0; turns of 2 s with 1 s no-work time, from 3 s to 5 s; entries live 2 s, so that an entry times out and its message is queued again | `SamePeers`, `StartedTogether`, `RoundLimit`, `OneCeremony`, `Implements`, `TypeOK` |
| `TssFaults` | two guards; turns of 1 s, from 1 s to 3 s; entries live 4 s; one restart, failed POST, failed or unreported ceremony, or expired signature | `PeersAgreed`, `AcceptedInRound`, `CacheSigned`, `QuorumStart` |

`SignQueue`: two guards, threshold 2, three rounds. Handlers are interchangeable,
and so are messages, hence the symmetry in the runs of safety properties. Races
here need at most a queued entry, an update, an answer and one handler in its way.

| Run | Bounds | Shows |
|---|---|---|
| `QueueSteps` | any five handlers, at most two of a kind, two messages | `PostedOnce`, `StartCarriesQuorum`, `StarterStarts`, `HandlersGoOn`, `NoSilentLoss`, `TypeOK` |
| `QueueDuplicates` | `sign` called while it waits | violation of `NoDuplicates` |

`GuardDetection`: the timeouts keep the proportions of the defaults (a guard is
active for twice the time after which its heartbeat is due; a message is valid for
no longer than that).

| Run | Bounds | Shows |
|---|---|---|
| `DetectionPeers` | two guards, one restart and two nonces each, 4 s: an answer from before a restart comes after one from after it | `ActiveAlive`, `PeerForward`, `NobodyWaits`, `TypeOK` |
| `DetectionActive` | three guards, prompt, three heartbeat periods | `AllRegistered`, `EnoughActive`, `StaysActive` |
| `DetectionFew` | three guards, prompt | violation of `RegistersWhenFew` |

`AllRegistered` is about guard 0 and each other guard: two guards other than 0 may
miss each other for the reason that `DetectionFew` shows. `EnoughActive` says for how
long: until the nonces of the first second have timed out.

`MultiSig`: three guards of which two have to sign, so that a round can leave out
any guard and a guard can be in two rounds; three turns, so that each guard leads
once; three commitments per guard (the application's, the leader's request, one more);
transactions that live one turn.

| Run | Bounds | Shows |
|---|---|---|
| `MultiSigRounds` | turn 0 may go wrong in any way: messages lost, reordered, or late by a turn, guards that do not know the leader, no state context, a `sign` of guard 2 that fails, an assembly that throws; turns 1 and 2 go well; `sign` is called again after a timeout | `Implements`, `OpenPromiseQueued`, `Recovers`, `TypeOK` |
| `MultiSigInvalid` | nothing goes wrong, messages are only reordered within their turn | violation of `ProofsFit` |
| `MultiSigStuck` | the same | violation of `CleanedUp` |

`KeygenService`: two listeners and a relay, one application at each guard, one retry, two
messages, one fault (a stream, a connection, the binary or the process). With two
messages one can overtake the other, be left in a source of a former stream, or be
retried behind it; one fault is what each property has to survive, and the retry of
the second message needs no fault at all.

| Run | Shows |
|---|---|
| `KeygenService` | `Implements`, `NoSilentLoss`, `Settles`, `RelaysWatched`, `IdentityKept`, `KeygenCalled`, `TypeOK` |

`TssOperation`: one sign and a keygen, two operations in all, two messages, a channel
for one message. Two operations of one id, one after the other, are what a timer or a
goroutine of the first needs to meet the second; the second message is the one that
waits for room.

| Run | Shows |
|---|---|
| `Operations` | `OneOperation`, `CallerCalled`, `Ends`, `TypeOK` |

Deadlock is not checked where the model stops at its bounds: `GuardDetection` at
`MaxTime` or when its nonces are used up, `SignQueue` when all its handlers have ended
and the last round is over (that none is stuck before is `HandlersGoOn`), `MultiSig`
after `MaxTurn`, `KeygenService` when its messages are settled and its faults are
spent, `TssOperation` when its operations have ended. It is checked in `TssSigner`.

Fairness:

* `MultiSig` (`FairSpec`): the timer of `cleanup` fires, and the state context comes
  or fails. Only `CleanedUp` uses it, and is violated nevertheless: the cleanup that
  waits for a stuck semaphore is not enabled.
* `KeygenService`: timers fire, dials end, streams carry what they are given unless
  they break, and libp2p finds and dials peers. `Settles` needs the first three;
  `KeygenCalled` all of it. Faults are not fair; nor are callers.
* `TssOperation`: goroutines that can go on do, timers fire, and what panics does. The
  parties of tss-lib, messages and callers need not do anything: `Ends` rests on the
  timer alone.
* `SignQueue`: started handlers go on (the event loop starves nobody) and an HTTP call
  ends. No run checks a property that needs it: `HandlersGoOn` is about
  what is enabled, since the number of steps of a handler is bounded.

No liveness is claimed of signing or of detection as a whole: the code promises none
when messages can be lost. `Recovers`, `AllRegistered` and `EnoughActive` say what happens
when they are not.

Some properties hold only under a condition, which their comments name:

* `AcceptedInRound` needs messages to expire before the sender's next turn
  (`MessageValid <= (N - 1) * TurnDuration`; by default 60 s against 60 s per other
  guard). It says nothing of requests that `update` made after its turn, and it is about
  the check: that a guard also joins in the round is not true of the code, which awaits
  the mutex after the check while another message's POST may hold it.
* `CallerCalled` counts a call that failed: the caller may have been told nothing.
* `OneCeremony` is about one life of a guard: after a restart the tss-api still
  runs the former operation, and refuses the message until it ends. It also needs
  ceremonies to be started before the end of their own time (`InTime`): cleanup takes
  an entry out at its timeout, but only when the timer fires, and until then a start
  message may still hand it to tss-api.
* `RoundLimit` counts the requests since the guard's last restart: a guard that
  restarts may use its limit again in the same round.
* `NoSilentLoss` counts an entry that timed out as lost loudly: `cleanup` drops it
  without calling its callback.
* `QuorumStart`, and the refinement of `Ceremony`, need GET /threshold not to fail before
  it ever succeeded.
* `NoSilentLoss` of `SignQueue` needs that the application does not call `sign` of a
  message while another such call waits for the mutex (`Overlapping`): otherwise a
  message is queued twice, and the answer to one entry removes both. The others of
  `QueueSteps` are proved without this.
* `AllRegistered` needs that a guard needs all guards (`NeedGuard = N`, as in its run): one
  that has found enough others asks nobody, so with fewer guard 0 may hear of nobody
  that it does not need.
* `Recovers` is about a turn that begins with nothing under way and no semaphore
  held, at guards which all have the transaction. It needs two signers or more: a
  leader whose own commitment is enough never initiates, since `handleCommitment` only
  counts those of others while some are missing. And it needs transactions to live for
  less than `N` turns (`TxTimeout < N`; turns take three minutes): `handleMyTurnForTx`
  drops all commitments, but asks for new ones only if `coordinator` is another guard, and
  it is still the guard itself when nobody asked it for a commitment since its former turn.
  With two guards, `TxTimeout = 2` and `PromptFrom = 2` TLC finds a good turn without a
  signature.
* `IdentityKept` assumes that the peer id is written to its file within the ten
  seconds that keygen is delayed for.
* `KeygenCalled` is about a node that runs, and counts a call that was refused.
* `Ends` leaves out the operation that sends an error to itself (`stuck`, below).

## Disagreements found

The runs that end in a violation, each with its lines in `PROJECT.json`:

1. `sign` of the TSS signer refuses a queued message, but looks before it waits
   (`QueueDuplicates`).
2. The nonce made for guard 0 is given to all guards, so a guard that answers guard
   0 asks nobody else to register until it expires (`DetectionFew`).
3. A guard that commits twice proves with its second secret, while the leader counts on
   the first: the leader assembles an invalid transaction and rejects its caller's
   promise, though nothing failed (`MultiSigInvalid`). `Implements` shows that it
   never passes for a signed one.
4. The semaphore of a guard stays acquired when the signed transaction reaches it before
   its application calls `sign`; all later handlers, and `cleanup`, wait for ever
   (`MultiSigStuck`).

Others are in the models as the code has them, without a run of their own:

* When GET /threshold fails before it ever succeeded, the threshold is -1 and any
  number of guards is "enough".
* A request that arrives while `sign` queues its message can be put aside after
  `sign` looked there: nobody answers it in that turn.
* `update` of the signer sends a request before it records it; while a POST holds the
  mutex, the approvals of a second request are dropped. It checks the turn, then awaits
  tss-api, and may make its requests in the next guard's turn. `handleStartMessage` does
  the like: the guard may join after the round.
* When the call that tells of a failure fails, tss-api logs it and forgets the
  operation (`rosenTss.go`:57-62): the signer's entry stays posted until it times out.
* `handleApproveMessage` of detection tells all who wait in `register` of success,
  also those that asked for another peer id.
* The controller of tss-api looks for running keygens among the signs, and for running
  signs among the keygens (`controller.go`:44-89): it never finds the other kind.
* `CreateParty` sends its error to a channel without buffer whose only receiver is the
  goroutine that sends: the operation hangs, and its message is refused as
  duplicated until the process ends.
* `StartNewSign` leaves the channel of an operation it refuses in the map. If the timer
  was started, it then blocks on a channel that nobody reads.
* When the tss binary is down at the one call of keygen, the error is logged and
  keygen is not called again.

## What is proved

### TSS signing

For any number of guards, messages, views and times, from the assumptions of
`TssSigner.tla` (sizes and times are naturals, a guard's view contains itself and
no guard twice, `None` is not a signature):

| Theorem | States |
|---|---|
| `TypeCorrect` | `[]TypeOK` |
| `AgreedPeers` | `[]PeersAgreed` |
| `PeersMatch` | `[]SamePeers` |
| `Together` | `[]StartedTogether` |
| `Quorum` | `[]QuorumStart`, if GET /threshold does not fail |
| `Refinement` | `Implements`: the protocol implements `Ceremony`, on the same condition |
| `CeremonySafe` | the abstract ceremony is safe |

None of these is inductive. `SamePeers`, for instance, breaks if an entry's
request could be followed by two different start messages, or if a start message
could carry an approval nobody sent. The inductive invariant `IInv` adds:

* `SigsSaid`: a signature kept in an entry or carried by a start message was sent
  as an approval, or is its signer's own on its own request;
* `RequestsMade`, `PostsMade`: what approvals, waiting answers, requests put aside
  and posts call a request was requested, and nobody answers its own;
* `OwnRequest`, `RequestsPast`: an entry's request is its guard's own; none is of
  the future, and a guard makes one batch of them per second;
* `StartsFollow`, `StartedOnce`: a start message follows the initiator's own post,
  with the peers of its signatures, and an entry that is still to be posted has a
  request that has not started;
* `JoinsReceived`: the start message that a waiting guard acts on was sent, to it.

`QuorumStart` needs besides that a guard which makes requests knows the threshold
if GET /threshold does not fail (`ThresholdKnown`, an invariant of its own).

`TssRoundProofs` is about rounds, running ceremonies and caches:

| Theorem | States |
|---|---|
| `RoundLimitHolds` | `[]RoundLimit`, through any restarts |
| `AcceptedInRoundHolds` | `AcceptedInRound`, if `MessageValid <= (N - 1) * TurnDuration` |
| `OneCeremonyHolds` | `[]OneCeremony`, if `ResponseDelay > 0` (5 s by default) |
| `CacheSignedHolds` | `[]CacheSigned` |

* `RoundInv`: requests are not of the future; no
  request of this life belongs to a round after `lastRound`, so the batch of a new round
  is the first of it, and its size is cut to the limit.
* `AcceptedInRound` follows from `IInv` and arithmetic: two times in the
  turns of one guard, closer than the turns of the others last, are in one round
  (`RoundMonotone`, `ModApart`).
* `RunningInv`: the entry of a running ceremony stays in the queue, posted, until the
  ceremony's time is up, and while it is there nothing else of the message is started.
* `CacheInv`: a signature that is under way or cached comes from a complete ceremony.

Each step of the proof takes one action and shows each conjunct that the action can
disturb; the lemmas on the helpers (approved guards, requested entries, the queue
after cleanup) are stated once. TLC checked every conjunct on the instances above
before it was proved.

### Signing queue

For any number of guards, messages and handlers, any quotas, limits and timeouts, in any
order of their steps (`SizeAssumption` and `NoneAssumption` of `SignQueue.tla`):

| Theorem | States |
|---|---|
| `BaseInvariant`, `TypeCorrect` | `[]BaseInv`, `[]TypeOK` |
| `PostedOnceHolds` | `[]PostedOnce` |
| `StartCarriesQuorumHolds` | `[]StartCarriesQuorum` |
| `StarterStartsHolds` | `[]StarterStarts` |
| `NoSilentLossHolds` | `NoSilentLoss`, if calls of `sign` do not overlap |
| `NoDuplicatesHolds` | `[]NoDuplicates`, on the same condition |
| `SomebodyGoesOnHolds` | `[]SomebodyGoesOn`: while a handler is under way, one can go on |

`NoDuplicates` is what `sign` promises, and what `QueueDuplicates` refutes without the
condition. `BaseInv` is what a handler relies on after an await: the entry it found is
still an entry of its message (`HandlerOK`), and the mutex has one holder, the first of
its queue, in which everybody who awaits it stands once (`LockInv`). From it follows
that nobody else changes the queue or an entry while a handler holds the mutex
(`HolderAlone`). On it rest three invariants:

* `PostInv`: what was handed to tss-api is marked, and the mark stays.
* `QuorumInv`, `StartInv`: from the count of the approvals to startSign the counted
  entry keeps its request and its approvals, and can be found.
* `LossInv`: a message is queued or about to be queued at most once; who is about to
  remove its entries removes an answered one (`RemovesAnswered`), and stands in the
  mutex's queue before a later `sign` of the message (`RemovesFirst`): without that order
  the removal by message would take the new entry.

`SomebodyGoesOn` says with the conditions of the steps what `HandlersGoOn` says with
`ENABLED`. It rests on `LockInv` and its like for the other mutex, `PendInv`: everybody
who awaits a mutex is in its queue, and the first of a queue, or who works under the
mutex, awaits no other one.

`filter` is `Kept`, by position and not recursive, so that what it keeps can be proved
(`KeptFacts`).

### Guard detection

For any number of guards, restarts, nonces and timeouts, in the network that loses,
repeats and delays messages as well as in the prompt one:

| Theorem | States |
|---|---|
| `TypeCorrect` | `[]TypeOK` |
| `ActiveAliveHolds` | `[]ActiveAlive` |
| `NobodyWaitsHolds` | `[]NobodyWaits` |
| `PeerForwardHolds` | `PeerForward` |
| `StaysActiveHolds` | `StaysActive`, in the prompt network |
| `EnoughActiveHolds` | `[]EnoughActive`, in the prompt network |
| `AllRegisteredHolds` | `[]AllRegistered`, in the prompt network, if `NeedGuard = N` |

`DetectionInv` adds to the first four who sent which message when (`SentBefore`), that the nonces
that messages carry have been made (`NoncesMade`), what a known peer id that was given up
says about time (`KnownBefore`), and the fact behind `PeerForward`, `AnswersLater`: an
answer to a nonce that still counts is no older than what is known of its sender. The
operator `Exchange` says once what a handler may do to a guard's record and to the
messages; a lemma for each handler shows that it does no more.

The prompt network (`PromptNetwork`) is that of the run for any number of guards: messages
arrive within the second, nobody restarts or calls `register`, and a guard needs two to `N`
guards. The timeouts are in the proportions of the defaults (60 s, 60 s, 120 s): a message is
valid for no longer than the time after which a heartbeat is due, and a guard stays active
for more than a second longer than that. The clocks agree, and all guards start in one second. Its
invariant has two halves:

* `SecondInv` is about the messages of one second, whose exchanges cross in any order. A
  nonce counts until its guard has answered (`NonceKept`), an answer that was received has
  made its nonce worthless (`AnsweredOff`), and whoever was sent a nonce answers it
  (`AskAnswered`), or, if it came with an answer, unless it was heard of otherwise
  (`OfferAnswered`). That an exchange cut short by another one leaves nobody unknown rests on
  each guard asking another at most once in a second, and being given one nonce for each
  that it sent (`AskedOnce`, `OfferedOnce`). Hence the lemma `TickFresh`: when the
  second is over, everybody who was sent a nonce has just been heard of.
* `TimeInv` is about the seconds. Guards are asked to register in the first second, and in
  the one in which its nonces have timed out (`CallsInTime`): before that a guard that finds
  too few is kept from asking by them (`OwnBlocked`, `OthersBlocked`), and then it asks all.
  Nothing that is known gets older than the time of a heartbeat and a second
  (`KnownInTime`). This is where the nonce meant for guard 0, which counts for all guards,
  could do harm: a heartbeat is not sent while such a nonce counts. It is sent after all,
  since what a guard knows of 0 and of another guard falls due in step (`AllInStep`):
  together with that of 0, or after its nonce has timed out.

`FormerNonce` and `PresentNonce` say which nonces count, `ZeroAsks`, `BothKnown` and
`ZeroKnown` how guard 0 and the others come to know each other. `Handles` and `Asks`
say once what a handler and `update` do to nonces and messages, `Orderly` what any step does
in its second. The simulation of random behaviours with other sizes and timeouts, up to
four guards, found no violation of either half before they were proved.

### Multi-sig

For any number of guards and turns, any `Slack`, `Known`, `ContextFails`, `SignFailing`,
`UnfitThrows` and `PromptFrom`, from `SizeAssumption` and `SignAgainAssumption` of `MultiSig.tla`:

| Theorem | States |
|---|---|
| `TypeCorrect` | `[]TypeOK` |
| `PromiseKept` | `[]OpenPromiseQueued` |
| `Refinement` | `Implements`: the protocol implements `SharedTx` |
| `RecoversHolds` | `Recovers`, if `Required \in 2 .. N` and `TxTimeout < N` |

The inductive invariant `Inv` adds three facts. `Asked`: a transaction that was asked
for is in the queue, its promise open or rejected by a failed `sign`, and it stays while the state context is awaited (the
semaphore keeps `cleanup` and `handleSignedTx` away). `Given`: proofs that a guard
holds, or that are under way, were given, by the guard they are attributed to.
`Backed`: what passes for a valid transaction, at the guard that assembled it or in a
message, comes from a complete round. The refinement needs all of them: `Fits` gives a
complete round from `Given` (`FitsComplete`), the resolving step finds it by `Backed`, and
only who was asked proves or resolves by `Asked`.

`Recovers` looks from the beginning of a turn, after any past, to all that follows. Its
premise and two invariants give `Beginning`: `LedInv` says that a coordinator took the
lead of its transaction in a turn of its own since the transaction was queued, so with
`TurnsApart` the guard of this turn, which had none since then, is not yet its
coordinator. From there on `Recovering` is inductive. `GoodTurn` names the phases of the
leader: `Gathering` commitments, `Simulating` with exactly `Required` of them,
`Collecting` proofs, `Ending` with the transaction signed. What makes a phase lead to
the next is that nothing gets lost: who has not committed is asked, or its commitment is
under way (`Commits`), and the same of proofs (`Signs`). What makes the proofs fit is that
nobody commits twice in the turn (`Fresh`; `MultiSigInvalid` shows what happens
otherwise), so that the secret of each guard is the one the round counts on (`Joined`,
`OfRound`). When the turn ends nothing is under way, which contradicts each phase but the
last (`TickGood`). TLC checked `LedInv`, and that each step keeps `Recovering`, with three
guards and four before they were proved.

### Keygen service

For any listeners, relays and applications, retries and faults, if no listener is a relay
and there are finitely many of them:

| Theorem | States |
|---|---|
| `TypeCorrect` | `[]TypeOK` |
| `IdentityStable` | `[]IdentityKept` |
| `RelaysNeverForgotten` | `[]RelaysWatched` |
| `Refinement` | `Implements`: the dialer implements `Delivery` |
| `NoSilentLossHolds` | `NoSilentLoss` |

`IdentityKept` is not inductive: `Identity` adds that the node is who the file says and
that a guard is only ever named after the file was written. `RelaysWatched` needs that
before the start relays have addresses and nobody is connected.

The last two rest on `DeliveryInv`. A message is in one place, and there once
(`OnePlace`): else carrying it would not end its way, and it could be posted again.
What is on its way nobody got yet, and identifiers are never used again (`Fresh`). An open
stream is the one its source belongs to (`SourceOfStream`): what a new stream carries was
given to it and not to the former one. And no application subscribed twice
(`SubscribedOnce`). The lemma `NextEffect` says of every step what it does to the messages
on their way: it accepts or moves some, carries one, or loses some for a reason that is
seen. Both theorems follow from that alone.

### tss-api operations

For any operations, messages and sign requests, if keygen's id is none of a sign:

| Theorem | States |
|---|---|
| `TypeCorrect` | `[]TypeOK` |
| `SingleOperation` | `[]OneOperation` |
| `CallerCalledHolds` | `[]CallerCalled` |

The invariant adds to `CallerCalled` that the caller has been called before the loop is
told, or left (`Called`). The lemma `OneChanged` takes care of all steps that change one operation only.

### Only model-checked

What the prover does not do: liveness (`Settles`, `KeygenCalled`, `Ends`, `CleanedUp`),
and `ENABLED` (`HandlersGoOn`, of which `SomebodyGoesOn` is the provable form).
All other invariants, action properties and refinements that
the passing runs check are theorems above.

## Not modelled

* Cryptography, serialisation, logging and configuration; the derivation path and
  chain code, which are passed through. The byte formats of `MultiSigUtils`, and its two
  compare functions, which nothing calls.
* Clocks that differ between guards. A change of the guards' keys (`changePks`), which
  no code in the repository calls on a running handler.
* A failure of the encryption library inside the signer's `update`, which would leave the
  mutex held.
* Several transactions in one multi-sig queue: they share nothing but the semaphore, so
  what stops one stops all.
* The awaits inside the other handlers of `TssSigner` (`SignQueue` splits them all, for one
  guard), a second copy of a start message that comes while the first waits, and an
  `update` called while another one of the guard waits.
* In multi-sig, the awaits of `handleCommitment` between its simulation and its message
  (326, 350, 370), which are one step, and those inside `generateCommitment`.
* An operation of tss-api that reports a failure and then a success: in `TssSigner` a
  ceremony reports at most once. HTTP calls of tss-api are assumed to return, although its
  client sets no timeout (`connection.go`:43), and the check and set of the map of
  channels (`rosenTss.go`:148-151) to be one step.
* The inner `catch` of the dialer's `openStream` (`Dialer.ts`:941-945): it would drop the
  message without a retry, but neither getting a source nor pushing to it throws.
* Messages that a guard sends to itself: detection and the multi-sig handler leave
  themselves out.
* The rounds of tss-lib, and the data race on the maps of tss-api (an unsynchronised map
  may end the process, as a panic does).
* HTTP validation, storage and configuration of tss-api, but for the controller's check of
  running operations.
* libp2p, but for what it may do to connections, streams and addresses; the logging
  intervals and read-only routes of the keygen service; the trust key of the tss binary,
  which the service only hands over.
* `packages/encryption` and the abstract interfaces: pure functions around libraries.

## What is left

* `GuardDetection`: the awaits of `update`; the views of `TssSigner` as an abstraction of
  it.
* The deadline that `TssSigner` assumes of ceremonies (`Tick`), as a property of
  `TssOperation` with a clock.
* Two transactions in the queue of `MultiSig`.
