----------------------------- MODULE SignQueue -----------------------------
(***************************************************************************)
(* One guard's TssSigner, with its handlers split at their awaits.         *)
(*                                                                         *)
(* Calls of the application, messages, tss-api's answers and the update    *)
(* timer start handlers, here tasks, which run concurrently: between two   *)
(* awaits a task runs alone, at an await any other task may run.  The      *)
(* queue is protected by signAccessMutex and the requests kept for later   *)
(* by pendingAccessMutex, but most reads are made without them.            *)
(*                                                                         *)
(* Unlike in TssSigner.tla, an object removed from an array is still held  *)
(* by the tasks that found it there before; an object is named after the   *)
(* task that created it.  Time is counted in rounds, all guards are active *)
(* and know each other, and a request is told by its message and round.    *)
(***************************************************************************)
EXTENDS Integers, Sequences, FiniteSets

CONSTANTS
  N,            \* number of guards
  Me,           \* index of this guard
  Threshold,    \* tss-api's threshold + 1
  Msgs,         \* messages
  Life,         \* timeout of an entry of the queue, in rounds
  SignPerRoundLimit,
  Overlapping,  \* whether sign(m) may be called while a call of it is waiting
  Tasks,        \* BOUND: handlers that may run
  Quota,        \* BOUND: Quota[k]: how many of them may be of kind k
  MaxRound,     \* BOUND: last round
  None          \* undefined

Guards == 0 .. N - 1
Kinds == {"sign", "update", "request", "approve", "start", "cached", "signData"}

ASSUME SizeAssumption ==
  /\ N \in Nat \ {0} /\ Me \in Guards /\ Threshold \in Nat
  /\ Life \in Nat \ {0} /\ SignPerRoundLimit \in Nat
  /\ Overlapping \in BOOLEAN
  /\ Quota \in [Kinds -> Nat] /\ MaxRound \in Nat
  /\ None \notin Tasks /\ None \notin Nat

VARIABLES
  round,      \* round of turns; its owner is Owner(round)
  late,       \* whether it is the no-work time of the round
  queue,      \* this.signs, of entries
  entry,      \* entry[e]: the entry that task e queued
  pendings,   \* this.pendingSigns, of kept requests
  pend,       \* pend[r]: the request that task r kept
  cache,      \* messages whose signature is cached
  lastRound,  \* lastUpdateRound, or None
  task,       \* task[t]: what handler t is doing, and its local variables
  signLock, pendLock,  \* the mutexes: their holder and those who wait, in order
  running,    \* entries whose ceremony tss-api is running
  requested,  \* requests sent (history)
  starts,     \* start messages sent (history)
  posts,      \* ceremonies handed to tss-api (history)
  answered    \* entries whose callback was called (history)

state == <<queue, entry, pendings, pend, cache, lastRound, running>>
locks == <<signLock, pendLock>>
history == <<requested, starts, posts, answered>>
vars == <<round, late, state, task, locks, history>>

-----------------------------------------------------------------------------
Owner(r) == r % N

\* Entry e timed out: now - timeout reached its addedTime.
TimedOut(e) == entry[e].added + Life <= round

Elements(s) == {s[i] : i \in DOMAIN s}

\* The elements of s that are in S, in the order of s.
Kept(s, S) ==
  LET I == {i \in DOMAIN s : s[i] \in S}
  IN [k \in 1 .. Cardinality(I) |->
        s[CHOOSE i \in I : Cardinality({j \in I : j <= i}) = k]]

\* The first element of s that is in S, if any.
First(s, S) == LET found == Kept(s, S) IN IF found = <<>> THEN None ELSE Head(found)

Queued == Elements(queue)

\* getSign(m, true): the first entry of m, if any.
GetAny(m) == First(queue, {e \in Queued : entry[e].msg = m})

\* Mutant: posted entries are found too.
GetSignAny(m) == GetAny(m)

\* getSign(m): the first entry of m, unless it is posted.
GetSign(m) ==
  LET e == GetAny(m) IN IF e # None /\ ~entry[e].posted THEN e ELSE None

GetPending(m) == First(pendings, {r \in Elements(pendings) : pend[r].msg = m})

\* removeSign: this.signs without the entries of m.
Without(m) == Kept(queue, {e \in Queued : entry[e].msg # m})

\* The guards whose approval of the request of entry x is among its signatures.
Approved(x) == {g \in Guards : x.sigs[g] = x.request}

-----------------------------------------------------------------------------
\* Tasks and mutexes

\* t is at the await before step pc.
At(t, pc) == task[t].pc = pc

Goto(t, pc) == task' = [task EXCEPT ![t].pc = pc]
End(t) == Goto(t, "done")

\* t was granted the mutex it awaits before step pc.  It stays at the head of
\* the queue until it releases the mutex.
Granted(lock, t, pc) == lock # <<>> /\ Head(lock) = <<t, pc>> /\ At(t, pc)

\* t acquires a mutex, then goes on with step pc.
AwaitSigns(t, pc) == Goto(t, pc) /\ signLock' = Append(signLock, <<t, pc>>)

Release(lock) == Tail(lock)

\* Taking a free mutex needs no event: nothing is received before its holder
\* has gone on.
Quiet ==
  ~\E lock \in {signLock, pendLock} : lock # <<>> /\ At(Head(lock)[1], Head(lock)[2])

\* Task t starts as a handler of kind kind, and runs to the await before pc.
Launch(t, kind, pc, m, ref, from, r) ==
  /\ At(t, "idle")
  /\ Cardinality({u \in Tasks : task[u].kind = kind}) < Quota[kind]
  /\ task' = [task EXCEPT ![t] = [kind |-> kind, pc |-> pc, msg |-> m, ref |-> ref,
                                  from |-> from, round |-> r, todo |-> <<>>]]

Idle == [kind |-> None, pc |-> "idle", msg |-> None, ref |-> None,
         from |-> None, round |-> None, todo |-> <<>>]

Init ==
  /\ round = 0 /\ late = FALSE
  /\ queue = <<>> /\ entry = [e \in Tasks |-> None]
  /\ pendings = <<>> /\ pend = [r \in Tasks |-> None]
  /\ cache = {} /\ lastRound = None /\ running = {}
  /\ task = [t \in Tasks |-> Idle]
  /\ signLock = <<>> /\ pendLock = <<>>
  /\ requested = {} /\ starts = {} /\ posts = {} /\ answered = {}

PCs == {"idle", "push", "check", "store", "cleanSigns", "cleanPending", "turn",
        "active", "send", "record", "pk", "count", "tell", "begin", "posting",
        "fail", "approved", "join", "verify", "remove", "done"}

Entry == [msg : Msgs, added : Nat, posted : BOOLEAN, request : Nat \cup {None},
          sigs : [Guards -> Nat \cup {None}]]

Task == [kind : Kinds \cup {None}, pc : PCs, msg : Msgs \cup {None},
         ref : Tasks \cup {None}, from : Guards \cup {None},
         round : Nat \cup {None}, todo : Seq(Tasks)]

ASSUME NoneAssumption == None \notin Entry /\ None \notin [msg : Msgs, round : Nat]

TypeOK ==
  /\ round \in Nat /\ late \in BOOLEAN
  /\ queue \in Seq(Tasks) /\ \A e \in Queued : entry[e] # None
  /\ entry \in [Tasks -> Entry \cup {None}]
  /\ pendings \in Seq(Tasks)
  /\ pend \in [Tasks -> [msg : Msgs, round : Nat] \cup {None}]
  /\ cache \subseteq Msgs /\ lastRound \in Nat \cup {None}
  /\ task \in [Tasks -> Task]
  /\ signLock \in Seq(Tasks \X PCs) /\ pendLock \in Seq(Tasks \X PCs)
  /\ running \subseteq Tasks /\ answered \subseteq Tasks
  /\ requested \subseteq [msg : Msgs, round : Nat]
  /\ starts \subseteq [msg : Msgs, round : Nat, by : Tasks,
                       sigs : [Guards -> Nat \cup {None}]]
  /\ posts \subseteq [entry : Tasks, by : Tasks]

-----------------------------------------------------------------------------
\* sign(m)

\* The application calls sign(m): neither queued nor cached, m is to be queued.
Sign(t, m) ==
  /\ GetAny(m) = None /\ m \notin cache
  /\ Overlapping \/ \A u \in Tasks : ~(At(u, "push") /\ task[u].msg = m)
  /\ Launch(t, "sign", "push", m, None, None, None)
  /\ signLock' = Append(signLock, <<t, "push">>)
  /\ UNCHANGED <<round, late, state, pendLock, history>>

\* m is queued; then a request that came too early for it is handled, if its
\* sender still has the turn.
Push(t) ==
  /\ Granted(signLock, t, "push")
  /\ signLock' = Release(signLock)
  /\ queue' = Append(queue, t)
  /\ entry' = [entry EXCEPT ![t] = [msg |-> task[t].msg, added |-> round, posted |-> FALSE,
                                    request |-> None, sigs |-> [g \in Guards |-> None]]]
  /\ LET r == GetPending(task[t].msg)
     IN IF r # None /\ Owner(pend[r].round) = Owner(round)
        THEN task' = [task EXCEPT ![t].pc = "check", ![t].round = pend[r].round]
        ELSE End(t)
  /\ UNCHANGED <<round, late, pendings, pend, cache, lastRound, running, pendLock, history>>

-----------------------------------------------------------------------------
\* handleRequestMessage

\* A request of the owner of the round arrives; any other is refused.
Request(t, m) ==
  /\ Quiet
  /\ Owner(round) # Me
  /\ Launch(t, "request", "check", m, None, Owner(round), round)
  /\ UNCHANGED <<round, late, state, locks, history>>

\* The request is refused, or answered with an approval or the signature.
Answer(t) ==
  /\ At(t, "check")
  /\ End(t)
  /\ UNCHANGED <<round, late, state, locks, history>>

\* The request came before the application called sign(m): keep it, in the
\* place of the request of m that is kept already.
TooEarly(t) ==
  /\ At(t, "check")
  /\ task[t].msg \notin cache /\ GetSign(task[t].msg) = None
  /\ task' = [task EXCEPT ![t].pc = "store", ![t].ref = GetPending(task[t].msg)]
  /\ pendLock' = Append(pendLock, <<t, "store">>)
  /\ UNCHANGED <<round, late, state, signLock, history>>

Store(t) ==
  /\ Granted(pendLock, t, "store")
  /\ pendLock' = Release(pendLock)
  /\ LET r == IF task[t].ref = None THEN t ELSE task[t].ref
     IN /\ pend' = [pend EXCEPT ![r] = [msg |-> task[t].msg, round |-> task[t].round]]
        /\ pendings' = IF r = t THEN Append(pendings, t) ELSE pendings
  /\ End(t)
  /\ UNCHANGED <<round, late, queue, entry, cache, lastRound, running, signLock, history>>

-----------------------------------------------------------------------------
\* update

\* The timer fires.  cleanup looks up whose turn it is before its awaits.
Update(t) ==
  /\ Quiet
  /\ Launch(t, "update", "cleanSigns", None, None, None, round)
  /\ signLock' = Append(signLock, <<t, "cleanSigns">>)
  /\ UNCHANGED <<round, late, state, pendLock, history>>

\* Mutant: an entry is dropped a round too early.
CleanSignsEarly(t) ==
  /\ Granted(signLock, t, "cleanSigns")
  /\ queue' = Kept(queue, {e \in Queued : entry[e].added + Life - 1 > round})
  /\ signLock' = Release(signLock)
  /\ Goto(t, "cleanPending") /\ pendLock' = Append(pendLock, <<t, "cleanPending">>)
  /\ UNCHANGED <<round, late, entry, pendings, pend, cache, lastRound, running, history>>

CleanSigns(t) ==
  /\ Granted(signLock, t, "cleanSigns")
  /\ queue' = Kept(queue, {e \in Queued : ~TimedOut(e)})
  /\ signLock' = Release(signLock)
  /\ Goto(t, "cleanPending") /\ pendLock' = Append(pendLock, <<t, "cleanPending">>)
  /\ UNCHANGED <<round, late, entry, pendings, pend, cache, lastRound, running, history>>

CleanPending(t) ==
  /\ Granted(pendLock, t, "cleanPending")
  /\ pendings' = Kept(pendings, {r \in Elements(pendings) :
                                  Owner(pend[r].round) = Owner(task[t].round)})
  /\ pendLock' = Release(pendLock)
  /\ Goto(t, "turn")
  /\ UNCHANGED <<round, late, queue, entry, pend, cache, lastRound, running, signLock, history>>

\* Go on if it is this guard's turn and something is queued.
Turn(t) ==
  /\ At(t, "turn")
  /\ IF Owner(round) = Me /\ queue # <<>> THEN Goto(t, "active") ELSE End(t)
  /\ UNCHANGED <<round, late, state, locks, history>>

\* The loop of update: go on with the first entry of todo that is not posted.
NextRequest(t, todo, r) ==
  LET rest == Kept(todo, {e \in Elements(todo) : ~entry[e].posted})
  IN task' = [task EXCEPT ![t].pc = IF rest = <<>> THEN "done" ELSE "send",
                          ![t].todo = rest, ![t].round = r]

\* The threshold is known and the active guards too: there are too few of
\* them, the round's requests were made, or they are to be made now.
Active(t) ==
  /\ At(t, "active")
  /\ Quiet
  /\ \/ End(t) /\ UNCHANGED lastRound
     \/ /\ lastRound # round
        /\ lastRound' = round
        /\ NextRequest(t, SubSeq(queue, 1, IF Len(queue) < SignPerRoundLimit
                                           THEN Len(queue) ELSE SignPerRoundLimit), round)
  /\ UNCHANGED <<round, late, queue, entry, pendings, pend, cache, running, locks, history>>

\* The request for the first message goes out; the guard's own approval is
\* recorded once it has the mutex.
Send(t) ==
  /\ At(t, "send")
  /\ requested' = requested \cup {[msg |-> entry[Head(task[t].todo)].msg,
                                   round |-> task[t].round]}
  /\ AwaitSigns(t, "record")
  /\ UNCHANGED <<round, late, state, pendLock, starts, posts, answered>>

Record(t) ==
  /\ Granted(signLock, t, "record")
  /\ signLock' = Release(signLock)
  /\ entry' = [entry EXCEPT ![Head(task[t].todo)].request = task[t].round,
                            ![Head(task[t].todo)].sigs =
                              [g \in Guards |-> IF g = Me THEN task[t].round ELSE None]]
  /\ NextRequest(t, Tail(task[t].todo), task[t].round)
  /\ UNCHANGED <<round, late, queue, pendings, pend, cache, lastRound, running, pendLock, history>>

-----------------------------------------------------------------------------
\* handleApproveMessage, handleStartMessage, startSign

\* Guard from's approval of a request of this guard arrives.
Approve(t, q, from) ==
  /\ Quiet
  /\ q \in requested /\ from # Me
  /\ GetSign(q.msg) # None
  /\ Launch(t, "approve", "pk", q.msg, GetSign(q.msg), from, q.round)
  /\ UNCHANGED <<round, late, state, locks, history>>

\* The approval is ignored: the entry has no request yet, or it is late.
Ignore(t) ==
  /\ At(t, "pk")
  /\ entry[task[t].ref].request = None \/ late
  /\ End(t)
  /\ UNCHANGED <<round, late, state, locks, history>>

Collect(t) ==
  /\ At(t, "pk")
  /\ entry[task[t].ref].request # None /\ ~late
  /\ AwaitSigns(t, "count")
  /\ UNCHANGED <<round, late, state, pendLock, history>>

\* The approval is added to the entry found on arrival, and the approvals of
\* its request are counted.
Count(t) ==
  /\ Granted(signLock, t, "count")
  /\ LET x == [entry[task[t].ref] EXCEPT !.sigs[task[t].from] = task[t].round]
     IN /\ entry' = [entry EXCEPT ![task[t].ref] = x]
        /\ IF Cardinality(Approved(x)) >= Threshold /\ GetSign(task[t].msg) # None
           THEN Goto(t, "tell") /\ UNCHANGED signLock
           ELSE End(t) /\ signLock' = Release(signLock)
  /\ UNCHANGED <<round, late, queue, pendings, pend, cache, lastRound, running, pendLock, history>>

\* Mutant: the start message carries the time it is sent at.
TellNow(t) ==
  /\ At(t, "tell")
  /\ LET e == task[t].ref
     IN starts' = starts \cup {[msg |-> task[t].msg, round |-> round, by |-> t,
                                sigs |-> entry[e].sigs]}
  /\ Goto(t, "begin")
  /\ UNCHANGED <<round, late, state, locks, requested, posts, answered>>

\* The start message goes out, with the time of the request.
Tell(t) ==
  /\ At(t, "tell")
  /\ LET e == task[t].ref
     IN starts' = starts \cup {[msg |-> task[t].msg, round |-> entry[e].request, by |-> t,
                                sigs |-> entry[e].sigs]}
  /\ Goto(t, "begin")
  /\ UNCHANGED <<round, late, state, locks, requested, posts, answered>>

\* startSign: the message's entry is looked up again, marked posted and handed
\* to tss-api, whose answer t awaits holding the mutex.
StartSign(t) ==
  LET e == GetSign(task[t].msg)
  IN \/ /\ e # None
        /\ entry' = [entry EXCEPT ![e].posted = TRUE]
        /\ running' = running \cup {e}
        /\ posts' = posts \cup {[entry |-> e, by |-> t]}
        /\ task' = [task EXCEPT ![t].pc = "posting", ![t].ref = e]
        /\ UNCHANGED signLock
     \/ /\ e = None
        /\ End(t) /\ signLock' = Release(signLock)
        /\ UNCHANGED <<entry, running, posts>>

Begin(t) ==
  /\ At(t, "begin")
  /\ StartSign(t)
  /\ UNCHANGED <<round, late, queue, pendings, pend, cache, lastRound, pendLock,
                 requested, starts, answered>>

\* A start message of the owner of the round arrives; any other is refused.
Start(t, m) ==
  /\ Quiet
  /\ Owner(round) # Me
  /\ GetSign(m) # None
  /\ Launch(t, "start", "approved", m, GetSign(m), Owner(round), round)
  /\ UNCHANGED <<round, late, state, locks, history>>

\* It carries enough approvals, or not.
Approvals(t) ==
  /\ At(t, "approved")
  /\ \/ AwaitSigns(t, "join")
     \/ End(t) /\ UNCHANGED signLock
  /\ UNCHANGED <<round, late, state, pendLock, history>>

Join(t) ==
  /\ Granted(signLock, t, "join")
  /\ StartSign(t)
  /\ UNCHANGED <<round, late, queue, pendings, pend, cache, lastRound, pendLock,
                 requested, starts, answered>>

\* tss-api accepts the ceremony.
Posted(t) ==
  /\ At(t, "posting") /\ Quiet
  /\ End(t) /\ signLock' = Release(signLock)
  /\ UNCHANGED <<round, late, state, pendLock, history>>

\* Mutant: the handler holding the mutex waits for the removal of its entry.
PostFailsAwaiting(t) ==
  /\ At(t, "posting") /\ Quiet
  /\ running' = running \ {task[t].ref}
  /\ AwaitSigns(t, "fail")
  /\ UNCHANGED <<round, late, queue, entry, pendings, pend, cache, lastRound, pendLock, history>>

\* tss-api refuses the ceremony, or cannot be reached.  The handler returns
\* and releases the mutex; the removal of the entry waits for it on its own.
PostFails(t) ==
  /\ At(t, "posting") /\ Quiet
  /\ running' = running \ {task[t].ref}
  /\ Goto(t, "fail")
  /\ signLock' = Append(Release(signLock), <<t, "fail">>)
  /\ UNCHANGED <<round, late, queue, entry, pendings, pend, cache, lastRound, pendLock, history>>

Fail(t) ==
  /\ Granted(signLock, t, "fail")
  /\ answered' = answered \cup {task[t].ref}
  /\ queue' = Without(task[t].msg)
  /\ End(t) /\ signLock' = Release(signLock)
  /\ UNCHANGED <<round, late, entry, pendings, pend, cache, lastRound, running, pendLock,
                 requested, starts, posts>>

-----------------------------------------------------------------------------
\* handleSignCachedMessage, handleSignData

\* A guard answers a request of this guard with the signature it has.
Cached(t, q) ==
  /\ Quiet
  /\ q \in requested /\ GetSign(q.msg) # None
  /\ Launch(t, "cached", "verify", q.msg, GetSign(q.msg), None, None)
  /\ UNCHANGED <<round, late, state, locks, history>>

\* tss-api gave the public key and the signature is valid, or not.
Verify(t) ==
  /\ At(t, "verify") /\ Quiet
  /\ \/ /\ answered' = answered \cup {task[t].ref}
        /\ cache' = cache \cup {task[t].msg}
        /\ AwaitSigns(t, "remove")
     \/ /\ End(t)
        /\ UNCHANGED <<answered, cache, signLock>>
  /\ UNCHANGED <<round, late, queue, entry, pendings, pend, lastRound, running, pendLock,
                 requested, starts, posts>>

\* Mutant: the result is accepted without looking whether an entry is found.
SignDataAny(t, op, ok) ==
  LET m == entry[op].msg
  IN /\ Quiet
     /\ op \in running /\ running' = running \ {op}
     /\ Launch(t, "signData", "remove", m, GetAny(m), None, None)
     /\ answered' = answered \cup {GetAny(m)}
     /\ cache' = IF ok THEN cache \cup {m} ELSE cache
     /\ signLock' = Append(signLock, <<t, "remove">>)
     /\ UNCHANGED <<round, late, queue, entry, pendings, pend, lastRound, pendLock,
                    requested, starts, posts>>

\* tss-api reports the outcome of the ceremony of entry op.  The result is
\* given to the first entry of the message, and is refused if it is not posted.
SignData(t, op, ok) ==
  LET m == entry[op].msg
      e == GetAny(m)
      known == e # None /\ entry[e].posted
  IN /\ Quiet
     /\ op \in running /\ running' = running \ {op}
     /\ \/ /\ known
           /\ Launch(t, "signData", "remove", m, e, None, None)
           /\ answered' = answered \cup {e}
           /\ cache' = IF ok THEN cache \cup {m} ELSE cache
           /\ signLock' = Append(signLock, <<t, "remove">>)
        \/ /\ ~known
           /\ Launch(t, "signData", "done", m, None, None, None)
           /\ UNCHANGED <<answered, cache, signLock>>
     /\ UNCHANGED <<round, late, queue, entry, pendings, pend, lastRound, pendLock,
                    requested, starts, posts>>

\* Mutant: the entry is removed without waiting for the mutex.
RemoveUnlocked(t) ==
  /\ At(t, "remove")
  /\ queue' = Without(task[t].msg)
  /\ End(t) /\ signLock' = Kept(signLock, Elements(signLock) \ {<<t, "remove">>})
  /\ UNCHANGED <<round, late, entry, pendings, pend, cache, lastRound, running, pendLock, history>>

Remove(t) ==
  /\ Granted(signLock, t, "remove")
  /\ queue' = Without(task[t].msg)
  /\ End(t) /\ signLock' = Release(signLock)
  /\ UNCHANGED <<round, late, entry, pendings, pend, cache, lastRound, running, pendLock, history>>

-----------------------------------------------------------------------------
\* Time passes; tss-api reports within the operationTimeout, before the entry
\* times out.
Tick ==
  /\ Quiet
  /\ \/ ~late /\ late' = TRUE /\ UNCHANGED round
     \/ /\ late /\ round < MaxRound
        /\ \A op \in running : round + 1 < entry[op].added + Life
        /\ round' = round + 1 /\ late' = FALSE
  /\ UNCHANGED <<state, task, locks, history>>

\* A started handler goes on.
Step(t) ==
  \/ Push(t) \/ Answer(t) \/ TooEarly(t) \/ Store(t)
  \/ CleanSigns(t) \/ CleanPending(t) \/ Turn(t) \/ Active(t) \/ Send(t) \/ Record(t)
  \/ Ignore(t) \/ Collect(t) \/ Count(t) \/ Tell(t) \/ Begin(t)
  \/ Approvals(t) \/ Join(t) \/ Posted(t) \/ PostFails(t) \/ Fail(t)
  \/ Verify(t) \/ Remove(t)

\* A handler starts.
Event(t) ==
  \/ \E m \in Msgs : Sign(t, m) \/ Request(t, m) \/ Start(t, m)
  \/ Update(t)
  \/ \E q \in requested : Cached(t, q) \/ \E from \in Guards : Approve(t, q, from)
  \/ \E op \in running, ok \in BOOLEAN : SignData(t, op, ok)

Next == Tick \/ \E t \in Tasks : Event(t) \/ Step(t)

\* The event loop runs every handler that can go on, and HTTP calls end.
Spec == Init /\ [][Next]_vars /\ \A t \in Tasks : WF_vars(Step(t))

-----------------------------------------------------------------------------
\* Properties

\* An entry's ceremony is handed to tss-api at most once, although approvals
\* and start messages that found it not posted wait for the mutex together.
PostedOnce == \A p, q \in posts : p.entry = q.entry => p = q

\* A start message carries enough approvals of the request it is about, the
\* sender's included, though update may replace the request meanwhile.
StartCarriesQuorum ==
  \A s \in starts :
    /\ Cardinality({g \in Guards : s.sigs[g] = s.round}) >= Threshold
    /\ s.sigs[Me] = s.round

\* Who told the others to start a ceremony starts it too: the entry cannot
\* leave the queue or be posted between the two.
StarterStarts ==
  \A s \in starts : At(s.by, "begin") \/ \E p \in posts : p.by = s.by

\* An entry leaves the queue only if it timed out, its callback was called, or
\* the signature of its message can be had from the cache.  Entries are removed
\* by message, long after they were looked up.
NoSilentLoss ==
  [][\A e \in Queued \ Queued' :
       TimedOut(e) \/ e \in answered' \/ entry[e].msg \in cache']_vars

\* While a handler has not ended, one of them can go on: nobody waits for a mutex
\* that is never released (startSign's error handler needs the one that its
\* caller holds).  Every step takes its handler nearer to its end, so all of
\* them end, as fast as the event loop and tss-api's answers come.
HandlersGoOn ==
  (\E t \in Tasks : task[t].pc \notin {"idle", "done"}) => \E t \in Tasks : ENABLED Step(t)

\* sign refuses a message that is in the queue ('already signing this message').
NoDuplicates == \A i, j \in DOMAIN queue : entry[queue[i]].msg = entry[queue[j]].msg => i = j
=============================================================================
