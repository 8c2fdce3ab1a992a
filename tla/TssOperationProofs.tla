------------------------- MODULE TssOperationProofs -------------------------
(*****************************************************************************)
(* Theorems about TssOperation, for any number of operations, messages and   *)
(* sign requests, and their proofs.                                          *)
(*****************************************************************************)
EXTENDS TssOperation, TLAPS

\* The caller is called before the loop of an operation learns that it is over.
Called(e) == e.loop \in {"deleting", "ended"} \/ e.out = "sendStatus" => e.calls # {}

\* The inductive invariant.
Inv == TypeOK /\ OneOperation /\ \A o \in Ops : Called(op[o])

LEMMA InitInv == Init => Inv
<1> SUFFICES ASSUME Init PROVE Inv
  OBVIOUS
<1>1. NoOperation \in Operation
  BY DEF NoOperation, Operation, MessageIds
<1>2. TypeOK
  <2>1. op \in [Ops -> Operation] /\ \A o \in Ops : op[o] = NoOperation
    BY <1>1 DEF Init
  <2>2. \A o \in Ops : ~op[o].closed
    BY <2>1 DEF NoOperation
  <2>3. MaxOps \in Nat
    BY OperationAssumption
  <2>4. /\ started \in 0 .. MaxOps
        /\ channelMap \in [MessageIds -> 0 .. MaxOps] /\ waiting \in [MessageIds -> Nat]
    BY <2>3 DEF Init
  <2>. QED
    BY <2>1, <2>2, <2>4 DEF Init, TypeOK
<1>3. \A o \in Ops : op[o].loop = "none" /\ op[o].out = "none"
  BY DEF Init, NoOperation
<1>. QED
  BY <1>2, <1>3 DEF Inv, OneOperation, Running, Called

-----------------------------------------------------------------------------
\* One operation is changed, its id is not, and it does not begin to run: what
\* the invariant says of the others is untouched.
LEMMA OneChanged ==
  ASSUME Inv, NEW o \in Ops, NEW new \in Operation,
         op' = [op EXCEPT ![o] = new], channelMap' = channelMap,
         new.id = op[o].id,
         new.loop \in {"select", "stuck", "failing", "deleting"} => o \in Running,
         new.closed => new.buffer <= Capacity,
         Called(new),
         started' = started, waiting' \in [MessageIds -> Nat],
         keygenFile' \in BOOLEAN, messages' \in Nat
  PROVE  Inv'
<1>1. TypeOK'
  BY DEF Inv, TypeOK
<1>2. \A x \in Ops : op'[x] = IF x = o THEN new ELSE op[x]
  BY DEF Inv, TypeOK
<1>3. OneOperation'
  <2> SUFFICES ASSUME NEW x \in Running' PROVE channelMap'[op'[x].id] = x
    BY DEF OneOperation
  <2>1. x \in Ops /\ x \in Running
    BY <1>2 DEF Running
  <2>. QED
    BY <1>2, <2>1 DEF Inv, OneOperation
<1>4. \A x \in Ops : Called(op'[x])
  BY <1>2 DEF Inv
<1>. QED
  BY <1>1, <1>3, <1>4 DEF Inv, Called

\* The loop, the callback and the party change their own operation only.
LEMMA LoopInv ==
  ASSUME Inv, NEW o \in Ops, Loop(o) \/ ErrorCallBack(o) \/ PartyOut(o) \/ PartyUpdate(o)
  PROVE  Inv'
<1> DEFINE e == op[o]
<1>1. e \in Operation /\ (e.closed => e.buffer <= Capacity) /\ Called(e)
  BY DEF Inv, TypeOK
<1>0. /\ e.buffer \in Nat /\ e.updates \in Nat /\ e.errors \in Nat
      /\ e.calls \in SUBSET {"success", "fail", "lost"}
  BY <1>1 DEF Operation
<1>2. keygenFile \in BOOLEAN /\ messages \in Nat /\ waiting \in [MessageIds -> Nat]
  BY DEF Inv, TypeOK
<1>3. Capacity \in Nat
  BY OperationAssumption
<1> DEFINE Good(new) ==
             /\ new \in Operation /\ new.id = e.id
             /\ new.loop \in {"select", "stuck", "failing", "deleting"} => o \in Running
             /\ new.closed => new.buffer <= Capacity
             /\ Called(new)
<1> DEFINE Created == {[e EXCEPT !.party = "running", !.out = "running"],
                       [e EXCEPT !.loop = "stuck"]}
<1>4. PICK new : op' = [op EXCEPT ![o] = new] /\ Good(new)
  <2>1. CASE ReceiveError(o)
    <3>. e.loop = "select"
      BY <2>1 DEF ReceiveError
    <3>1. Good(ReturnError([e EXCEPT !.timer = "closing"]))
      BY <1>1 DEF ReturnError, Operation, Running, Called
    <3>2. Good(ReturnError([e EXCEPT !.out = "done"]))
      BY <1>1 DEF ReturnError, Operation, Running, Called
    <3>3. e.errors > 0 => Good(ReturnError([e EXCEPT !.errors = @ - 1]))
      <4> SUFFICES ASSUME e.errors > 0 PROVE Good(ReturnError([e EXCEPT !.errors = @ - 1]))
        OBVIOUS
      <4>1. e.errors - 1 \in Nat
        BY <1>0
      <4>. QED
        BY <1>1, <4>1 DEF ReturnError, Operation, Running, Called
    <3>. QED
      BY <2>1, <3>1, <3>2, <3>3 DEF ReceiveError, Set
  <2>2. CASE ReceiveMessage(o)
    <3>. e.loop = "select"
      BY <2>2 DEF ReceiveMessage
    <3>1. e.buffer > 0 => /\ Good([e EXCEPT !.buffer = @ - 1, !.updates = @ + 1])
                          /\ Good(ReturnError([e EXCEPT !.buffer = @ - 1]))
      <4> SUFFICES ASSUME e.buffer > 0
                   PROVE  /\ Good([e EXCEPT !.buffer = @ - 1, !.updates = @ + 1])
                          /\ Good(ReturnError([e EXCEPT !.buffer = @ - 1]))
        OBVIOUS
      <4>1. e.buffer - 1 \in Nat /\ e.updates + 1 \in Nat
        BY <1>0
      <4>2. e.closed => e.buffer - 1 <= Capacity
        BY <1>0, <1>1, <1>3
      <4>. QED
        BY <1>1, <4>1, <4>2 DEF ReturnError, Operation, Running, Called
    <3>2. Good(ReturnError(e))
      BY <1>1 DEF ReturnError, Operation, Running, Called
    <3>. QED
      BY <2>2, <3>1, <3>2 DEF ReceiveMessage, Set
  <2>3. CASE ReceiveStatus(o)
    <3>1. PICK f \in {[e EXCEPT !.loop = "deleting", !.out = "done"]} : op' = [op EXCEPT ![o] = f]
      BY <2>3 DEF ReceiveStatus, Set
    <3>2. Good(f)
      BY <1>1, <2>3 DEF ReceiveStatus, ReturnError, Operation, Running, Called
    <3>. QED  BY <3>1, <3>2
  <2>4. CASE CreateParty(o)
    <3>1. PICK f \in Created : op' = [op EXCEPT ![o] = f]
      BY <2>4 DEF CreateParty, Set
    <3>2. Good(f)
      BY <1>1, <2>4, ZenonT(120) DEF CreateParty, ReturnError, Operation, Running, Called
    <3>. QED  BY <3>1, <3>2
  <2>5. CASE ErrorCallBack(o)
    <3>1. PICK call \in {"fail", "lost"} :
            op' = [op EXCEPT ![o] = [e EXCEPT !.loop = "deleting", !.calls = @ \cup {call}]]
      BY <2>5 DEF ErrorCallBack, Set
    <3>2. Good([e EXCEPT !.loop = "deleting", !.calls = @ \cup {call}])
      <4>1. e.calls \cup {call} \in SUBSET {"success", "fail", "lost"}
        BY <1>0
      <4>2. e.loop = "failing"
        BY <2>5 DEF ErrorCallBack
      <4>. QED
        BY <1>1, <4>1, <4>2 DEF Operation, Running, Called
    <3>. QED  BY <3>1, <3>2
  <2>6. CASE PartyOut(o)
    <3>1. Good([e EXCEPT !.out = "sendStatus", !.calls = @ \cup {"success"}])
      <4>1. e.calls \cup {"success"} \in SUBSET {"success", "fail", "lost"}
        BY <1>0
      <4>. QED
        BY <1>1, <4>1 DEF Operation, Running, Called
    <3>2. Good([e EXCEPT !.out = "sendError"])
      BY <1>1 DEF Operation, Running, Called
    <3>. QED
      BY <2>6, <3>1, <3>2 DEF PartyOut, Set
  <2>7. CASE PartyUpdate(o)
    <3>1. e.updates - 1 \in Nat /\ e.errors + 1 \in Nat
      BY <1>0, <2>7 DEF PartyUpdate
    <3>2. /\ Good([e EXCEPT !.updates = @ - 1])
          /\ Good([e EXCEPT !.updates = @ - 1, !.errors = @ + 1])
      <4>1. PICK less : less = [e EXCEPT !.updates = @ - 1]
        OBVIOUS
      <4>2. Good(less) /\ less.errors = e.errors
        BY <1>1, <3>1, <4>1 DEF Operation, Running, Called
      <4>3. Good([less EXCEPT !.errors = e.errors + 1])
        BY <3>1, <4>2 DEF Operation, Running, Called
      <4>4. [less EXCEPT !.errors = e.errors + 1] = [e EXCEPT !.updates = @ - 1, !.errors = @ + 1]
        BY <1>1, <4>1 DEF Operation
      <4>. QED
        BY <4>1, <4>2, <4>3, <4>4
    <3>. QED
      BY <2>7, <3>2 DEF PartyUpdate, Set
  <2>. QED
    BY <2>1, <2>2, <2>3, <2>4, <2>5, <2>6, <2>7 DEF Loop
<1>5. /\ channelMap' = channelMap /\ started' = started
      /\ waiting' = waiting /\ messages' = messages
  BY DEF Loop, ReceiveError, ReceiveMessage, ReceiveStatus, CreateParty, ErrorCallBack,
         PartyOut, PartyUpdate, Set
<1>6. keygenFile' \in BOOLEAN
  BY <1>2 DEF Loop, ReceiveError, ReceiveMessage, ReceiveStatus, CreateParty, ErrorCallBack,
              PartyOut, PartyUpdate, Set
<1>. QED
  BY <1>2, <1>4, <1>5, <1>6, OneChanged

-----------------------------------------------------------------------------
LEMMA StartInv ==
  ASSUME Inv, NEW id \in MessageIds, StartNew(id)
  PROVE  Inv'
<1> DEFINE n == started + 1
<1>1. started \in Nat /\ MaxOps \in Nat /\ n \in Ops /\ n # 0
  BY OperationAssumption DEF Inv, TypeOK, StartNew, Ops
<1>2. PICK r \in {[loop |-> "select", timer |-> "armed"], [loop |-> "refused", timer |-> "armed"],
                  [loop |-> "refused", timer |-> "none"]} :
        op' = [op EXCEPT ![n] = [@ EXCEPT !.id = id, !.loop = r.loop, !.timer = r.timer]]
  BY DEF StartNew
<1> DEFINE new == [op[n] EXCEPT !.id = id, !.loop = r.loop, !.timer = r.timer]
<1>3. /\ op[n] \in Operation /\ Called(op[n]) /\ op \in [Ops -> Operation]
      /\ op[n].closed => op[n].buffer <= Capacity
  BY <1>1 DEF Inv, TypeOK
<1>4. /\ new \in Operation /\ new.id = id /\ Called(new)
      /\ new.closed => new.buffer <= Capacity
  <2>1. r.loop \in {"select", "refused"} /\ r.timer \in {"armed", "none"}
    OBVIOUS
  <2>. QED
    <3>1. new \in Operation
      BY <1>3, <2>1 DEF Operation
    <3>2. new.id = id /\ new.calls = op[n].calls /\ new.loop = r.loop /\ new.out = op[n].out
      BY <1>3 DEF Operation
    <3>3. new.closed = op[n].closed /\ new.buffer = op[n].buffer
      BY <1>3 DEF Operation
    <3>. QED
      BY <1>3, <2>1, <3>1, <3>2, <3>3 DEF Called
<1>5. \A o \in Ops : op'[o] = IF o = n THEN new ELSE op[o]
  BY <1>2, <1>3
<1>6. /\ channelMap' = [channelMap EXCEPT ![id] = n] /\ channelMap[id] = 0
      /\ channelMap \in [MessageIds -> 0 .. MaxOps]
  BY DEF Inv, TypeOK, StartNew, NewMessageId
<1>7. TypeOK'
  <2>1. op' \in [Ops -> Operation]
    BY <1>2, <1>3, <1>4
  <2>2. started' \in 0 .. MaxOps /\ channelMap' \in [MessageIds -> 0 .. MaxOps]
    BY <1>1, <1>6 DEF StartNew, Ops
  <2>. QED
    BY <1>4, <1>5, <2>1, <2>2 DEF Inv, TypeOK, StartNew
<1>8. OneOperation'
  <2> SUFFICES ASSUME NEW o \in Running' PROVE channelMap'[op'[o].id] = o
    BY DEF OneOperation
  <2>1. o \in Ops
    BY DEF Running
  <2>2. CASE o = n
    BY <1>4, <1>5, <1>6, <2>1, <2>2, ZenonT(120)
  <2>3. CASE o # n
    <3>1. op'[o] = op[o] /\ o \in Running /\ op[o].id \in MessageIds
      BY <1>3, <1>5, <2>1, <2>3 DEF Running, Operation
    <3>2. channelMap[op[o].id] = o /\ o # 0
      BY <2>1, <3>1 DEF Inv, OneOperation, Ops
    <3>. QED
      BY <1>6, <3>1, <3>2
  <2>. QED
    BY <2>2, <2>3
<1>9. \A o \in Ops : Called(op'[o])
  BY <1>4, <1>5 DEF Inv
<1>. QED
  BY <1>7, <1>8, <1>9 DEF Inv, Called

\* The channel of a running operation is its own: deleteInstance takes nobody
\* else's channel away.
LEMMA DeleteInv ==
  ASSUME Inv, NEW o \in Ops, DeleteInstance(o)
  PROVE  Inv'
<1> DEFINE new == [op[o] EXCEPT !.loop = "ended"]
<1>1. /\ op \in [Ops -> Operation] /\ op[o] \in Operation /\ Called(op[o])
      /\ op[o].closed => op[o].buffer <= Capacity
      /\ op' = [op EXCEPT ![o] = new]
      /\ op[o].loop = "deleting" /\ o \in Running /\ channelMap[op[o].id] = o
  BY DEF Inv, TypeOK, DeleteInstance, Set, Running, OneOperation
<1>2. new \in Operation /\ Called(new) /\ (new.closed => new.buffer <= Capacity)
  BY <1>1 DEF Operation, Called
<1>3. \A x \in Ops : op'[x] = IF x = o THEN new ELSE op[x]
  BY <1>1
<1>4. TypeOK'
  <2>1. MaxOps \in Nat
    BY OperationAssumption
  <2>2. channelMap' \in [MessageIds -> 0 .. MaxOps]
    <3>1. channelMap \in [MessageIds -> 0 .. MaxOps] /\ 0 \in 0 .. MaxOps
      BY <2>1 DEF Inv, TypeOK
    <3>. QED
      BY <3>1 DEF DeleteInstance
  <2>. QED
    BY <1>1, <1>2, <1>3, <2>2 DEF Inv, TypeOK, DeleteInstance, Set
<1>5. OneOperation'
  <2> SUFFICES ASSUME NEW x \in Running' PROVE channelMap'[op'[x].id] = x
    BY DEF OneOperation
  <2>1. x \in Ops /\ x # o /\ op'[x] = op[x] /\ x \in Running
    BY <1>1, <1>3 DEF Running
  <2>2. channelMap[op[x].id] = x /\ op[x].id \in MessageIds
    BY <1>1, <2>1 DEF Inv, OneOperation, Operation
  <2>. QED
    BY <1>1, <2>1, <2>2 DEF Inv, TypeOK, DeleteInstance
<1>6. \A x \in Ops : Called(op'[x])
  BY <1>2, <1>3 DEF Inv
<1>. QED
  BY <1>4, <1>5, <1>6 DEF Inv, Called

-----------------------------------------------------------------------------
\* What the timer and the goroutines of messages do to channels changes neither
\* who runs nor which calls were made.
LEMMA ChannelsOnly ==
  ASSUME Inv, op' \in [Ops -> Operation],
         \A o \in Ops : op'[o].closed => op'[o].buffer <= Capacity,
         \A o \in Ops : /\ op'[o].id = op[o].id /\ op'[o].loop = op[o].loop
                       /\ op'[o].out = op[o].out /\ op'[o].calls = op[o].calls,
         waiting' \in [MessageIds -> Nat], messages' \in Nat,
         UNCHANGED <<started, channelMap, keygenFile>>
  PROVE  Inv'
<1>1. TypeOK'
  BY DEF Inv, TypeOK
<1>2. OneOperation'
  <2>1. Running' = Running
    BY DEF Running
  <2>2. \A o \in Running : o \in Ops /\ op'[o].id = op[o].id
    BY DEF Running
  <2>. QED
    BY <2>1, <2>2 DEF Inv, OneOperation
<1>3. \A o \in Ops : Called(op'[o])
  BY DEF Inv, Called
<1>. QED
  BY <1>1, <1>2, <1>3 DEF Inv, Called

LEMMA TimerInv ==
  ASSUME Inv, NEW o \in Ops, Timer(o)
  PROVE  Inv'
<1>1. /\ op \in [Ops -> Operation] /\ messages \in Nat /\ waiting \in [MessageIds -> Nat]
      /\ \A x \in Ops : op[x].closed => op[x].buffer <= Capacity
  BY DEF Inv, TypeOK
<1>2. CASE TimeOut(o)
  <2>1. PICK t \in {"sendError", "done"} : op' = [op EXCEPT ![o] = [@ EXCEPT !.timer = t]]
    BY <1>1, <1>2 DEF TimeOut, Set
  <2>2. op' \in [Ops -> Operation]
    BY <1>1, <2>1 DEF Operation
  <2>3. \A x \in Ops : /\ op'[x].id = op[x].id /\ op'[x].loop = op[x].loop
                       /\ op'[x].out = op[x].out /\ op'[x].calls = op[x].calls
                       /\ op'[x].closed = op[x].closed /\ op'[x].buffer = op[x].buffer
    BY <1>1, <2>1 DEF Operation
  <2>. QED
    BY <1>1, <1>2, <2>2, <2>3, ChannelsOnly DEF TimeOut, Set
<1>3. CASE CloseChannel(o)
  <2> DEFINE x == channelMap[op[o].id]
             closing == [op[o] EXCEPT !.timer = "done"]
             e == IF x = o THEN closing ELSE op[x]
  <2>1. /\ x \in Ops /\ op[x] \in Operation /\ op[o] \in Operation
    <3>1. op[o].id \in MessageIds /\ channelMap \in [MessageIds -> 0 .. MaxOps] /\ MaxOps \in Nat
      BY <1>1, OperationAssumption DEF Inv, TypeOK, Operation
    <3>. QED
      <4>1. channelMap[op[o].id] # 0 /\ channelMap[op[o].id] \in 0 .. MaxOps
        BY <1>3, <3>1 DEF CloseChannel, Closable
      <4>2. x \in Ops
        BY <3>1, <4>1 DEF Ops
      <4>. QED
        BY <1>1, <4>2 DEF Inv, TypeOK
  <2>2. /\ Kept(op[x]) \in Nat /\ Kept(op[x]) <= Capacity
    BY <2>1, OperationAssumption DEF Kept, Operation
  <2>3. op' = [[op EXCEPT ![o] = closing] EXCEPT ![x] = [e EXCEPT !.closed = TRUE, !.buffer = Kept(op[x])]]
    BY <1>1, <1>3, <2>1 DEF CloseChannel
  <2>4. /\ closing \in Operation /\ e \in Operation
        /\ [e EXCEPT !.closed = TRUE, !.buffer = Kept(op[x])] \in Operation
    <3>1. closing \in Operation
      BY <2>1 DEF Operation
    <3>2. e \in Operation
      BY <2>1, <3>1
    <3>. HIDE DEF e
    <3>3. [e EXCEPT !.closed = TRUE, !.buffer = Kept(op[x])] \in Operation
      BY <2>2, <3>2 DEF Operation
    <3>. QED
      BY <3>1, <3>2, <3>3
  <2>5. op' \in [Ops -> Operation]
    BY <1>1, <2>3, <2>4
  <2>6. \A y \in Ops : /\ op'[y].id = op[y].id /\ op'[y].loop = op[y].loop
                       /\ op'[y].out = op[y].out /\ op'[y].calls = op[y].calls
    BY <1>1, <2>1, <2>3 DEF Operation
  <2>7. \A y \in Ops : op'[y].closed => op'[y].buffer <= Capacity
    BY <1>1, <2>1, <2>2, <2>3 DEF Operation
  <2>. QED
    BY <1>1, <1>3, <2>5, <2>6, <2>7, ChannelsOnly DEF CloseChannel
<1>. QED
  BY <1>2, <1>3 DEF Timer

LEMMA MessageInv ==
  ASSUME Inv, NEW id \in MessageIds, HandleMessage(id) \/ SendMessage(id) \/ MessageTimeout(id)
  PROVE  Inv'
<1>1. /\ op \in [Ops -> Operation] /\ messages \in Nat /\ waiting \in [MessageIds -> Nat]
      /\ \A x \in Ops : op[x].closed => op[x].buffer <= Capacity
  BY DEF Inv, TypeOK
<1>2. waiting' \in [MessageIds -> Nat] /\ messages' \in Nat
  BY <1>1 DEF HandleMessage, SendMessage, MessageTimeout
<1>3. CASE HandleMessage(id) \/ MessageTimeout(id)
  BY <1>1, <1>2, <1>3, ChannelsOnly DEF HandleMessage, MessageTimeout
<1>4. CASE SendMessage(id)
  <2> DEFINE x == channelMap[id]
  <2>1. x \in Ops
    BY <1>4, OperationAssumption DEF SendMessage, Inv, TypeOK, Ops
  <2>2. CASE op' = op
    BY <1>1, <1>2, <1>4, <2>2, ChannelsOnly DEF SendMessage
  <2>3. CASE ~op[x].closed /\ op' = [op EXCEPT ![x].buffer = @ + 1]
    <3>1. op[x] \in Operation /\ op[x].buffer + 1 \in Nat
      BY <1>1, <2>1 DEF Operation
    <3>2. op' \in [Ops -> Operation]
      BY <1>1, <2>1, <2>3, <3>1 DEF Operation
    <3>3. \A y \in Ops : /\ op'[y].id = op[y].id /\ op'[y].loop = op[y].loop
                         /\ op'[y].out = op[y].out /\ op'[y].calls = op[y].calls
                         /\ op'[y].closed => op'[y].buffer <= Capacity
      BY <1>1, <2>1, <2>3 DEF Operation
    <3>. QED
      BY <1>2, <1>4, <3>2, <3>3, ChannelsOnly DEF SendMessage
  <2>. QED
    BY <1>4, <2>2, <2>3 DEF SendMessage
<1>. QED
  BY <1>3, <1>4

LEMMA PanicInv == Inv /\ Panic => Inv'
<1> SUFFICES ASSUME Inv, Panic PROVE Inv'
  OBVIOUS
<1>1. op \in [Ops -> Operation] /\ \A o \in Ops : Called(op[o])
  BY DEF Inv, TypeOK
<1>2. \A o \in Ops :
        /\ op'[o] \in Operation /\ ~op'[o].closed
        /\ op'[o].loop \in {"none", "ended", "died"} /\ Called(op'[o])
  <2> SUFFICES ASSUME NEW o \in Ops
               PROVE  /\ op'[o] \in Operation /\ ~op'[o].closed
                      /\ op'[o].loop \in {"none", "ended", "died"} /\ Called(op'[o])
    OBVIOUS
  <2>1. op[o] \in Operation
    BY <1>1
  <2>2. op'[o] = IF op[o].loop \in {"none", "ended"}
                THEN [NoOperation EXCEPT !.id = op[o].id, !.loop = op[o].loop,
                                         !.calls = op[o].calls]
                ELSE [NoOperation EXCEPT !.id = op[o].id, !.loop = "died"]
    BY DEF Panic
  <2>3. CASE op[o].loop \in {"none", "ended"}
    <3>1. op'[o] = [id |-> op[o].id, loop |-> op[o].loop, party |-> "none", out |-> "none",
                    timer |-> "none", buffer |-> 0, closed |-> FALSE, updates |-> 0,
                    errors |-> 0, calls |-> op[o].calls]
      BY <2>2, <2>3 DEF NoOperation
    <3>. QED
      BY <1>1, <2>1, <2>3, <3>1 DEF Operation, Called
  <2>4. CASE op[o].loop \notin {"none", "ended"}
    <3>1. op'[o] = [id |-> op[o].id, loop |-> "died", party |-> "none", out |-> "none",
                    timer |-> "none", buffer |-> 0, closed |-> FALSE, updates |-> 0,
                    errors |-> 0, calls |-> {}]
      BY <2>2, <2>4 DEF NoOperation
    <3>. QED
      BY <2>1, <3>1 DEF Operation, Called
  <2>. QED
    BY <2>3, <2>4
<1>3. op' \in [Ops -> Operation]
  <2>1. op' = [o \in Ops |-> op'[o]]
    BY DEF Panic
  <2>. QED
    BY <1>2, <2>1
<1>4. MaxOps \in Nat
  BY OperationAssumption
<1>5. channelMap' \in [MessageIds -> 0 .. MaxOps] /\ waiting' \in [MessageIds -> Nat]
  <2>1. 0 \in 0 .. MaxOps /\ 0 \in Nat
    BY <1>4
  <2>. QED
    BY <2>1 DEF Panic
<1>6. TypeOK'
  BY <1>2, <1>3, <1>5 DEF Panic, Inv, TypeOK
<1>. QED
  BY <1>2, <1>6 DEF Inv, OneOperation, Running, Called

-----------------------------------------------------------------------------
LEMMA StepInv == Inv /\ [Next]_vars => Inv'
<1> SUFFICES ASSUME Inv, [Next]_vars PROVE Inv'
  OBVIOUS
<1>1. CASE UNCHANGED vars
  BY <1>1 DEF vars, Inv, TypeOK, OneOperation, Running, Called
<1>2. ASSUME NEW o \in Ops, Loop(o) \/ End(o) \/ Timer(o) \/ PartyOut(o) \/ PartyUpdate(o)
      PROVE  Inv'
  BY <1>2, LoopInv, DeleteInv, TimerInv DEF End
<1>3. ASSUME NEW id \in MessageIds,
             StartNew(id) \/ HandleMessage(id) \/ SendMessage(id) \/ MessageTimeout(id)
      PROVE  Inv'
  BY <1>3, StartInv, MessageInv
<1>. QED
  BY <1>1, <1>2, <1>3, PanicInv DEF Next

LEMMA Invariance == Spec => []Inv
  BY InitInv, StepInv, PTL DEF Spec

\* The operations, the channel map and the goroutines have their types, and a
\* channel that was closed never holds more than its capacity.
THEOREM TypeCorrect == Spec => []TypeOK
<1>1. Inv => TypeOK
  BY DEF Inv
<1>. QED
  BY Invariance, <1>1, PTL

\* StartNewSign, StartNewKeygen and deleteInstance keep one operation per
\* message id, however operations end, time out or are started again.
THEOREM SingleOperation == Spec => []OneOperation
<1>1. Inv => OneOperation
  BY DEF Inv
<1>. QED
  BY Invariance, <1>1, PTL

\* No operation is forgotten before its caller was told of its end, or a call to
\* tell it that the operation failed was made and failed itself: neither an error,
\* a timeout nor the loss of the call that tells of a success ends it in silence.
THEOREM CallerCalledHolds == Spec => []CallerCalled
<1>1. Inv => CallerCalled
  BY DEF Inv, CallerCalled, Called
<1>. QED
  BY Invariance, <1>1, PTL
=============================================================================
