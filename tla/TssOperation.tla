---------------------------- MODULE TssOperation ----------------------------
(*****************************************************************************)
(* The operations of one tss-api process, keygen and signs of one crypto: the*)
(* loop of StartAction, the goroutines around it, and the channels between   *)
(* them.  Messages of other guards are handed to the operation that has the  *)
(* channel of their message id.                                              *)
(*                                                                           *)
(* errorCh and statusCh have no buffer: a send is a state of the sender, and *)
(* ends together with the receipt.  Channels of Go: sending to a closed one, *)
(* and closing a closed one or nil, panics, which ends the process; it is    *)
(* started again.  The cryptography of the parties is not modelled: a party  *)
(* may end, or refuse a message, at any time.                                *)
(*****************************************************************************)
EXTENDS Integers

CONSTANTS
  Signs,         \* message ids of signs
  Keygen,        \* message id of the keygen
  Capacity,      \* of the channel of gossip messages
  MaxOps,        \* BOUND: operations started
  MaxMessages    \* BOUND: messages that wait for a channel, at once

ASSUME OperationAssumption ==
  Keygen \notin Signs /\ {Capacity, MaxOps, MaxMessages} \subseteq Nat

VARIABLES
  started,       \* operations started so far
  op,            \* op[o]: the o-th operation
  channelMap,    \* ChannelMap: the operation that has the channel, 0 if none
  waiting,       \* goroutines of MessageHandler without a channel yet
  keygenFile,    \* the file with the result of keygen exists
  messages       \* BOUND: messages received so far

vars == <<started, op, channelMap, waiting, keygenFile, messages>>

MessageIds == Signs \cup {Keygen}
Ops == 1 .. MaxOps

Operation ==
  [id : MessageIds,
   loop : {"none", "refused",           \* StartNewSign returned an error
           "select", "stuck",           \* sends to itself, in CreateParty
           "failing", "deleting",       \* returned an error, or nil
           "ended", "died"},
   party : {"none", "running"},
   out : {"none", "running", "sendError", "sendStatus", "done"}, \* GossipMessageHandler
   timer : {"none", "armed", "sendError", "closing", "done"},    \* timeOutGoRoutine
   buffer : Nat, closed : BOOLEAN,      \* messageCh, with who waits for room
   updates : Nat,                       \* goroutines in PartyUpdate
   errors : Nat,                        \* goroutines that send its error
   calls : SUBSET {"success", "fail",   \* the caller was told so
                   "lost"}]             \* the call to tell of the failure failed

NoOperation ==
  [id |-> Keygen, loop |-> "none", party |-> "none", out |-> "none", timer |-> "none",
   buffer |-> 0, closed |-> FALSE, updates |-> 0, errors |-> 0, calls |-> {}]

Init ==
  /\ started = 0 /\ op = [o \in Ops |-> NoOperation]
  /\ channelMap = [id \in MessageIds |-> 0]
  /\ waiting = [id \in MessageIds |-> 0]
  /\ keygenFile = FALSE /\ messages = 0

-----------------------------------------------------------------------------
\* GetClassName, without the crypto.
ClassName(id) == IF id = Keygen THEN "Keygen" ELSE "Sign"

Forbidden(id) == IF id = Keygen THEN {"Sign", "Regroup"} ELSE {"Keygen", "Regroup"}

\* checkOperation of the controller: it looks among the operations of the kind
\* that is asked for.
CheckOperation(id) ==
  \A o \in Ops : channelMap[op[o].id] = o /\ ClassName(op[o].id) = ClassName(id)
                   => ClassName(op[o].id) \notin Forbidden(id)

\* Mutant: the id may be in use.
Unchecked(id) == TRUE

\* Otherwise "duplicated".
NewMessageId(id) == channelMap[id] = 0

\* StartNewKeygen, StartNewSign: an error returned after the channel is made
\* leaves it in the map, with the timer if Init failed.
StartNew(id) ==
  /\ started < MaxOps
  /\ CheckOperation(id) /\ NewMessageId(id) /\ (id = Keygen => ~keygenFile)
  /\ started' = started + 1
  /\ channelMap' = [channelMap EXCEPT ![id] = started + 1]
  /\ \E r \in {[loop |-> "select", timer |-> "armed"], [loop |-> "refused", timer |-> "armed"],
               [loop |-> "refused", timer |-> "none"]} :
       op' = [op EXCEPT ![started + 1] =
                [@ EXCEPT !.id = id, !.loop = r.loop, !.timer = r.timer]]
  /\ UNCHANGED <<waiting, keygenFile, messages>>

Set(o, new) == op' = [op EXCEPT ![o] = new] /\ UNCHANGED <<started, waiting, messages>>

\* Mutant: a failed operation returns no error.
ReturnNil(e) == [e EXCEPT !.loop = "deleting"]

ReturnError(e) == [e EXCEPT !.loop = "failing"]

\* StartAction: an error of any goroutine.
ReceiveError(o) ==
  LET e == op[o]
  IN /\ e.loop = "select"
     /\ \/ e.timer = "sendError" /\ Set(o, ReturnError([e EXCEPT !.timer = "closing"]))
        \/ e.out = "sendError" /\ Set(o, ReturnError([e EXCEPT !.out = "done"]))
        \/ e.errors > 0 /\ Set(o, ReturnError([e EXCEPT !.errors = @ - 1]))
     /\ UNCHANGED <<channelMap, keygenFile>>

\* A message is given to a goroutine of its own, or cannot be decoded.  The
\* channel that was closed is read until it is empty.
ReceiveMessage(o) ==
  LET e == op[o]
  IN /\ e.loop = "select"
     /\ \/ e.buffer > 0 /\ Set(o, [e EXCEPT !.buffer = @ - 1, !.updates = @ + 1])
        \/ e.buffer > 0 /\ Set(o, ReturnError([e EXCEPT !.buffer = @ - 1]))
        \/ e.buffer = 0 /\ e.closed /\ Set(o, ReturnError(e))
     /\ UNCHANGED <<channelMap, keygenFile>>

ReceiveStatus(o) ==
  LET e == op[o]
  IN /\ e.loop = "select" /\ e.out = "sendStatus"
     /\ Set(o, [e EXCEPT !.loop = "deleting", !.out = "done"])
     /\ UNCHANGED <<channelMap, keygenFile>>

\* When nothing else is to do, once.  An error is sent to the loop by the loop.
CreateParty(o) ==
  LET e == op[o]
  IN /\ e.loop = "select" /\ e.party = "none"
     /\ e.buffer = 0 /\ ~e.closed /\ e.timer # "sendError"
     /\ \/ Set(o, [e EXCEPT !.party = "running", !.out = "running"])
        \/ Set(o, [e EXCEPT !.loop = "stuck"])
     /\ UNCHANGED <<channelMap, keygenFile>>

\* GossipMessageHandler: the result is sent to the caller, then to the loop;
\* what cannot be sent is an error.
PartyOut(o) ==
  LET e == op[o]
  IN /\ e.out = "running"
     /\ \/ /\ Set(o, [e EXCEPT !.out = "sendStatus", !.calls = @ \cup {"success"}])
           /\ keygenFile' = (keygenFile \/ e.id = Keygen)
        \/ /\ Set(o, [e EXCEPT !.out = "sendError"])
           /\ keygenFile' \in {keygenFile, keygenFile \/ e.id = Keygen}
     /\ UNCHANGED channelMap

\* The goroutine of a message waits for the party, which may refuse it.
PartyUpdate(o) ==
  LET e == op[o]
  IN /\ e.updates > 0 /\ e.party = "running"
     /\ \/ Set(o, [e EXCEPT !.updates = @ - 1])
        \/ Set(o, [e EXCEPT !.updates = @ - 1, !.errors = @ + 1])
     /\ UNCHANGED <<channelMap, keygenFile>>

\* errorCallBackCall: an error of the call is only logged.
ErrorCallBack(o) ==
  LET e == op[o]
  IN /\ e.loop = "failing"
     /\ \E call \in {"fail", "lost"} :
          Set(o, [e EXCEPT !.loop = "deleting", !.calls = @ \cup {call}])
     /\ UNCHANGED <<channelMap, keygenFile>>

\* deleteInstance: errorCh is closed.
DeleteInstance(o) ==
  /\ op[o].loop = "deleting"
  /\ Set(o, [op[o] EXCEPT !.loop = "ended"])
  /\ channelMap' = [channelMap EXCEPT ![op[o].id] = 0]
  /\ UNCHANGED keygenFile

\* Mutant: only operations without a channel are timed out.
IsOver(e) == channelMap[e.id] = 0

\* Whose channel it is does not matter.
HasChannel(e) == channelMap[e.id] # 0

TimeOut(o) ==
  LET e == op[o]
  IN /\ e.timer = "armed"
     /\ Set(o, [e EXCEPT !.timer = IF HasChannel(e) THEN "sendError" ELSE "done"])
     /\ UNCHANGED <<channelMap, keygenFile>>

\* Mutant: who waits for room is not told.
KeptAll(e) == e.buffer

\* The goroutines that wait for room recover, and are gone.
Kept(e) == IF e.buffer <= Capacity THEN e.buffer ELSE Capacity

Closable(e) == channelMap[e.id] # 0 /\ ~op[channelMap[e.id]].closed

\* The timer closes the channel that is in the map by then.
CloseChannel(o) ==
  LET x == channelMap[op[o].id]
  IN /\ op[o].timer = "closing" /\ Closable(op[o])
     /\ op' = [op EXCEPT ![o].timer = "done",
                         ![x].closed = TRUE, ![x].buffer = Kept(op[x])]
     /\ UNCHANGED <<started, channelMap, waiting, keygenFile, messages>>

\* A goroutine sends to an errorCh that is closed, or the timer finds no
\* channel to close.
Panics(o) ==
  LET e == op[o]
  IN \/ e.loop = "ended" /\ (e.timer = "sendError" \/ e.out = "sendError" \/ e.errors > 0)
     \/ e.timer = "closing" /\ ~Closable(e)

Panic ==
  /\ \E o \in Ops : Panics(o)
  /\ op' = [o \in Ops |-> IF op[o].loop \in {"none", "ended"}
                          THEN [NoOperation EXCEPT !.id = op[o].id, !.loop = op[o].loop,
                                                   !.calls = op[o].calls]
                          ELSE [NoOperation EXCEPT !.id = op[o].id, !.loop = "died"]]
  /\ channelMap' = [id \in MessageIds |-> 0] /\ waiting' = [id \in MessageIds |-> 0]
  /\ UNCHANGED <<started, keygenFile, messages>>

-----------------------------------------------------------------------------
\* MessageHandler: a goroutine waits for the channel.
HandleMessage(id) ==
  /\ messages < MaxMessages /\ messages' = messages + 1
  /\ waiting' = [waiting EXCEPT ![id] = @ + 1]
  /\ UNCHANGED <<started, op, channelMap, keygenFile>>

\* It sends once there is a channel; if that is closed, the panic is recovered.
SendMessage(id) ==
  LET x == channelMap[id]
  IN /\ waiting[id] > 0 /\ x # 0
     /\ waiting' = [waiting EXCEPT ![id] = @ - 1]
     /\ \/ op[x].closed /\ UNCHANGED op
        \/ ~op[x].closed /\ op' = [op EXCEPT ![x].buffer = @ + 1]
     /\ UNCHANGED <<started, channelMap, keygenFile, messages>>

\* The time is looked at before the channel, which may be there by now.
MessageTimeout(id) ==
  /\ waiting[id] > 0
  /\ waiting' = [waiting EXCEPT ![id] = @ - 1]
  /\ UNCHANGED <<started, op, channelMap, keygenFile, messages>>

Loop(o) == ReceiveError(o) \/ ReceiveMessage(o) \/ ReceiveStatus(o) \/ CreateParty(o)
End(o) == ErrorCallBack(o) \/ DeleteInstance(o)
Timer(o) == TimeOut(o) \/ CloseChannel(o)

Next ==
  \/ \E o \in Ops : Loop(o) \/ End(o) \/ Timer(o) \/ PartyOut(o) \/ PartyUpdate(o)
  \/ \E id \in MessageIds :
       StartNew(id) \/ HandleMessage(id) \/ SendMessage(id) \/ MessageTimeout(id)
  \/ Panic

\* Goroutines go on, timers fire and HTTP calls return; parties, messages and
\* callers need not do anything.
Spec ==
  /\ Init /\ [][Next]_vars
  /\ \A o \in Ops : WF_vars(Loop(o)) /\ WF_vars(End(o)) /\ WF_vars(Timer(o))
  /\ WF_vars(Panic)

-----------------------------------------------------------------------------
TypeOK ==
  /\ started \in 0 .. MaxOps /\ op \in [Ops -> Operation]
  /\ \A o \in Ops : op[o].closed => op[o].buffer <= Capacity
  /\ channelMap \in [MessageIds -> 0 .. MaxOps]
  /\ waiting \in [MessageIds -> Nat]
  /\ keygenFile \in BOOLEAN /\ messages \in Nat

\* A message has one operation at a time, whatever ended the one before, and
\* the map leads to it: the signer takes a second one for a refusal
\* (StartNewSign, deleteInstance).
Running == {o \in Ops : op[o].loop \in {"select", "stuck", "failing", "deleting"}}

OneOperation == \A o \in Running : channelMap[op[o].id] = o

\* An operation that was started is not forgotten in silence: before it leaves
\* the maps its caller is told how it ended, or a call to tell it of a failure was
\* made and failed.  Losing the call that tells of a success is not enough: the
\* failure to tell it is told (errorCallBackCall, HandleEndMessage).
CallerCalled == \A o \in Ops : op[o].loop = "ended" => op[o].calls # {}

\* An operation ends, by its timer if nothing else ends it, whichever goroutine
\* is late; but for the error that CreateParty sends to its own goroutine
\* (timeOutGoRoutine, StartAction).
Ends ==
  \A o \in Ops : op[o].loop = "select" ~> op[o].loop \in {"ended", "died", "stuck"}
=============================================================================
