--------------------------- MODULE StreamTurnProofs ---------------------------
(***************************************************************************)
(* What the conversation lock, the SSE client and the retry key promise,   *)
(* for any requests, conversations, processes, sizes and faults.           *)
(***************************************************************************)
EXTENDS StreamTurn, SequenceTheorems, FiniteSetTheorems, TLAPS

\* Where a handler stands, what it has been told and what it is to answer.
HandlerInv(r) ==
    /\ pc[r] = "lock" => renewal[r] = "none"
    /\ pc[r] \in {"lock", "push"} => turn[r] = "none"
    /\ pc[r] \in {"lock", "push", "wait"} <=> answer[r] = "none"
    /\ pc[r] \in {"push", "wait"} /\ ~cancelled[r] => renewal[r] \in {"on", "failed"}
    /\ answer[r] = "ok" => done[r] = "ok"

\* A turn tells its handler at its end; it is on its own only with its context done.
TurnInv(r) ==
    /\ done[r] # "none" => turn[r] = "ended"
    /\ turn[r] \in {"none", "queued"} => chunks[r] = 0
    /\ pc[r] \in {"return", "done"} /\ turn[r] \notin {"none", "ended"} => cancelled[r]
    /\ cancelled[r] /\ turn[r] \in {"run", "append"} => abandoned[r]

\* A lease that is renewed in time outlives the next tick of its renewal.
LeaseInv(r) ==
    ~late[r] =>
        /\ renewal[r] = "on" => /\ owner[Key(r)] = r
                                /\ left[Key(r)] = due[r] + (Ttl - Interval)
        /\ renewal[r] = "failed" => owner[Key(r)] = r /\ left[Key(r)] >= 1
OwnerInv == \A k \in Keys : owner[k] # NoOwner => left[k] >= 1

\* The turns of a history are those of its conversation that have been appended, and a
\* turn under way has read all of them.
HistoryInv(k) ==
    \A n \in DOMAIN history[k] :
        LET q == history[k][n] IN Key(q) = k /\ turn[q] \in {"send", "ended"}
ReadInv(r) ==
    Undisturbed(Key(r)) /\ turn[r] \in {"run", "append"} => loaded[r] = Len(history[Key(r)])

\* A turn past its append has its answer in the history.
Shown(r) ==
    \E n \in DOMAIN history[Key(r)] :
        LET q == history[Key(r)][n] IN q = r \/ (q \in Recorded(r) /\ text[q] = text[r])
ShownInv(r) == turn[r] = "send" \/ done[r] = "ok" => Shown(r)
RecordedOnce(r) == \A p, q \in Recorded(r) : p = q
RetryAlike == \A q, r \in Requests : request[q].retry = request[r].retry

\* What has been sent to the client of a stream, and what is to be sent at the end.
Sent(r) == written[r] \o queue[r]
Messages(r) == [n \in 1 .. chunks[r] |-> "message"]
Whole(r) == [n \in 1 .. chunks[r] + 1 |-> IF n <= chunks[r] THEN "message" ELSE "done"]

SentInv(r) ==
    /\ pc[r] \in {"lock", "push", "wait"} => ~chanClosed[r]
    /\ pc[r] \in {"return", "done"} /\ turn[r] \notin {"none", "ended"} => chanClosed[r]
    /\ pc[r] \in {"lock", "push", "wait"} /\ turn[r] # "ended" => Sent(r) = Messages(r)
    /\ done[r] = "ok" => Sent(r) = Whole(r)

\* As long as a stream goes well its writer leaves nothing behind.
GoesWell(r) == ~disconnected[r] /\ done[r] # "error" /\ answer[r] # "error"
WriterInv(r) ==
    GoesWell(r) =>
        /\ pc[r] # "done" => ~clientDone[r]
        /\ answer[r] = "ok" => chanClosed[r]
        /\ ~writer[r] => chanClosed[r] /\ queue[r] = <<>>
        /\ pc[r] = "done" => ~writer[r]
StreamInv(r) == r \in Streams => SentInv(r) /\ WriterInv(r)

IInv ==
    /\ TypeOK /\ RetryAlike
    /\ \A r \in Requests : HandlerInv(r) /\ TurnInv(r) /\ ShownInv(r) /\ RecordedOnce(r) /\ StreamInv(r)
    /\ \A k \in Keys : HistoryInv(k)
LInv ==
    /\ \A r \in Requests : LeaseInv(r) /\ ReadInv(r)
    /\ OwnerInv /\ LockedTurnsSerial
-----------------------------------------------------------------------------
\* Durations and sizes are what the constructors make of them (lock.go:35-47, sse.go:28-40).
LEMMA Durations == Ttl \in Nat \ {0} /\ Interval \in 1 .. Ttl /\ Buffer \in Nat \ {0}
BY LockAssumption, StreamAssumption DEF Ttl, Interval, Buffer

Event == {"message", "done", "error"}

\* The operations of an SSE client keep its types.
LEMMA ClientOperations ==
    ASSUME ClientTypeOK, NEW r \in Requests,
           \/ \E event \in Event : Send(r, event) \/ SendAndFinish(r, event)
           \/ SendFails(r) \/ SendPanics(r) \/ CloseChannel(r) \/ CloseContext(r)
           \/ WriteEvent(r) \/ WriterEnds(r)
    PROVE  ClientTypeOK'
<1> USE Durations DEF ClientTypeOK, Event
<1>1. ASSUME NEW event \in Event, Send(r, event) PROVE ClientTypeOK'
  BY <1>1 DEF Send
<1>2. ASSUME NEW event \in Event, SendAndFinish(r, event) PROVE ClientTypeOK'
  <2>1. chanClosed' \in [Requests -> BOOLEAN] /\ UNCHANGED <<writer, written, panicked>>
    BY <1>2 DEF SendAndFinish
  <2>2. CASE Len(queue[r]) < Buffer /\ queue' = [queue EXCEPT ![r] = Append(@, event)]
             /\ UNCHANGED clientDone
    BY <2>1, <2>2
  <2>3. CASE UNCHANGED queue /\ clientDone' = [clientDone EXCEPT ![r] = TRUE]
    BY <2>1, <2>3
  <2> QED BY <1>2, <2>2, <2>3 DEF SendAndFinish
<1>3. CASE SendFails(r) \/ SendPanics(r)
  BY <1>3 DEF SendFails, SendPanics
<1>4. CASE CloseChannel(r) \/ CloseContext(r)
  BY <1>4 DEF CloseChannel, CloseContext
<1>5. CASE WriteEvent(r)
  BY <1>5 DEF WriteEvent
<1>6. CASE WriterEnds(r)
  BY <1>6 DEF WriterEnds
<1> QED BY <1>1, <1>2, <1>3, <1>4, <1>5, <1>6

\* The commands of the lock and the ticks of its renewals keep theirs.
LEMMA LockOperations ==
    ASSUME LockTypeOK, NEW r \in Requests, NEW k \in Keys, NEW broken \in BOOLEAN,
           \/ SetNX(r, k) \/ SetNXFails(r, k) \/ Renew(r, k) \/ RenewFails(r, k, broken)
           \/ Unlock(r, k, broken) \/ StopRenewal(r)
    PROVE  LockTypeOK'
<1> USE Durations DEF LockTypeOK
<1>1. CASE SetNX(r, k) \/ SetNXFails(r, k)
  BY <1>1 DEF SetNX, SetNXFails
<1>2. CASE Renew(r, k) \/ RenewFails(r, k, broken)
  BY <1>2 DEF Renew, RenewFails
<1>3. CASE Unlock(r, k, broken) \/ StopRenewal(r)
  BY <1>3 DEF Unlock, StopRenewal
<1> QED BY <1>1, <1>2, <1>3

\* A second that passes keeps them, too.
LEMMA TickTypes == LockTypeOK /\ Tick => LockTypeOK'
BY Durations DEF LockTypeOK, Tick

\* A request is about one of the conversations.
LEMMA KeyType == ASSUME TypeOK, NEW r \in Requests PROVE Key(r) \in Keys
BY DEF TypeOK, Key, RequestType

\* Every step keeps the types of the SSE clients,
LEMMA ClientTypeStep == ASSUME TypeOK, [Next]_vars PROVE ClientTypeOK'
<1> USE ClientOperations DEF Event, ToClient
<1>1. ClientTypeOK
  BY DEF TypeOK
<1>2. ASSUME UNCHANGED clientVars PROVE ClientTypeOK'
  BY <1>1, <1>2 DEF clientVars, ClientTypeOK
<1>3. ASSUME NEW r \in Requests, Handler(r) PROVE ClientTypeOK'
  <2>1. CASE Lock(r) \/ Push(r)
    BY <1>2, <2>1 DEF Lock, Push
  <2>2. CASE LockFails(r) \/ PushFails(r)
    BY <1>1, <1>2, <2>2 DEF LockFails, PushFails
  <2>3. CASE SessionFails(r)
    BY <1>1, <1>2, <2>3 DEF SessionFails
  <2>4. CASE Receive(r) \/ GiveUp(r)
    BY <1>1, <1>2, <2>4 DEF Receive, GiveUp
  <2>5. CASE Return(r)
    BY <1>1, <1>2, <2>5 DEF Return
  <2> QED BY <1>3, <2>1, <2>2, <2>3, <2>4, <2>5 DEF Handler
<1>4. ASSUME NEW r \in Requests, Disconnect(r) \/ Renewal(r) \/ Writer(r) PROVE ClientTypeOK'
  BY <1>1, <1>2, <1>4 DEF Disconnect, Renewal, LeaseLost, Writer
<1>5. ASSUME NEW r \in Requests, Turn(r) PROVE ClientTypeOK'
  <2>1. CASE Build(r) \/ AgentDone(r) \/ AppendTurn(r)
    BY <1>2, <2>1 DEF Build, AgentDone, AppendTurn
  <2>2. CASE Message(r)
    BY <1>1, <1>2, <2>2 DEF Message
  <2>3. CASE SendDone(r)
    BY <1>1, <1>2, <2>3 DEF SendDone
  <2> QED BY <1>5, <2>1, <2>2, <2>3 DEF Turn
<1>6. CASE Pass \/ UNCHANGED vars
  BY <1>2, <1>6 DEF Pass, vars
<1> QED BY <1>3, <1>4, <1>5, <1>6 DEF Next, Over

\* those of the locks and their renewals,
LEMMA LockTypeStep == ASSUME TypeOK, [Next]_vars PROVE LockTypeOK'
<1> USE LockOperations
<1>1. LockTypeOK /\ Broken \in BOOLEAN
  BY DEF TypeOK, Broken
<1>2. ASSUME UNCHANGED lockVars PROVE LockTypeOK'
  BY <1>1, <1>2 DEF lockVars, LockTypeOK
<1>3. ASSUME NEW r \in Requests, Handler(r) PROVE LockTypeOK'
  <2>1. CASE Lock(r)
    BY <1>1, <2>1, KeyType DEF Lock
  <2>2. CASE LockFails(r)
    BY <1>1, <1>2, <2>2, KeyType DEF LockFails
  <2>3. CASE Return(r)
    BY <1>1, <1>2, <2>3, KeyType DEF Return
  <2> QED BY <1>2, <1>3, <2>1, <2>2, <2>3
          DEF Handler, SessionFails, PushFails, Push, Receive, GiveUp
<1>4. ASSUME NEW r \in Requests, Disconnect(r) \/ Renewal(r) \/ Writer(r) PROVE LockTypeOK'
  BY <1>1, <1>2, <1>4, KeyType DEF Disconnect, Renewal, LeaseLost, Writer
<1>5. ASSUME NEW r \in Requests, Turn(r) PROVE LockTypeOK'
  BY <1>2, <1>5 DEF Turn, Build, Message, AgentDone, AppendTurn, SendDone
<1>6. CASE Pass
  BY <1>1, <1>6, TickTypes DEF Pass
<1>7. CASE UNCHANGED vars
  BY <1>2, <1>7 DEF vars
<1> QED BY <1>3, <1>4, <1>5, <1>6, <1>7 DEF Next, Over

\* The types of the handlers and of the turns.
HandlerTypeOK ==
    /\ faults \in Faults
    /\ request \in [Requests -> RequestType]
    /\ pc \in [Requests -> {"lock", "push", "wait", "return", "done"}]
    /\ cancelled \in [Requests -> BOOLEAN] /\ disconnected \in [Requests -> BOOLEAN]
    /\ abandoned \in [Requests -> BOOLEAN]
    /\ answer \in [Requests -> {"none", "ok", "error"}]
TurnTypeOK ==
    /\ done \in [Requests -> {"none", "ok", "error"}]
    /\ turn \in [Requests -> {"none", "queued", "run", "append", "send", "ended"}]
    /\ chunks \in [Requests -> 0 .. MaxChunks]
    /\ text \in [Requests -> Answers \cup {"none"}]
    /\ history \in [Keys -> Seq(Requests)]
    /\ loaded \in [Requests -> Nat]

\* The type invariant, taken apart for the steps that need a part of it.
LEMMA TypeParts == TypeOK => LockTypeOK /\ ClientTypeOK /\ HandlerTypeOK /\ TurnTypeOK
BY DEF TypeOK, HandlerTypeOK, TurnTypeOK

\* and those of the handlers and the turns.
LEMMA HandlerTypeStep == ASSUME TypeOK, [Next]_vars PROVE HandlerTypeOK' /\ TurnTypeOK'
<1> USE DEF HandlerTypeOK, TurnTypeOK, handlerVars, contextVars, turnVars, setup, Goto,
            GotoReturn, Cancel
<1>1. HandlerTypeOK /\ TurnTypeOK
  BY TypeParts
<1>2. ASSUME NEW r \in Requests, Handler(r) PROVE HandlerTypeOK' /\ TurnTypeOK'
  <2>1. CASE Lock(r) \/ Push(r)
    BY <1>1, <2>1 DEF Lock, Push
  <2>2. CASE LockFails(r) \/ SessionFails(r) \/ PushFails(r)
    BY <1>1, <2>2 DEF LockFails, SessionFails, PushFails
  <2>3. CASE Receive(r) \/ GiveUp(r)
    BY <1>1, <2>3 DEF Receive, GiveUp
  <2>4. CASE Return(r)
    BY <1>1, <2>4 DEF Return
  <2> QED BY <1>2, <2>1, <2>2, <2>3, <2>4 DEF Handler
<1>3. ASSUME NEW r \in Requests, Disconnect(r) \/ Renewal(r) \/ Writer(r)
      PROVE  HandlerTypeOK' /\ TurnTypeOK'
  BY <1>1, <1>3 DEF Disconnect, Renewal, LeaseLost, Writer
<1>4. ASSUME NEW r \in Requests, Turn(r) PROVE HandlerTypeOK' /\ TurnTypeOK'
  <2> USE DEF EndTurn
  <2>1. CASE Build(r)
    <3>1. CASE turn' = [turn EXCEPT ![r] = "run"] /\ UNCHANGED done
               /\ loaded' = [loaded EXCEPT ![r] = Len(history[Key(r)])]
      <4>1. Len(history[Key(r)]) \in Nat
        BY <1>1, KeyType
      <4> QED BY <1>1, <2>1, <3>1, <4>1 DEF Build
    <3>2. CASE EndTurn(r, "error") /\ UNCHANGED loaded
      BY <1>1, <2>1, <3>2 DEF Build
    <3> QED BY <2>1, <3>1, <3>2 DEF Build
  <2>2. CASE Message(r)
    <3>1. UNCHANGED <<handlerVars, contextVars, setup, text, history, loaded>>
      BY <2>2 DEF Message
    <3>2. CASE chunks' = [chunks EXCEPT ![r] = @ + 1] /\ UNCHANGED <<turn, done>>
      <4>1. chunks[r] + 1 \in 0 .. MaxChunks
        BY <1>1, <2>2, StreamAssumption DEF Message
      <4> QED BY <1>1, <3>1, <3>2, <4>1
    <3>3. CASE EndTurn(r, "error") /\ UNCHANGED chunks
      BY <1>1, <3>1, <3>3
    <3>4. CASE turn' = [turn EXCEPT ![r] = "ended"] /\ UNCHANGED <<done, chunks>>
      BY <1>1, <3>1, <3>4
    <3> QED BY <2>2, <3>2, <3>3, <3>4 DEF Message
  <2>3. CASE AgentDone(r)
    BY <1>1, <2>3 DEF AgentDone
  <2>4. CASE AppendTurn(r)
    <3>1. history' \in [Keys -> Seq(Requests)]
      <4>1. Commit(r) \/ UNCHANGED history
        BY <2>4 DEF AppendTurn
      <4>2. Append(history[Key(r)], r) \in Seq(Requests)
        BY <1>1, KeyType, AppendProperties
      <4> QED BY <1>1, <4>1, <4>2 DEF Commit
    <3>2. UNCHANGED <<handlerVars, contextVars, setup, chunks, text, loaded>>
      BY <2>4 DEF AppendTurn
    <3>3. CASE turn' = [turn EXCEPT ![r] = "send"] /\ UNCHANGED done
      BY <1>1, <3>1, <3>2, <3>3
    <3>4. CASE EndTurn(r, "error")
      BY <1>1, <3>1, <3>2, <3>4
    <3> QED BY <2>4, <3>3, <3>4 DEF AppendTurn
  <2>5. CASE SendDone(r)
    BY <1>1, <2>5 DEF SendDone
  <2> QED BY <1>4, <2>1, <2>2, <2>3, <2>4, <2>5 DEF Turn
<1>5. CASE Pass \/ UNCHANGED vars
  BY <1>1, <1>5 DEF Pass, vars
<1> QED BY <1>2, <1>3, <1>4, <1>5 DEF Next, Over

\* Every variable keeps its type.
LEMMA TypeStep == TypeOK /\ [Next]_vars => TypeOK'
BY ClientTypeStep, LockTypeStep, HandlerTypeStep DEF TypeOK, HandlerTypeOK, TurnTypeOK

\* The conversation of a request and the requests that stream stay what they are.
LEMMA SetupKept ==
    ASSUME [Next]_vars
    PROVE  UNCHANGED setup /\ Streams' = Streams /\ (\A r \in Requests : Key(r)' = Key(r))
<1>1. UNCHANGED setup
  BY DEF Next, vars, Handler, Turn, Lock, LockFails, SessionFails, PushFails, Push, Receive,
         GiveUp, Return, Disconnect, Renewal, LeaseLost, Writer, Build, Message, AgentDone,
         AppendTurn, SendDone, Pass, Over
<1> QED BY <1>1 DEF setup, Streams, Key
-----------------------------------------------------------------------------
\* A handler goes on until its turn is reported, its context is done or it gives up.
LEMMA HandlerStep ==
    ASSUME TypeOK, \A r \in Requests : HandlerInv(r) /\ TurnInv(r), [Next]_vars,
           NEW q \in Requests
    PROVE  HandlerInv(q)'
<1> USE TypeParts, TypeStep DEF LockTypeOK, HandlerTypeOK, TurnTypeOK, HandlerInv, TurnInv, handlerVars,
        contextVars, turnVars, lockVars, Goto, GotoReturn, Cancel
<1>1. ASSUME NEW r \in Requests, Handler(r) PROVE HandlerInv(q)'
  <2>1. CASE Lock(r)
    BY <2>1 DEF Lock, SetNX
  <2>2. CASE LockFails(r)
    BY <2>2 DEF LockFails, SetNXFails
  <2>3. CASE SessionFails(r) \/ PushFails(r)
    BY <2>3 DEF SessionFails, PushFails
  <2>4. CASE Push(r)
    BY <2>4 DEF Push
  <2>5. CASE Receive(r) \/ GiveUp(r)
    BY <2>5 DEF Receive, GiveUp
  <2>6. CASE Return(r)
    BY <2>6 DEF Return, Unlock
  <2> QED BY <1>1, <2>1, <2>2, <2>3, <2>4, <2>5, <2>6 DEF Handler
<1>2. ASSUME NEW r \in Requests, Disconnect(r) PROVE HandlerInv(q)'
  BY <1>2 DEF Disconnect, StopRenewal
<1>3. ASSUME NEW r \in Requests, Renewal(r) PROVE HandlerInv(q)'
  BY <1>3 DEF Renewal, Renew, RenewFails, LeaseLost, StopRenewal
<1>4. ASSUME NEW r \in Requests, Turn(r) PROVE HandlerInv(q)'
  <2> USE DEF EndTurn
  <2>1. CASE Build(r) \/ AgentDone(r)
    BY <2>1 DEF Build, AgentDone
  <2>2. CASE AppendTurn(r)
    BY <2>2 DEF AppendTurn
  <2>3. CASE Message(r) \/ SendDone(r)
    BY <2>3 DEF Message, SendDone
  <2> QED BY <1>4, <2>1, <2>2, <2>3 DEF Turn
<1>5. CASE Pass
  BY <1>5 DEF Pass, Tick
<1>6. CASE UNCHANGED vars \/ \E r \in Requests : Writer(r)
  BY <1>6 DEF Writer, vars
<1> QED BY <1>1, <1>2, <1>3, <1>4, <1>5, <1>6 DEF Next, Over

\* A turn reports at its end, and runs on its own only when its context is done.
LEMMA TurnStep ==
    ASSUME TypeOK, \A r \in Requests : HandlerInv(r) /\ TurnInv(r), [Next]_vars,
           NEW q \in Requests
    PROVE  TurnInv(q)'
<1> USE TypeParts, TypeStep DEF HandlerTypeOK, TurnTypeOK, HandlerInv, TurnInv, handlerVars,
        contextVars, turnVars, Goto, GotoReturn, Cancel
<1>1. ASSUME NEW r \in Requests, Handler(r) PROVE TurnInv(q)'
  <2>1. CASE Lock(r) \/ LockFails(r) \/ SessionFails(r) \/ PushFails(r)
    BY <2>1 DEF Lock, LockFails, SessionFails, PushFails
  <2>2. CASE Push(r)
    BY <2>2 DEF Push
  <2>3. CASE Receive(r) \/ GiveUp(r)
    BY <2>3 DEF Receive, GiveUp
  <2>4. CASE Return(r)
    BY <2>4 DEF Return
  <2> QED BY <1>1, <2>1, <2>2, <2>3, <2>4 DEF Handler
<1>2. ASSUME NEW r \in Requests, Disconnect(r) \/ Renewal(r) PROVE TurnInv(q)'
  <2>1. CASE Disconnect(r)
    BY <2>1 DEF Disconnect
  <2>2. CASE LeaseLost(r)
    BY <2>2 DEF LeaseLost
  <2> QED BY <1>2, <2>1, <2>2 DEF Renewal
<1>3. ASSUME NEW r \in Requests, Turn(r) PROVE TurnInv(q)'
  <2> USE DEF EndTurn
  <2>1. CASE Build(r)
    BY <2>1 DEF Build
  <2>2. CASE AgentDone(r)
    BY <2>2 DEF AgentDone
  <2>3. CASE AppendTurn(r)
    BY <2>3 DEF AppendTurn
  <2>4. CASE Message(r)
    BY <2>4 DEF Message
  <2>5. CASE SendDone(r)
    BY <2>5 DEF SendDone
  <2> QED BY <1>3, <2>1, <2>2, <2>3, <2>4, <2>5 DEF Turn
<1>4. CASE UNCHANGED vars \/ Pass \/ \E r \in Requests : Writer(r)
  BY <1>4 DEF Writer, Pass, vars
<1> QED BY <1>1, <1>2, <1>3, <1>4 DEF Next, Over

\* Who changes the history, and how: a commit of a turn that is to be appended.
LEMMA HistoryStep ==
    ASSUME [Next]_vars
    PROVE  \/ UNCHANGED history
           \/ \E r \in Requests : /\ turn[r] = "append" /\ Recorded(r) = {} /\ Commit(r)
                                  /\ UNCHANGED <<loaded, text>>
                                  /\ \/ turn' = [turn EXCEPT ![r] = "send"] /\ UNCHANGED done
                                     \/ EndTurn(r, "error")
BY DEF Next, vars, Handler, Turn, Lock, LockFails, SessionFails, PushFails, Push, Receive,
       GiveUp, Return, Disconnect, Renewal, LeaseLost, Writer, Build, Message, AgentDone,
       AppendTurn, SendDone, Pass, Over, turnVars

Appended(r) == turn[r] \in {"send", "ended"}

\* A turn that has been appended stays so, and keeps its answer and what it has read.
LEMMA AppendedKept ==
    ASSUME TypeOK, \A r \in Requests : HandlerInv(r) /\ TurnInv(r), [Next]_vars,
           NEW q \in Requests, Appended(q)
    PROVE  Appended(q)' /\ text[q]' = text[q] /\ loaded[q]' = loaded[q]
<1> USE TypeParts DEF HandlerTypeOK, TurnTypeOK, HandlerInv, turnVars, Appended
<1>1. ASSUME NEW r \in Requests, Handler(r)
      PROVE  Appended(q)' /\ text[q]' = text[q] /\ loaded[q]' = loaded[q]
  BY <1>1 DEF Handler, Lock, LockFails, SessionFails, PushFails, Push, Receive, GiveUp, Return
<1>2. ASSUME NEW r \in Requests, Turn(r)
      PROVE  Appended(q)' /\ text[q]' = text[q] /\ loaded[q]' = loaded[q]
  <2> USE DEF EndTurn
  <2>1. CASE Build(r)
    BY <2>1 DEF Build
  <2>2. CASE AgentDone(r)
    BY <2>2 DEF AgentDone
  <2>3. CASE AppendTurn(r)
    BY <2>3 DEF AppendTurn
  <2>4. CASE Message(r)
    BY <2>4 DEF Message
  <2>5. CASE SendDone(r)
    BY <2>5 DEF SendDone
  <2> QED BY <1>2, <2>1, <2>2, <2>3, <2>4, <2>5 DEF Turn
<1>3. CASE \/ UNCHANGED vars \/ Pass
           \/ \E r \in Requests : Disconnect(r) \/ Renewal(r) \/ Writer(r)
  BY <1>3 DEF vars, Disconnect, Renewal, LeaseLost, Writer, Pass
<1> QED BY <1>1, <1>2, <1>3 DEF Next, Over

\* A commit puts the turn behind those that are there.
LEMMA CommitEffect ==
    ASSUME TypeOK, NEW r \in Requests, Commit(r)
    PROVE  /\ \A k \in Keys : k # Key(r) => history'[k] = history[k]
           /\ DOMAIN history'[Key(r)] = 1 .. Len(history[Key(r)]) + 1
           /\ Len(history'[Key(r)]) = Len(history[Key(r)]) + 1
           /\ \A n \in 1 .. Len(history[Key(r)]) : history'[Key(r)][n] = history[Key(r)][n]
           /\ history'[Key(r)][Len(history[Key(r)]) + 1] = r
           /\ DOMAIN history[Key(r)] = 1 .. Len(history[Key(r)]) /\ Len(history[Key(r)]) \in Nat
<1>1. history[Key(r)] \in Seq(Requests) /\ Key(r) \in Keys
  BY KeyType DEF TypeOK
<1>2. history'[Key(r)] = Append(history[Key(r)], r)
  BY <1>1 DEF Commit, TypeOK
<1>3. \A k \in Keys : k # Key(r) => history'[k] = history[k]
  BY <1>1 DEF Commit, TypeOK
<1> QED BY <1>1, <1>2, <1>3, AppendProperties

\* A history holds appended turns of its own conversation.
LEMMA HistoryInvStep ==
    ASSUME TypeOK, \A r \in Requests : HandlerInv(r) /\ TurnInv(r), [Next]_vars,
           NEW k \in Keys, HistoryInv(k)
    PROVE  HistoryInv(k)'
<1>1. \A n \in DOMAIN history[k] : history[k][n] \in Requests /\ Key(history[k][n]) = k
                                   /\ Appended(history[k][n])
  BY DEF TypeOK, HistoryInv, Appended
<1>2. \A n \in DOMAIN history[k] : /\ request'[history[k][n]].key = k
                                   /\ turn'[history[k][n]] \in {"send", "ended"}
  <2> SUFFICES ASSUME NEW q \in Requests, Key(q) = k, Appended(q)
               PROVE  request'[q].key = k /\ turn'[q] \in {"send", "ended"}
    BY <1>1
  <2> QED BY AppendedKept, SetupKept DEF Appended, Key
<1>3. SUFFICES \A n \in DOMAIN history'[k] : /\ request'[history'[k][n]].key = k
                                             /\ turn'[history'[k][n]] \in {"send", "ended"}
  BY DEF HistoryInv, Key
<1>4. CASE UNCHANGED history
  BY <1>2, <1>4
<1>5. ASSUME NEW r \in Requests, Commit(r),
             turn' = [turn EXCEPT ![r] = "send"] \/ EndTurn(r, "error")
      PROVE  \A n \in DOMAIN history'[k] : /\ request'[history'[k][n]].key = k
                                           /\ turn'[history'[k][n]] \in {"send", "ended"}
  <2>1. CASE k # Key(r)
    BY <1>2, <1>5, <2>1, CommitEffect
  <2>2. CASE k = Key(r)
    <3>1. turn'[r] \in {"send", "ended"} /\ request'[r].key = k
      BY <1>5, <2>2, SetupKept, TypeParts DEF TurnTypeOK, EndTurn, Key
    <3>2. DOMAIN history[k] = 1 .. Len(history[k]) /\ Len(history[k]) \in Nat
      BY <1>5, <2>2, CommitEffect
    <3>3. ASSUME NEW n \in 1 .. Len(history[k]) + 1
          PROVE  history'[k][n] = IF n = Len(history[k]) + 1 THEN r ELSE history[k][n]
      BY <1>5, <2>2, <3>2, CommitEffect
    <3>4. DOMAIN history'[k] = 1 .. Len(history[k]) + 1
      BY <1>5, <2>2, CommitEffect
    <3> QED BY <1>2, <3>1, <3>2, <3>3, <3>4
  <2> QED BY <2>1, <2>2
<1> QED BY <1>4, <1>5, HistoryStep
-----------------------------------------------------------------------------
\* r's turns in the history of its conversation.
InHistory(r, q) == \E n \in DOMAIN history[Key(r)] : history[Key(r)][n] = q

\* A commit adds its turn to the histories and to what is recorded of a retry key.
LEMMA InHistoryStep ==
    ASSUME TypeOK, [Next]_vars, NEW r \in Requests, NEW q \in Requests
    PROVE  /\ InHistory(r, q) => InHistory(r, q)'
           /\ InHistory(r, q)' /\ ~InHistory(r, q) =>
                 Key(r) = Key(q) /\ turn[q] = "append" /\ Recorded(q) = {} /\ Commit(q)
<1>1. Key(r)' = Key(r) /\ Key(r) \in Keys
  BY SetupKept, KeyType
<1>2. CASE UNCHANGED history
  BY <1>1, <1>2 DEF InHistory
<1>3. ASSUME NEW p \in Requests, turn[p] = "append", Recorded(p) = {}, Commit(p)
      PROVE  /\ InHistory(r, q) => InHistory(r, q)'
             /\ InHistory(r, q)' /\ ~InHistory(r, q) => p = q /\ Key(r) = Key(q)
  <2>1. CASE Key(p) # Key(r)
    BY <1>1, <1>3, <2>1, CommitEffect DEF InHistory
  <2>2. CASE Key(p) = Key(r)
    <3> DEFINE k == Key(r)
    <3>1. /\ DOMAIN history[k] = 1 .. Len(history[k]) /\ Len(history[k]) \in Nat
          /\ DOMAIN history'[k] = 1 .. Len(history[k]) + 1
          /\ \A n \in 1 .. Len(history[k]) : history'[k][n] = history[k][n]
          /\ history'[k][Len(history[k]) + 1] = p
      BY <1>3, <2>2, CommitEffect
    <3>2. InHistory(r, q)' <=> \E n \in DOMAIN history'[k] : history'[k][n] = q
      BY <1>1 DEF InHistory
    <3> QED BY <2>2, <3>1, <3>2 DEF InHistory
  <2> QED BY <2>1, <2>2
<1> QED BY <1>2, <1>3, HistoryStep

\* What is recorded of a retry key, in terms of the histories.
LEMMA RecordedIs ==
    ASSUME NEW r \in Requests
    PROVE  Recorded(r) = {q \in Requests : /\ request[r].retry /\ request[q].retry
                                           /\ Key(q) = Key(r) /\ InHistory(r, q)}
BY DEF Recorded, InHistory

\* A retry key is recorded once.
LEMMA RecordedStep ==
    ASSUME TypeOK, RetryAlike, [Next]_vars, NEW r \in Requests, RecordedOnce(r)
    PROVE  RecordedOnce(r)'
<1>1. request' = request
  BY SetupKept DEF setup
<1> SUFFICES ASSUME request[r].retry,
                    NEW p \in Requests, Key(p) = Key(r), InHistory(r, p)', request[p].retry,
                    NEW q \in Requests, Key(q) = Key(r), InHistory(r, q)', request[q].retry
             PROVE  p = q
  BY <1>1 DEF RecordedOnce, Recorded, InHistory, Key
<1>2. ASSUME InHistory(r, p), InHistory(r, q) PROVE p = q
  BY <1>2, RecordedIs DEF RecordedOnce
<1>3. ASSUME NEW x \in Requests, NEW y \in Requests, request[x].retry, request[y].retry,
             Key(x) = Key(r), Key(y) = Key(r),
             InHistory(r, x), InHistory(r, y)', ~InHistory(r, y)
      PROVE  FALSE
  <2>1. Recorded(y) = {} /\ Key(y) = Key(r)
    BY <1>3, InHistoryStep
  <2>2. x \in Recorded(y)
    BY <1>3, <2>1 DEF Recorded, InHistory
  <2> QED BY <2>1, <2>2
<1>4. ASSUME ~InHistory(r, p), ~InHistory(r, q) PROVE p = q
  <2>1. Commit(p) /\ Commit(q) /\ Key(p) = Key(r) /\ Key(q) = Key(r)
    BY <1>4, InHistoryStep
  <2> QED BY <2>1, CommitEffect
<1> QED BY <1>2, <1>3, <1>4

\* A turn past its append keeps its answer in the history.
LEMMA ShownStep ==
    ASSUME TypeOK, [Next]_vars, NEW r \in Requests, ShownInv(r),
           \A q \in Requests : HandlerInv(q) /\ TurnInv(q),
           \A k \in Keys : HistoryInv(k)
    PROVE  ShownInv(r)'
<1> DEFINE Good(q) == q = r \/ (request[r].retry /\ request[q].retry /\ Key(q) = Key(r)
                                /\ text[q] = text[r])
<1>1. Shown(r) <=> \E q \in Requests : InHistory(r, q) /\ Good(q)
  <2>1. \A n \in DOMAIN history[Key(r)] : history[Key(r)][n] \in Requests
    BY KeyType DEF TypeOK
  <2> QED BY <2>1, RecordedIs DEF Shown, InHistory
<1>2. Shown(r)' <=> \E q \in Requests : InHistory(r, q)' /\ Good(q)'
  <2>1. Key(r)' \in Keys /\ TypeOK'
    BY KeyType, SetupKept, TypeStep
  <2>2. \A n \in DOMAIN history'[Key(r)'] : history'[Key(r)'][n] \in Requests
    BY <2>1 DEF TypeOK
  <2> QED BY <2>2 DEF Shown, InHistory, Recorded
<1>3. ASSUME Shown(r), Appended(r) PROVE Shown(r)'
  <2>1. PICK q \in Requests : InHistory(r, q) /\ Good(q)
    BY <1>1, <1>3
  <2>2. Appended(q)
    BY <2>1, KeyType DEF InHistory, HistoryInv, Appended
  <2>3. InHistory(r, q)' /\ Good(q)'
    BY <1>3, <2>1, <2>2, AppendedKept, InHistoryStep, SetupKept DEF setup
  <2> QED BY <1>2, <2>3
<1>4. CASE turn[r] = "send" \/ done[r] = "ok"
  BY <1>3, <1>4 DEF ShownInv, Appended, TurnInv
<1>5. CASE ~(turn[r] = "send" \/ done[r] = "ok")
  <2> SUFFICES ASSUME turn'[r] = "send" \/ done'[r] = "ok" PROVE Shown(r)'
    BY DEF ShownInv
  <2>1. turn[r] = "append" /\ AppendTurn(r) /\ turn'[r] = "send"
    BY <1>5, TypeParts DEF HandlerTypeOK, TurnTypeOK,
       Next, vars, Handler, Turn, Lock, LockFails, SessionFails, PushFails, Push, Receive,
       GiveUp, Return, Disconnect, Renewal, LeaseLost, Writer, Build, Message, AgentDone,
       AppendTurn, SendDone, Pass, Over, turnVars, EndTurn
  <2>2. CASE Commit(r)
    <3>1. InHistory(r, r)'
      BY <2>2, CommitEffect, SetupKept DEF InHistory
    <3> QED BY <1>2, <3>1
  <2>3. CASE UNCHANGED history /\ \E q \in Recorded(r) : text[q] = text[r]
    <3>1. PICK q \in Requests : InHistory(r, q) /\ Good(q)
      BY <2>3, RecordedIs
    <3>2. UNCHANGED text
      BY <2>1 DEF AppendTurn
    <3> QED BY <1>2, <2>3, <3>1, <3>2, SetupKept DEF InHistory, setup
  <2> QED BY <2>1, <2>2, <2>3, TypeParts DEF AppendTurn, EndTurn, TurnTypeOK
<1> QED BY <1>4, <1>5
-----------------------------------------------------------------------------
\* With a time to live of two seconds or more a renewal comes before the expiry
\* (lock.go:42-46).
LEMMA RenewalInTime == Ttl >= 2 => Interval <= Ttl - 1
BY LockAssumption DEF Ttl, Interval

\* A lease that is renewed in time outlives the time that passes (lock.go:124-146).
LEMMA LeaseStep ==
    ASSUME Ttl >= 2, TypeOK, \A r \in Requests : HandlerInv(r) /\ LeaseInv(r), [Next]_vars,
           NEW q \in Requests
    PROVE  LeaseInv(q)'
<1> DEFINE k == Key(q)
<1>1. Key(q)' = k /\ k \in Keys /\ LockTypeOK /\ \A r \in Requests : Key(r) \in Keys
  BY SetupKept, KeyType, TypeParts
<1> HIDE DEF k
<1>2. SUFFICES ASSUME ~late'[q]
               PROVE  /\ renewal'[q] = "on" => /\ owner'[k] = q
                                               /\ left'[k] = due'[q] + (Ttl - Interval)
                      /\ renewal'[q] = "failed" => owner'[k] = q /\ left'[k] >= 1
  BY <1>1 DEF LeaseInv
<1> DEFINE Goal == /\ renewal'[q] = "on" => /\ owner'[k] = q
                                            /\ left'[k] = due'[q] + (Ttl - Interval)
                   /\ renewal'[q] = "failed" => owner'[k] = q /\ left'[k] >= 1
<1>3. ~late[q] => /\ renewal[q] = "on" => owner[k] = q /\ left[k] = due[q] + (Ttl - Interval)
                  /\ renewal[q] = "failed" => owner[k] = q /\ left[k] >= 1
  BY DEF LeaseInv, k
<1>4. NoOwner # q /\ k = Key(q)
  BY LockAssumption DEF k
<1>5. /\ Interval \in Nat /\ Ttl \in Nat /\ Ttl - Interval >= 1 /\ Interval >= 1
  BY Durations, RenewalInTime
<1> USE DEF LockTypeOK
<1>6. ASSUME UNCHANGED lockVars PROVE Goal
  BY <1>1, <1>2, <1>3, <1>6 DEF lockVars
<1>7. ASSUME NEW r \in Requests, SetNX(r, Key(r)) PROVE Goal
  BY <1>1, <1>2, <1>3, <1>4, <1>5, <1>7 DEF SetNX
<1>8. ASSUME NEW r \in Requests, pc[r] = "lock", SetNXFails(r, Key(r)) PROVE Goal
  BY <1>1, <1>2, <1>3, <1>4, <1>5, <1>8 DEF SetNXFails, HandlerInv
<1>9. ASSUME NEW r \in Requests, Unlock(r, Key(r), Broken) PROVE Goal
  BY <1>1, <1>2, <1>3, <1>4, <1>5, <1>9 DEF Unlock
<1>10. ASSUME NEW r \in Requests, StopRenewal(r) PROVE Goal
  BY <1>1, <1>2, <1>3, <1>4, <1>5, <1>10 DEF StopRenewal
<1>11. ASSUME NEW r \in Requests, Renew(r, Key(r)) PROVE Goal
  BY <1>1, <1>2, <1>3, <1>4, <1>5, <1>11 DEF Renew
<1>12. ASSUME NEW r \in Requests, RenewFails(r, Key(r), Broken) PROVE Goal
  BY <1>1, <1>2, <1>3, <1>4, <1>5, <1>12 DEF RenewFails
<1>13. ASSUME Tick PROVE Goal
  <2>1. late'[q] = (late[q] \/ Behind(q)) /\ renewal' = renewal
    BY <1>13 DEF Tick
  <2>2. ~late[q] /\ renewal'[q] # "failed" /\ (renewal'[q] = "on" => renewal[q] = "on" /\ due[q] # 0)
    BY <1>2, <2>1 DEF Behind
  <2>3. /\ left'[k] = IF left[k] > 0 THEN left[k] - 1 ELSE 0
        /\ owner'[k] = IF left[k] > 1 THEN owner[k] ELSE NoOwner
        /\ due'[q] = IF due[q] > 0 THEN due[q] - 1 ELSE 0
        /\ due[q] \in Nat /\ left[k] \in Nat
    BY <1>1, <1>13 DEF Tick
  <2> QED BY <1>3, <1>5, <2>2, <2>3
<1> HIDE DEF Goal
<1>14. Goal
  BY <1>6, <1>7, <1>8, <1>9, <1>10, <1>11, <1>12, <1>13
     DEF Next, vars, Handler, Turn, Lock, LockFails, SessionFails, PushFails, Push, Receive,
         GiveUp, Return, Disconnect, Renewal, LeaseLost, Writer, Build, Message, AgentDone,
         AppendTurn, SendDone, Pass, Over
<1> QED BY <1>14 DEF Goal

\* A lock that is held has time left.
LEMMA OwnerStep == ASSUME TypeOK, OwnerInv, [Next]_vars PROVE OwnerInv'
<1> SUFFICES ASSUME NEW k \in Keys PROVE owner'[k] # NoOwner => left'[k] >= 1
  BY DEF OwnerInv
<1>1. /\ LockTypeOK /\ (owner[k] # NoOwner => left[k] >= 1) /\ Ttl \in Nat \ {0}
      /\ \A r \in Requests : Key(r) \in Keys
  BY TypeParts, KeyType, Durations DEF OwnerInv
<1> DEFINE Goal == owner'[k] # NoOwner => left'[k] >= 1
<1> USE DEF LockTypeOK
<1>2. ASSUME UNCHANGED lockVars PROVE Goal
  BY <1>1, <1>2 DEF lockVars
<1>3. ASSUME NEW r \in Requests, SetNX(r, Key(r)) \/ SetNXFails(r, Key(r)) PROVE Goal
  BY <1>1, <1>3 DEF SetNX, SetNXFails
<1>4. ASSUME NEW r \in Requests, Unlock(r, Key(r), Broken) \/ StopRenewal(r) PROVE Goal
  BY <1>1, <1>4 DEF Unlock, StopRenewal
<1>5. ASSUME NEW r \in Requests, Renew(r, Key(r)) \/ RenewFails(r, Key(r), Broken) PROVE Goal
  BY <1>1, <1>5 DEF Renew, RenewFails
<1>6. ASSUME Tick PROVE Goal
  BY <1>1, <1>6 DEF Tick
<1> HIDE DEF Goal
<1>7. Goal
  BY <1>2, <1>3, <1>4, <1>5, <1>6
     DEF Next, vars, Handler, Turn, Lock, LockFails, SessionFails, PushFails, Push, Receive,
         GiveUp, Return, Disconnect, Renewal, LeaseLost, Writer, Build, Message, AgentDone,
         AppendTurn, SendDone, Pass, Over
<1> QED BY <1>7 DEF Goal
-----------------------------------------------------------------------------
\* What has disturbed a conversation stays in view.
LEMMA DisturbedKept ==
    ASSUME TypeOK, [Next]_vars, NEW k \in Keys, Undisturbed(k)'
    PROVE  Undisturbed(k)
<1>1. UNCHANGED late \/ late' = [r \in Requests |-> late[r] \/ Behind(r)]
  BY DEF lockVars, SetNX, SetNXFails, Unlock, StopRenewal, Renew, RenewFails, Tick,
         Next, vars, Handler, Turn, Lock, LockFails, SessionFails, PushFails, Push, Receive,
         GiveUp, Return, Disconnect, Renewal, LeaseLost, Writer, Build, Message, AgentDone,
         AppendTurn, SendDone, Pass, Over
<1>2. UNCHANGED abandoned \/ \E r \in Requests : Cancel(r)
  BY DEF contextVars,
         Next, vars, Handler, Turn, Lock, LockFails, SessionFails, PushFails, Push, Receive,
         GiveUp, Return, Disconnect, Renewal, LeaseLost, Writer, Build, Message, AgentDone,
         AppendTurn, SendDone, Pass, Over
<1>3. \A r \in Requests : late[r] => late'[r]
  BY <1>1
<1>4. \A r \in Requests : abandoned[r] => abandoned'[r]
  BY <1>2, TypeParts DEF HandlerTypeOK, Cancel
<1> QED BY <1>3, <1>4, SetupKept DEF Undisturbed

\* A turn under way is in sole possession of an undisturbed conversation.
LEMMA Holder ==
    ASSUME TypeOK, NEW r \in Requests, HandlerInv(r), TurnInv(r), LeaseInv(r),
           Undisturbed(Key(r)), turn[r] \in {"run", "append"}
    PROVE  owner[Key(r)] = r
<1>1. ~late[r] /\ ~abandoned[r]
  BY DEF Undisturbed
<1>2. ~cancelled[r]
  BY <1>1 DEF TurnInv
<1>3. pc[r] = "wait"
  BY <1>2, TypeParts DEF HandlerTypeOK, TurnInv, HandlerInv
<1> QED BY <1>1, <1>2, <1>3 DEF HandlerInv, LeaseInv

\* A turn starts by reading the history, and reads nothing later.
LEMMA RunningStep ==
    ASSUME TypeOK, [Next]_vars, NEW q \in Requests, turn'[q] \in {"run", "append"}
    PROVE  \/ turn[q] \in {"run", "append"} /\ loaded'[q] = loaded[q]
           \/ loaded'[q] = Len(history[Key(q)]) /\ UNCHANGED history
BY TypeParts, KeyType DEF TurnTypeOK, turnVars, EndTurn,
       Next, vars, Handler, Turn, Lock, LockFails, SessionFails, PushFails, Push, Receive,
       GiveUp, Return, Disconnect, Renewal, LeaseLost, Writer, Build, Message, AgentDone,
       AppendTurn, SendDone, Pass, Over

\* While its turn is under way nobody else appends to an undisturbed conversation.
LEMMA ReadStep ==
    ASSUME TypeOK, [Next]_vars, NEW q \in Requests,
           \A r \in Requests : HandlerInv(r) /\ TurnInv(r) /\ LeaseInv(r) /\ ReadInv(r)
    PROVE  ReadInv(q)'
<1>1. Key(q)' = Key(q) /\ Key(q) \in Keys
  BY SetupKept, KeyType
<1> SUFFICES ASSUME Undisturbed(Key(q))', turn'[q] \in {"run", "append"}
             PROVE  loaded'[q] = Len(history'[Key(q)])
  BY <1>1 DEF ReadInv
<1>2. Undisturbed(Key(q))
  <2>1. PICK k \in Keys : k = Key(q)
    BY <1>1
  <2>2. Undisturbed(k)'
    BY <1>1, <2>1 DEF Undisturbed
  <2> QED BY <2>1, <2>2, DisturbedKept
<1>3. CASE UNCHANGED history
  BY <1>1, <1>2, <1>3, RunningStep DEF ReadInv
<1>4. ASSUME NEW r \in Requests, turn[r] = "append", Commit(r), turn'[r] \in {"send", "ended"},
             history' # history
      PROVE  loaded'[q] = Len(history'[Key(q)])
  <2>1. turn[q] \in {"run", "append"} /\ loaded'[q] = loaded[q] /\ q # r
    BY <1>4, RunningStep
  <2>2. Key(r) # Key(q)
    BY <1>2, <1>4, <2>1, Holder
  <2> QED BY <1>1, <1>2, <1>4, <2>1, <2>2, CommitEffect DEF ReadInv
<1> QED BY <1>3, <1>4, HistoryStep, TypeParts DEF TurnTypeOK, EndTurn

\* A committed turn stays where it is, and a new one was built on all before it.
LEMMA SerialStep ==
    ASSUME TypeOK, [Next]_vars, LockedTurnsSerial,
           \A r \in Requests : HandlerInv(r) /\ TurnInv(r) /\ ReadInv(r),
           \A k \in Keys : HistoryInv(k)
    PROVE  LockedTurnsSerial'
<1> SUFFICES ASSUME NEW k \in Keys, Undisturbed(k)', NEW n \in DOMAIN history'[k]
             PROVE  loaded'[history'[k][n]] = n - 1
  BY DEF LockedTurnsSerial
<1>1. Undisturbed(k)
  BY DisturbedKept
<1>2. ASSUME NEW m \in DOMAIN history[k] PROVE loaded'[history[k][m]] = m - 1
  <2>1. history[k][m] \in Requests /\ Appended(history[k][m])
    BY DEF TypeOK, HistoryInv, Appended
  <2>2. loaded'[history[k][m]] = loaded[history[k][m]]
    <3> SUFFICES ASSUME NEW q \in Requests, Appended(q) PROVE loaded'[q] = loaded[q]
      BY <2>1
    <3> QED BY AppendedKept
  <2> QED BY <1>1, <2>2 DEF LockedTurnsSerial
<1>3. CASE UNCHANGED history
  BY <1>2, <1>3
<1>4. ASSUME NEW r \in Requests, turn[r] = "append", Commit(r), UNCHANGED loaded
      PROVE  loaded'[history'[k][n]] = n - 1
  <2>1. CASE k # Key(r)
    BY <1>2, <1>4, <2>1, CommitEffect
  <2>2. CASE k = Key(r)
    <3>1. loaded[r] = Len(history[k])
      BY <1>1, <1>4, <2>2 DEF ReadInv
    <3>2. /\ DOMAIN history[k] = 1 .. Len(history[k]) /\ Len(history[k]) \in Nat
          /\ DOMAIN history'[k] = 1 .. Len(history[k]) + 1
          /\ \A m \in 1 .. Len(history[k]) : history'[k][m] = history[k][m]
          /\ history'[k][Len(history[k]) + 1] = r
      BY <1>4, <2>2, CommitEffect
    <3>3. CASE n = Len(history[k]) + 1
      BY <1>4, <3>1, <3>2, <3>3
    <3>4. CASE n \in 1 .. Len(history[k])
      BY <1>2, <3>2, <3>4
    <3> QED BY <3>2, <3>3, <3>4
  <2> QED BY <2>1, <2>2
<1> QED BY <1>3, <1>4, HistoryStep
-----------------------------------------------------------------------------
\* An event moves from the queue to the client, and the messages are followed by the
\* terminal event.
LEMMA SentFacts ==
    ASSUME NEW w \in Seq(Event), NEW u \in Seq(Event)
    PROVE  /\ \A event \in Event : w \o Append(u, event) = Append(w \o u, event)
           /\ u # <<>> => Append(w, Head(u)) \o Tail(u) = w \o u
<1>1. ASSUME NEW event \in Event PROVE w \o Append(u, event) = Append(w \o u, event)
  BY <1>1, AppendProperties, ConcatProperties, SeqEqual
<1>2. ASSUME u # <<>> PROVE Append(w, Head(u)) \o Tail(u) = w \o u
  <2>1. u = <<Head(u)>> \o Tail(u) /\ Head(u) \in Event /\ Tail(u) \in Seq(Event)
    BY <1>2
  <2>2. Append(w, Head(u)) = w \o <<Head(u)>>
    BY <2>1, AppendIsConcat
  <2> QED BY <2>1, <2>2, ConcatAssociative
<1> QED BY <1>1, <1>2

MessagesOf(c) == [n \in 1 .. c |-> "message"]
WholeOf(c) == [n \in 1 .. c + 1 |-> IF n <= c THEN "message" ELSE "done"]
\* The messages of an answer, and then the terminal event.
LEMMA MessageFacts ==
    ASSUME NEW c \in Nat
    PROVE  /\ MessagesOf(c) \in Seq(Event) /\ WholeOf(c) \in Seq(Event)
           /\ Append(MessagesOf(c), "message") = MessagesOf(c + 1)
           /\ Append(MessagesOf(c), "done") = WholeOf(c)
           /\ MessagesOf(0) = <<>>
<1>1. MessagesOf(c) \in Seq(Event) /\ Len(MessagesOf(c)) = c
  BY DEF MessagesOf, Event
<1>2. MessagesOf(c + 1) \in Seq(Event) /\ Len(MessagesOf(c + 1)) = c + 1
  BY DEF MessagesOf, Event
<1>3. WholeOf(c) \in Seq(Event) /\ Len(WholeOf(c)) = c + 1
  BY DEF WholeOf, Event
<1>4. \A event \in Event : /\ Append(MessagesOf(c), event) \in Seq(Event)
                           /\ Len(Append(MessagesOf(c), event)) = c + 1
                           /\ \A n \in 1 .. c : Append(MessagesOf(c), event)[n] = MessagesOf(c)[n]
                           /\ Append(MessagesOf(c), event)[c + 1] = event
  BY <1>1, AppendProperties
<1>5. Append(MessagesOf(c), "message") = MessagesOf(c + 1)
  <2>1. \A n \in 1 .. c + 1 : Append(MessagesOf(c), "message")[n] = MessagesOf(c + 1)[n]
    BY <1>4 DEF MessagesOf, Event
  <2> QED BY <1>2, <1>4, <2>1, SeqEqual DEF Event
<1>6. Append(MessagesOf(c), "done") = WholeOf(c)
  <2>1. \A n \in 1 .. c + 1 : Append(MessagesOf(c), "done")[n] = WholeOf(c)[n]
    BY <1>4 DEF MessagesOf, WholeOf, Event
  <2> QED BY <1>3, <1>4, <2>1, SeqEqual DEF Event
<1>7. MessagesOf(0) = <<>>
  BY DEF MessagesOf
<1> QED BY <1>1, <1>3, <1>5, <1>6, <1>7

Local(r) == <<pc[r], answer[r], turn[r], done[r], chunks[r], disconnected[r], clientDone[r],
              chanClosed[r], writer[r], queue[r], written[r]>>

\* What the properties of a stream are about changes by steps of its own request.
LEMMA LocalStep ==
    ASSUME TypeOK, [Next]_vars, NEW q \in Requests
    PROVE  \/ UNCHANGED Local(q)
           \/ Handler(q) \/ Disconnect(q) \/ Writer(q) \/ Turn(q)
<1> SUFFICES ASSUME NEW r \in Requests, r # q,
                    Handler(r) \/ Disconnect(r) \/ Writer(r) \/ Turn(r)
             PROVE  UNCHANGED Local(q)
  BY DEF Next, vars, Local, Renewal, LeaseLost, Pass, Over, clientVars, handlerVars,
         contextVars, turnVars, Cancel
<1> USE TypeParts DEF HandlerTypeOK, TurnTypeOK, ClientTypeOK
<1>1. UNCHANGED <<pc[q], answer[q], turn[q], done[q], chunks[q], disconnected[q]>>
  BY DEF Handler, Lock, LockFails, SessionFails, PushFails, Push, Receive, GiveUp, Return,
         Disconnect, Writer, Turn, Build, Message, AgentDone, AppendTurn, SendDone,
         Goto, GotoReturn, EndTurn, handlerVars, contextVars, turnVars
<1>2. \/ UNCHANGED clientVars
      \/ \E event \in Event : Send(r, event) \/ SendAndFinish(r, event)
      \/ SendFails(r) \/ SendPanics(r) \/ CloseChannel(r) \/ CloseContext(r)
      \/ WriteEvent(r) \/ WriterEnds(r)
  BY DEF Handler, Lock, LockFails, SessionFails, PushFails, Push, Receive, GiveUp, Return,
         Disconnect, Writer, Turn, Build, Message, AgentDone, AppendTurn, SendDone, ToClient,
         Event
<1>3. UNCHANGED <<clientDone[q], chanClosed[q], writer[q], queue[q], written[q]>>
  BY <1>2 DEF clientVars, Send, SendAndFinish, SendFails, SendPanics, CloseChannel,
     CloseContext, WriteEvent, WriterEnds
<1> QED BY <1>1, <1>3 DEF Local

\* What the operations of a client do to it, said of one request.
LEMMA ClientEffect ==
    ASSUME ClientTypeOK, NEW q \in Requests
    PROVE  /\ \A event \in Event : Send(q, event) =>
                 /\ ~chanClosed[q] /\ queue'[q] = Append(queue[q], event)
                 /\ UNCHANGED <<chanClosed[q], clientDone[q], writer[q], written[q]>>
           /\ SendFails(q) \/ CloseContext(q) =>
                 UNCHANGED <<queue[q], chanClosed[q], writer[q], written[q]>>
           /\ SendPanics(q) =>
                 /\ chanClosed[q]
                 /\ UNCHANGED <<queue[q], chanClosed[q], clientDone[q], writer[q], written[q]>>
           /\ CloseChannel(q) =>
                 chanClosed'[q] /\ UNCHANGED <<queue[q], clientDone[q], writer[q], written[q]>>
           /\ SendAndFinish(q, "error") => chanClosed'[q]
           /\ WriteEvent(q) =>
                 /\ writer[q] /\ queue[q] # <<>>
                 /\ written'[q] = Append(written[q], Head(queue[q])) /\ queue'[q] = Tail(queue[q])
                 /\ UNCHANGED <<chanClosed[q], clientDone[q], writer[q]>>
           /\ WriterEnds(q) =>
                 /\ clientDone[q] \/ (chanClosed[q] /\ queue[q] = <<>>)
                 /\ ~writer'[q]
                 /\ UNCHANGED <<queue[q], chanClosed[q], clientDone[q], written[q]>>
<1> USE DEF ClientTypeOK
<1>1. \A event \in Event : Send(q, event) =>
         /\ ~chanClosed[q] /\ queue'[q] = Append(queue[q], event)
         /\ UNCHANGED <<chanClosed[q], clientDone[q], writer[q], written[q]>>
  BY DEF Send
<1>2. SendFails(q) \/ CloseContext(q) =>
         UNCHANGED <<queue[q], chanClosed[q], writer[q], written[q]>>
  BY DEF SendFails, CloseContext
<1>3. SendPanics(q) =>
         /\ chanClosed[q]
         /\ UNCHANGED <<queue[q], chanClosed[q], clientDone[q], writer[q], written[q]>>
  BY DEF SendPanics
<1>4. /\ CloseChannel(q) =>
            chanClosed'[q] /\ UNCHANGED <<queue[q], clientDone[q], writer[q], written[q]>>
      /\ SendAndFinish(q, "error") => chanClosed'[q]
  BY DEF CloseChannel, SendAndFinish
<1>5. WriteEvent(q) =>
         /\ writer[q] /\ queue[q] # <<>>
         /\ written'[q] = Append(written[q], Head(queue[q])) /\ queue'[q] = Tail(queue[q])
         /\ UNCHANGED <<chanClosed[q], clientDone[q], writer[q]>>
  BY DEF WriteEvent
<1>6. WriterEnds(q) =>
         /\ clientDone[q] \/ (chanClosed[q] /\ queue[q] = <<>>)
         /\ ~writer'[q]
         /\ UNCHANGED <<queue[q], chanClosed[q], clientDone[q], written[q]>>
  BY DEF WriterEnds
<1> QED BY <1>1, <1>2, <1>3, <1>4, <1>5, <1>6

\* A stream keeps in queue and client what has been sent, and closes only at the end.
LEMMA StreamStep ==
    ASSUME TypeOK, [Next]_vars, NEW q \in Streams, HandlerInv(q), TurnInv(q), StreamInv(q)
    PROVE  StreamInv(q)'
<1>1. q \in Requests /\ q \in Streams' /\ ClientTypeOK /\ HandlerTypeOK /\ TurnTypeOK
  BY SetupKept, TypeParts DEF Streams
<1> DEFINE w == written[q]
           u == queue[q]
           c == chunks[q]
<1>2. w \in Seq(Event) /\ u \in Seq(Event) /\ c \in Nat
  BY <1>1 DEF ClientTypeOK, TurnTypeOK, Event
<1>3. /\ \A event \in Event : w \o Append(u, event) = Append(w \o u, event)
      /\ u # <<>> => Append(w, Head(u)) \o Tail(u) = w \o u
  BY <1>2, SentFacts
<1>4. /\ Append(MessagesOf(c), "message") = MessagesOf(c + 1)
      /\ Append(MessagesOf(c), "done") = WholeOf(c)
  BY <1>2, MessageFacts
<1> DEFINE Old == /\ pc[q] \in {"lock", "push", "wait"} => ~chanClosed[q]
                  /\ pc[q] \in {"return", "done"} /\ turn[q] \notin {"none", "ended"} => chanClosed[q]
                  /\ pc[q] \in {"lock", "push", "wait"} /\ turn[q] # "ended" => w \o u = MessagesOf(c)
                  /\ done[q] = "ok" => w \o u = WholeOf(c)
           Goal == /\ pc'[q] \in {"lock", "push", "wait"} => ~chanClosed'[q]
                   /\ pc'[q] \in {"return", "done"} /\ turn'[q] \notin {"none", "ended"} => chanClosed'[q]
                   /\ pc'[q] \in {"lock", "push", "wait"} /\ turn'[q] # "ended" =>
                         written'[q] \o queue'[q] = MessagesOf(chunks'[q])
                   /\ done'[q] = "ok" => written'[q] \o queue'[q] = WholeOf(chunks'[q])
<1>5. Old /\ WriterInv(q)
  BY DEF StreamInv, SentInv, Sent, Messages, Whole, MessagesOf, WholeOf
<1> SUFFICES Goal /\ WriterInv(q)'
  BY DEF StreamInv, SentInv, Sent, Messages, Whole, MessagesOf, WholeOf
<1>6. ASSUME UNCHANGED Local(q) PROVE Goal /\ WriterInv(q)'
  BY <1>5, <1>6 DEF Local, WriterInv, GoesWell
<1> USE <1>1, ClientEffect DEF Event, HandlerTypeOK, TurnTypeOK, handlerVars, contextVars, turnVars, Goto,
        GotoReturn, Cancel, WriterInv, GoesWell, HandlerInv, TurnInv, ToClient, clientVars
<1>7. ASSUME Handler(q) PROVE Goal /\ WriterInv(q)'
  <2>1. CASE Lock(q) \/ Push(q)
    BY <1>5, <2>1 DEF Lock, Push
  <2>2. CASE LockFails(q) \/ SessionFails(q) \/ PushFails(q)
    BY <1>5, <2>2 DEF LockFails, SessionFails, PushFails
  <2>3. CASE Receive(q)
    BY <1>5, <2>3 DEF Receive
  <2>4. CASE GiveUp(q)
    BY <1>5, <2>4 DEF GiveUp
  <2>5. CASE Return(q)
    BY <1>5, <2>5 DEF Return, Finished
  <2> QED BY <1>7, <2>1, <2>2, <2>3, <2>4, <2>5 DEF Handler
<1>8. ASSUME Disconnect(q) PROVE Goal /\ WriterInv(q)'
  BY <1>5, <1>8 DEF Disconnect
<1>9. ASSUME Writer(q) PROVE Goal /\ WriterInv(q)'
  <2>1. CASE WriteEvent(q)
    BY <1>3, <1>5, <1>9, <2>1 DEF Writer
  <2>2. CASE WriterEnds(q)
    BY <1>5, <1>9, <2>2 DEF Writer
  <2> QED BY <1>9, <2>1, <2>2 DEF Writer
<1>10. ASSUME Turn(q) PROVE Goal /\ WriterInv(q)'
  <2> USE DEF EndTurn
  <2>1. CASE Build(q) \/ AgentDone(q)
    BY <1>5, <2>1 DEF Build, AgentDone
  <2>2. CASE AppendTurn(q)
    BY <1>5, <2>2 DEF AppendTurn
  <2>3. CASE Message(q)
    <3>1. CASE Send(q, "message") /\ chunks' = [chunks EXCEPT ![q] = @ + 1]
               /\ UNCHANGED <<turn, done>>
      <4>1. /\ queue'[q] = Append(u, "message") /\ written'[q] = w /\ chunks'[q] = c + 1
            /\ ~chanClosed[q] /\ UNCHANGED <<chanClosed[q], clientDone[q], writer[q]>>
        BY <3>1
      <4>2. turn[q] = "run" /\ UNCHANGED <<pc, answer, turn, done, disconnected>>
        BY <2>3, <3>1 DEF Message
      <4>3. pc[q] = "wait" /\ done[q] = "none" /\ w \o u = MessagesOf(c)
        BY <1>5, <4>1, <4>2
      <4>4. written'[q] \o queue'[q] = MessagesOf(chunks'[q])
        BY <1>3, <1>4, <4>1, <4>3
      <4>5. Goal
        BY <4>1, <4>2, <4>3, <4>4
      <4>6. WriterInv(q)'
        BY <1>5, <4>1, <4>2, <4>3
      <4> QED BY <4>5, <4>6
    <3>2. CASE SendFails(q) /\ EndTurn(q, "error") /\ UNCHANGED chunks
      BY <1>5, <2>3, <3>2 DEF Message
    <3>3. CASE SendPanics(q) /\ turn' = [turn EXCEPT ![q] = "ended"] /\ UNCHANGED <<done, chunks>>
      BY <1>5, <2>3, <3>3 DEF Message
    <3> QED BY <2>3, <3>1, <3>2, <3>3 DEF Message
  <2>4. CASE SendDone(q)
    <3>1. CASE Send(q, "done") /\ EndTurn(q, "ok")
      <4>1. /\ queue'[q] = Append(u, "done") /\ written'[q] = w /\ chunks'[q] = c
            /\ ~chanClosed[q] /\ UNCHANGED <<chanClosed[q], clientDone[q], writer[q]>>
        BY <2>4, <3>1 DEF SendDone
      <4>2. /\ turn[q] = "send" /\ UNCHANGED <<pc, answer, disconnected>>
            /\ turn'[q] = "ended" /\ done'[q] = "ok"
        BY <2>4, <3>1 DEF SendDone
      <4>3. pc[q] = "wait" /\ done[q] = "none" /\ w \o u = MessagesOf(c)
        BY <1>5, <4>1, <4>2
      <4>4. written'[q] \o queue'[q] = WholeOf(chunks'[q])
        BY <1>3, <1>4, <4>1, <4>3
      <4>5. Goal
        BY <4>1, <4>2, <4>3, <4>4
      <4>6. WriterInv(q)'
        BY <1>5, <4>1, <4>2, <4>3
      <4> QED BY <4>5, <4>6
    <3>2. CASE SendFails(q) /\ EndTurn(q, "error")
      BY <1>5, <2>4, <3>2 DEF SendDone
    <3>3. CASE SendPanics(q) /\ turn' = [turn EXCEPT ![q] = "ended"] /\ UNCHANGED done
      BY <1>5, <2>4, <3>3 DEF SendDone
    <3> QED BY <2>4, <3>1, <3>2, <3>3 DEF SendDone
  <2> QED BY <1>10, <2>1, <2>2, <2>3, <2>4 DEF Turn
<1> QED BY <1>6, <1>7, <1>8, <1>9, <1>10, LocalStep
-----------------------------------------------------------------------------
\* At the start nothing is locked, sent or appended.
LEMMA InitCorrect == Init => IInv /\ LInv
<1> SUFFICES ASSUME Init PROVE IInv /\ LInv
  OBVIOUS
<1>1. LockTypeOK
  BY Durations DEF Init, LockInit, LockTypeOK
<1>2. ClientTypeOK
  BY Durations DEF Init, ClientInit, ClientTypeOK, Streams
<1>3. HandlerTypeOK /\ TurnTypeOK
  BY StreamAssumption DEF Init, HandlerTypeOK, TurnTypeOK
<1>4. TypeOK
  BY <1>1, <1>2, <1>3 DEF TypeOK, HandlerTypeOK, TurnTypeOK
<1>5. RetryAlike
  BY DEF Init, RetryAlike
<1>6. ASSUME NEW r \in Requests PROVE HandlerInv(r) /\ TurnInv(r) /\ ShownInv(r)
  BY DEF Init, LockInit, HandlerInv, TurnInv, ShownInv
<1>7. ASSUME NEW r \in Requests PROVE RecordedOnce(r)
  <2>1. history[Key(r)] = <<>>
    BY <1>4, KeyType DEF Init
  <2>2. Recorded(r) = {}
    BY <2>1 DEF Recorded
  <2> QED BY <2>2 DEF RecordedOnce
<1>8. ASSUME NEW r \in Streams PROVE StreamInv(r)
  <2>1. r \in Requests /\ written[r] = <<>> /\ queue[r] = <<>> /\ chunks[r] = 0 /\ writer[r]
        /\ ~chanClosed[r] /\ ~clientDone[r] /\ pc[r] = "lock" /\ done[r] = "none"
        /\ turn[r] = "none" /\ answer[r] = "none"
    BY DEF Init, ClientInit, Streams
  <2>2. Sent(r) = Messages(r)
    <3>1. Sent(r) = <<>>
      BY <2>1 DEF Sent
    <3> QED BY <2>1, <3>1, MessageFacts DEF Messages, MessagesOf
  <2> QED BY <2>1, <2>2 DEF StreamInv, SentInv, WriterInv
<1>9. \A r \in Requests : StreamInv(r)
  BY <1>8 DEF StreamInv
<1>10. \A k \in Keys : HistoryInv(k)
  BY DEF Init, HistoryInv
<1>11. \A r \in Requests : LeaseInv(r) /\ ReadInv(r)
  BY <1>4, KeyType DEF Init, LockInit, LeaseInv, ReadInv
<1>12. OwnerInv /\ LockedTurnsSerial
  BY DEF Init, LockInit, OwnerInv, LockedTurnsSerial
<1> QED BY <1>4, <1>5, <1>6, <1>7, <1>9, <1>10, <1>11, <1>12 DEF IInv, LInv

\* Every step keeps what does not depend on the lease.
LEMMA StepCorrect == IInv /\ [Next]_vars => IInv'
<1> SUFFICES ASSUME IInv, [Next]_vars PROVE IInv'
  OBVIOUS
<1> USE DEF IInv
<1>1. TypeOK' /\ RetryAlike'
  BY TypeStep, SetupKept DEF RetryAlike, setup
<1>2. ASSUME NEW r \in Requests PROVE HandlerInv(r)' /\ TurnInv(r)'
  BY HandlerStep, TurnStep
<1>3. ASSUME NEW r \in Requests PROVE ShownInv(r)' /\ RecordedOnce(r)'
  BY ShownStep, RecordedStep
<1>4. ASSUME NEW r \in Requests PROVE StreamInv(r)'
  BY StreamStep, SetupKept DEF StreamInv
<1>5. ASSUME NEW k \in Keys PROVE HistoryInv(k)'
  BY HistoryInvStep
<1> QED BY <1>1, <1>2, <1>3, <1>4, <1>5

\* Every step keeps what the lease orders.
LEMMA LockStepCorrect == Ttl >= 2 /\ IInv /\ LInv /\ [Next]_vars => LInv'
<1> SUFFICES ASSUME Ttl >= 2, IInv, LInv, [Next]_vars PROVE LInv'
  OBVIOUS
<1> USE DEF IInv, LInv
<1>1. ASSUME NEW r \in Requests PROVE LeaseInv(r)' /\ ReadInv(r)'
  BY LeaseStep, ReadStep
<1>2. OwnerInv' /\ LockedTurnsSerial'
  BY OwnerStep, SerialStep
<1> QED BY <1>1, <1>2

\* Every variable keeps its type, and the queue of an SSE client its bound (sse.go:28-40).
THEOREM TypeCorrect == Spec => []TypeOK
<1>1. Init => TypeOK
  BY InitCorrect DEF IInv
<1> QED BY <1>1, TypeStep, PTL DEF Spec

\* The inductive invariants hold throughout.
LEMMA Invariant == Spec => []IInv
BY InitCorrect, StepCorrect, PTL DEF Spec
\* With a time to live of two seconds or more the lease orders the turns.
LEMMA LockInvariant == ASSUME Ttl >= 2 PROVE Spec => []LInv
<1>1. IInv /\ LInv /\ [Next]_vars => LInv'
  BY LockStepCorrect
<1> QED BY <1>1, InitCorrect, StepCorrect, PTL DEF Spec

\* A request that renews in time owns the lock until it frees it, for every time to live
\* of two seconds or more: config.go:129 deploys 30 (lock.go:42-46, 87-104, 124-146).
THEOREM LeaseHeld == ASSUME Ttl >= 2 PROVE Spec => []LeaseKept
<1>1. LInv => LeaseKept
  BY DEF LInv, LeaseInv, LeaseKept
<1> QED BY <1>1, LockInvariant, PTL

\* The committed turns of an undisturbed conversation were each answered with all turns
\* before them in view, in whatever process they ran (chat_new.go:68-91).
THEOREM Serial == ASSUME Ttl >= 2 PROVE Spec => []LockedTurnsSerial
<1>1. LInv => LockedTurnsSerial
  BY DEF LInv
<1> QED BY <1>1, LockInvariant, PTL

\* Only time or the return of the request that holds a lock sets it free
\* (lock.go:106-122).
THEOREM FreedCorrect == Spec => FreedByOwner
<1> DEFINE Freed == \A k \in Keys :
             owner[k] # NoOwner /\ owner'[k] # owner[k] =>
                \/ left[k] = 1 /\ UNCHANGED pc
                \/ pc[owner[k]] # "done" /\ pc'[owner[k]] = "done"
<1>1. ASSUME TypeOK, OwnerInv, [Next]_vars PROVE Freed
  <2> SUFFICES ASSUME NEW k \in Keys, owner[k] # NoOwner, owner'[k] # owner[k]
               PROVE  \/ left[k] = 1 /\ UNCHANGED pc
                      \/ pc[owner[k]] # "done" /\ pc'[owner[k]] = "done"
    OBVIOUS
  <2>1. LockTypeOK /\ left[k] >= 1 /\ \A r \in Requests : Key(r) \in Keys
    BY <1>1, TypeParts, KeyType DEF OwnerInv
  <2>2. \/ \E r \in Requests : Return(r) /\ Unlock(r, Key(r), Broken)
        \/ Pass
    BY <1>1, <2>1 DEF LockTypeOK, lockVars, SetNX, SetNXFails, StopRenewal, Renew, RenewFails,
       Next, vars, Handler, Turn, Lock, LockFails, SessionFails, PushFails, Push, Receive,
       GiveUp, Return, Disconnect, Renewal, LeaseLost, Writer, Build, Message, AgentDone,
       AppendTurn, SendDone, Over
  <2>3. ASSUME NEW r \in Requests, Return(r), Unlock(r, Key(r), Broken)
        PROVE  pc[owner[k]] # "done" /\ pc'[owner[k]] = "done"
    <3>1. owner[k] = r
      BY <2>1, <2>3 DEF LockTypeOK, Unlock
    <3>2. pc \in [Requests -> {"lock", "push", "wait", "return", "done"}]
      BY <1>1 DEF TypeOK
    <3> QED BY <2>3, <3>1, <3>2 DEF Return, Goto
  <2>4. CASE Pass
    BY <2>1, <2>4 DEF LockTypeOK, Pass, Tick, handlerVars
  <2> QED BY <2>2, <2>3, <2>4
<1>2. Init => TypeOK /\ OwnerInv
  BY InitCorrect DEF IInv, LInv
<1>3. TypeOK /\ OwnerInv /\ [Next]_vars => OwnerInv'
  BY OwnerStep
<1>4. TypeOK /\ OwnerInv /\ [Next]_vars => [Freed]_vars
  BY <1>1
<1> HIDE DEF Freed
<1>5. Spec => [][Freed]_vars
  BY <1>2, <1>3, <1>4, TypeStep, PTL DEF Spec
<1> QED BY <1>5, PTL DEF FreedByOwner, Freed

\* A success means that the answer is in the history; a retry key is there once
\* (chat_new.go:31-41).
THEOREM OkCorrect == Spec => []OkShown
<1>1. IInv => OkShown
  <2> SUFFICES ASSUME IInv, NEW r \in Requests
               PROVE  /\ Cardinality(Recorded(r)) <= 1
                      /\ answer[r] = "ok" => Shown(r)
    BY DEF OkShown, Shown
  <2>1. Recorded(r) = {} \/ \E q \in Requests : Recorded(r) = {q}
    BY DEF IInv, RecordedOnce, Recorded
  <2>2. Cardinality(Recorded(r)) <= 1
    BY <2>1, FS_EmptySet, FS_Singleton
  <2> QED BY <2>2 DEF IInv, HandlerInv, ShownInv
<1> QED BY <1>1, Invariant, PTL

\* A stream that ends with success was written to the end, its terminal event last, unless
\* its client has gone (sse.go:91-117, chat_v1_chat_stream.go:100-125).
THEOREM StreamWhole == Spec => []SuccessWritten
<1>1. IInv => SuccessWritten
  <2> SUFFICES ASSUME IInv, NEW r \in Streams, r \in Requests, pc[r] = "done",
                      answer[r] = "ok", ~disconnected[r]
               PROVE  written[r] = Whole(r)
    BY DEF SuccessWritten, Whole
  <2>1. SentInv(r) /\ WriterInv(r) /\ done[r] = "ok"
    BY DEF IInv, StreamInv, HandlerInv
  <2>2. queue[r] = <<>> /\ written[r] \o queue[r] = Whole(r)
    BY <2>1 DEF SentInv, WriterInv, GoesWell, Sent
  <2>3. written[r] \in Seq(Event)
    BY DEF IInv, TypeOK, ClientTypeOK, Event
  <2>4. written[r] \o <<>> = written[r]
    BY <2>3
  <2> QED BY <2>2, <2>4
<1> QED BY <1>1, Invariant, PTL
===============================================================================
