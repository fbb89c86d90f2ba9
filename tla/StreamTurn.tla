----------------------------- MODULE StreamTurn -----------------------------
(***************************************************************************)
(* Requests of the conversations in several processes: ChatStream          *)
(* (src/internal/controller/chat/chat_v1_chat_stream.go) with its SSE      *)
(* client (module SSEClient) and Chat (chat_v1_chat.go) without one, their *)
(* leases (module RedisLock) and the turns they leave with the             *)
(* conversation's loop.                                                    *)
(*                                                                         *)
(* Of the loops, the limiter and Chat's events only what module ChatTurn   *)
(* shows is kept: the turns of one conversation in one process run one     *)
(* after the other, and sessions and places may be refused.                *)
(***************************************************************************)
EXTENDS RedisLock, Sequences, FiniteSets

CONSTANTS
    Instances,         \* server processes
    ConfiguredBuffer,  \* see SSEClient
    MaxStreams,        \* bound: requests that are ChatStream, not Chat
    MaxChunks,         \* bound: messages of one answer
    Answers,           \* the answers the model may give
    Faults             \* the combinations of what may go wrong: see StreamAssumption

ASSUME StreamAssumption ==
    /\ ConfiguredBuffer \in Int
    /\ MaxStreams \in Nat
    /\ MaxChunks \in Nat \ {0}
    /\ Faults \subseteq SUBSET {"redis",    \* a Redis command reports an error
                                "late",     \* a process or a ticker is held up
                                "busy",     \* a session or a place is refused
                                "agent",    \* the agent or the store reports an error
                                "cancel"}   \* the client disconnects

VARIABLES
    queue, chanClosed, clientDone, writer, written, panicked,   \* see SSEClient
    faults,        \* what may go wrong in this behaviour
    request,       \* request[r]: conversation, process, retry key or not, ChatStream or Chat
    pc,            \* pc[r]: where the handler is
    cancelled,     \* cancelled[r]: is turnCtx done?
    disconnected,  \* disconnected[r]: has the client gone?
    answer,        \* answer[r]: what the handler is to return
    turn,          \* turn[r]: where r's turn is in the loop
    chunks,        \* chunks[r]: messages sent so far
    text,          \* text[r]: the answer of the model
    done,          \* done[r]: the done channel
    history,       \* history[k]: committed turns
    loaded,        \* loaded[r]: turns r's build read
    abandoned      \* history variable: was turnCtx cancelled with the turn running?

INSTANCE SSEClient

clientVars == <<queue, chanClosed, clientDone, writer, written, panicked>>
handlerVars == <<pc, answer>>
contextVars == <<cancelled, disconnected, abandoned>>
turnVars == <<turn, chunks, text, done, history, loaded>>
setup == <<request, faults>>
vars == <<lockVars, clientVars, handlerVars, contextVars, turnVars, setup>>

RequestType == [key : Keys, home : Instances, retry : BOOLEAN, stream : BOOLEAN]
Streams == {r \in Requests : request[r].stream}
Key(r) == request[r].key
Broken == "redis" \in faults

Goto(r, l) == pc' = [pc EXCEPT ![r] = l] /\ UNCHANGED answer

\* The handler is to return a; ChatStream may have its client finish first.
GotoReturn(r, a) ==
    /\ pc' = [pc EXCEPT ![r] = "return"]
    /\ answer' = [answer EXCEPT ![r] = a]

\* What ChatStream does with its client and Chat has nothing for.
ToClient(r, Operation) == IF r \in Streams THEN Operation ELSE UNCHANGED clientVars

\* cancel of turnCtx
Cancel(r) ==
    /\ cancelled' = [cancelled EXCEPT ![r] = TRUE]
    /\ abandoned' = [abandoned EXCEPT ![r] = @ \/ turn[r] \in {"run", "append"}]
-----------------------------------------------------------------------------
Lock(r) ==
    /\ pc[r] = "lock"
    /\ SetNX(r, Key(r))
    /\ Goto(r, "push")
    /\ UNCHANGED <<clientVars, contextVars, turnVars, setup>>

LockFails(r) ==
    /\ pc[r] = "lock"
    /\ \/ cancelled[r] /\ UNCHANGED lockVars
       \/ Broken /\ SetNXFails(r, Key(r))
    /\ ToClient(r, SendAndFinish(r, "error"))
    /\ GotoReturn(r, "error")
    /\ UNCHANGED <<contextVars, turnVars, setup>>

\* turnSession fails: an error is sent, and Finish is not called.
SessionFails(r) ==
    /\ pc[r] = "push"
    /\ "busy" \in faults
    /\ ToClient(r, Send(r, "error") \/ SendFails(r))
    /\ GotoReturn(r, "error")
    /\ UNCHANGED <<lockVars, contextVars, turnVars, setup>>

\* Acquire or PushBuild fails.
PushFails(r) ==
    /\ pc[r] = "push"
    /\ cancelled[r] \/ "busy" \in faults
    /\ ToClient(r, SendAndFinish(r, "error"))
    /\ GotoReturn(r, "error")
    /\ UNCHANGED <<lockVars, contextVars, turnVars, setup>>

Push(r) ==
    /\ pc[r] = "push"
    /\ turn' = [turn EXCEPT ![r] = "queued"]
    /\ Goto(r, "wait")
    /\ UNCHANGED <<lockVars, clientVars, contextVars, setup, chunks, text, done, history,
                   loaded>>

Receive(r) ==
    /\ pc[r] = "wait"
    /\ done[r] # "none"
    /\ ToClient(r, IF done[r] = "ok" THEN CloseChannel(r) ELSE SendAndFinish(r, "error"))
    /\ GotoReturn(r, done[r])
    /\ UNCHANGED <<lockVars, contextVars, turnVars, setup>>

\* turnCtx is done: the client has gone or the lease is lost.  The turn stays.
GiveUp(r) ==
    /\ pc[r] = "wait"
    /\ cancelled[r]
    /\ ToClient(r, CloseChannel(r))
    /\ GotoReturn(r, "error")
    /\ UNCHANGED <<lockVars, contextVars, turnVars, setup>>

\* The handler returns, once Finish has: releaseLock if there is a lease, and the end of the
\* request's context.
Return(r) ==
    /\ pc[r] = "return"
    /\ chanClosed[r] => Finished(r)
    /\ IF renewal[r] = "none" THEN UNCHANGED lockVars ELSE Unlock(r, Key(r), Broken)
    /\ Cancel(r)
    /\ ToClient(r, CloseContext(r))
    /\ Goto(r, "done")
    /\ UNCHANGED <<turnVars, setup, disconnected>>

Disconnect(r) ==
    /\ "cancel" \in faults
    /\ pc[r] # "done"
    /\ ~disconnected[r]
    /\ disconnected' = [disconnected EXCEPT ![r] = TRUE]
    /\ Cancel(r)
    /\ ToClient(r, CloseContext(r))
    /\ StopRenewal(r)
    /\ UNCHANGED <<handlerVars, turnVars, setup>>

\* The goroutine that waits for the renewal's end cancels turnCtx.
LeaseLost(r) ==
    /\ renewal[r] = "failed"
    /\ StopRenewal(r)
    /\ Cancel(r)
    /\ UNCHANGED <<clientVars, handlerVars, turnVars, setup, disconnected>>

Renewal(r) ==
    \/ /\ Renew(r, Key(r)) \/ RenewFails(r, Key(r), Broken)
       /\ UNCHANGED <<clientVars, handlerVars, contextVars, turnVars, setup>>
    \/ LeaseLost(r)

\* Unless a process is held up, its ticks are served before the next second.
\* Bound: one second passes with ticks unserved, which is enough for an expiry
\* when the time to live is two seconds.
Pass ==
    /\ \A r \in Requests : Behind(r) => "late" \in faults /\ \A q \in Requests : ~late[q]
    /\ Tick
    /\ UNCHANGED <<clientVars, handlerVars, contextVars, turnVars, setup>>

Writer(r) ==
    /\ WriteEvent(r) \/ WriterEnds(r)
    /\ UNCHANGED <<lockVars, handlerVars, contextVars, turnVars, setup>>
-----------------------------------------------------------------------------
Loop(r) == {q \in Requests : request[q].home = request[r].home /\ Key(q) = Key(r)}

\* emit tells the handler how the turn ended.
EndTurn(r, result) ==
    /\ turn' = [turn EXCEPT ![r] = "ended"]
    /\ done' = [done EXCEPT ![r] = result]

\* buildTurnInput loads the history.
Build(r) ==
    /\ turn[r] = "queued"
    /\ \A q \in Loop(r) : turn[q] \in {"none", "queued", "ended"}
    /\ \/ /\ ~cancelled[r]
          /\ turn' = [turn EXCEPT ![r] = "run"]
          /\ loaded' = [loaded EXCEPT ![r] = Len(history[Key(r)])]
          /\ UNCHANGED done
       \/ /\ cancelled[r] \/ "agent" \in faults
          /\ EndTurn(r, "error")
          /\ UNCHANGED loaded
    /\ UNCHANGED <<lockVars, clientVars, handlerVars, contextVars, setup, chunks, text,
                   history>>

\* emit for a message: it is sent, or the turn ends with an error, or the send
\* panics, which nothing in the repository recovers from.
Message(r) ==
    /\ turn[r] = "run"
    /\ chunks[r] < MaxChunks
    /\ \/ /\ ToClient(r, Send(r, "message"))
          /\ chunks' = [chunks EXCEPT ![r] = @ + 1]
          /\ UNCHANGED <<turn, done>>
       \/ SendFails(r) /\ EndTurn(r, "error") /\ UNCHANGED chunks
       \/ /\ SendPanics(r)
          /\ turn' = [turn EXCEPT ![r] = "ended"]
          /\ UNCHANGED <<done, chunks>>
    /\ UNCHANGED <<lockVars, handlerVars, contextVars, setup, text, history, loaded>>

\* The agent's events end.  An empty answer and a cancelled context are errors.
AgentDone(r) ==
    /\ turn[r] = "run"
    /\ \/ /\ chunks[r] > 0 /\ ~cancelled[r]
          /\ turn' = [turn EXCEPT ![r] = "append"]
          /\ \E a \in Answers : text' = [text EXCEPT ![r] = a]
          /\ UNCHANGED done
       \/ /\ chunks[r] = 0 \/ cancelled[r] \/ "agent" \in faults
          /\ EndTurn(r, "error")
          /\ UNCHANGED text
    /\ UNCHANGED <<lockVars, clientVars, handlerVars, contextVars, setup, chunks, history,
                   loaded>>

Commit(r) == history' = [history EXCEPT ![Key(r)] = Append(@, r)]

\* The turns that were committed with the retry key of r.
Recorded(r) ==
    {q \in Requests : /\ request[r].retry /\ request[q].retry /\ Key(q) = Key(r)
                      /\ \E n \in DOMAIN history[Key(r)] : history[Key(r)][n] = q}

\* Mutant: the hash of the recorded answer is not compared.
MutAppendTurn(r) ==
    /\ turn[r] = "append"
    /\ \/ /\ Recorded(r) = {}
          /\ Commit(r)
          /\ turn' = [turn EXCEPT ![r] = "send"]
          /\ UNCHANGED done
       \/ /\ Recorded(r) # {}
          /\ turn' = [turn EXCEPT ![r] = "send"]
          /\ UNCHANGED <<done, history>>
       \/ /\ "agent" \in faults
          /\ EndTurn(r, "error")
          /\ (Recorded(r) = {} /\ Commit(r)) \/ UNCHANGED history
    /\ UNCHANGED <<lockVars, clientVars, handlerVars, contextVars, setup, chunks, text,
                   loaded>>

\* appendTurn, whose context was checked: a new turn is committed; a retry whose
\* answer is the recorded one succeeds without; another answer is a conflict.  A
\* store that reports an error may have committed.
AppendTurn(r) ==
    /\ turn[r] = "append"
    /\ \/ /\ Recorded(r) = {}
          /\ Commit(r)
          /\ turn' = [turn EXCEPT ![r] = "send"]
          /\ UNCHANGED done
       \/ /\ \E q \in Recorded(r) : text[q] = text[r]
          /\ turn' = [turn EXCEPT ![r] = "send"]
          /\ UNCHANGED <<done, history>>
       \/ /\ \E q \in Recorded(r) : text[q] # text[r]
          /\ EndTurn(r, "error")
          /\ UNCHANGED history
       \/ /\ "agent" \in faults
          /\ EndTurn(r, "error")
          /\ (Recorded(r) = {} /\ Commit(r)) \/ UNCHANGED history
    /\ UNCHANGED <<lockVars, clientVars, handlerVars, contextVars, setup, chunks, text,
                   loaded>>

\* emit sends the terminal event and tells the handler.
SendDone(r) ==
    /\ turn[r] = "send"
    /\ \/ ToClient(r, Send(r, "done")) /\ EndTurn(r, "ok")
       \/ SendFails(r) /\ EndTurn(r, "error")
       \/ /\ SendPanics(r)
          /\ turn' = [turn EXCEPT ![r] = "ended"]
          /\ UNCHANGED done
    /\ UNCHANGED <<lockVars, handlerVars, contextVars, setup, chunks, text, history,
                   loaded>>
-----------------------------------------------------------------------------
Init ==
    /\ LockInit
    /\ faults \in Faults
    /\ request \in [Requests -> RequestType]
    /\ Cardinality(Streams) <= MaxStreams
    /\ ClientInit(Streams)
    /\ \A q, r \in Requests : request[q].retry = request[r].retry
    /\ pc = [r \in Requests |-> "lock"]
    /\ cancelled = [r \in Requests |-> FALSE]
    /\ disconnected = [r \in Requests |-> FALSE]
    /\ answer = [r \in Requests |-> "none"]
    /\ turn = [r \in Requests |-> "none"]
    /\ chunks = [r \in Requests |-> 0]
    /\ text = [r \in Requests |-> "none"]
    /\ done = [r \in Requests |-> "none"]
    /\ history = [k \in Keys |-> <<>>]
    /\ loaded = [r \in Requests |-> 0]
    /\ abandoned = [r \in Requests |-> FALSE]

Handler(r) ==
    \/ Lock(r) \/ LockFails(r) \/ SessionFails(r) \/ PushFails(r) \/ Push(r)
    \/ Receive(r) \/ GiveUp(r) \/ Return(r)

Turn(r) == Build(r) \/ Message(r) \/ AgentDone(r) \/ AppendTurn(r) \/ SendDone(r)

Over ==
    /\ \A r \in Requests : pc[r] = "done" /\ turn[r] \in {"none", "ended"} /\ ~writer[r]
    /\ UNCHANGED vars

Next ==
    \/ \E r \in Requests : Handler(r) \/ Disconnect(r) \/ Renewal(r) \/ Writer(r) \/ Turn(r)
    \/ Pass
    \/ Over

Spec == Init /\ [][Next]_vars
-----------------------------------------------------------------------------
\* Every variable keeps its shape, and the queue its bound.
TypeOK ==
    /\ LockTypeOK
    /\ ClientTypeOK
    /\ faults \in Faults
    /\ request \in [Requests -> RequestType]
    /\ pc \in [Requests -> {"lock", "push", "wait", "return", "done"}]
    /\ cancelled \in [Requests -> BOOLEAN] /\ disconnected \in [Requests -> BOOLEAN]
    /\ abandoned \in [Requests -> BOOLEAN]
    /\ answer \in [Requests -> {"none", "ok", "error"}]
    /\ done \in [Requests -> {"none", "ok", "error"}]
    /\ turn \in [Requests -> {"none", "queued", "run", "append", "send", "ended"}]
    /\ chunks \in [Requests -> 0 .. MaxChunks]
    /\ text \in [Requests -> Answers \cup {"none"}]
    /\ history \in [Keys -> Seq(Requests)]
    /\ loaded \in [Requests -> Nat]

\* A request whose renewals were served in time has the lock in Redis until it
\* frees it, whatever Redis answers: the interval between renewals leaves the
\* time to live no chance (lock.go:42-46, 87-104, 124-146).
LeaseKept ==
    \A r \in Requests :
        renewal[r] \in {"on", "failed"} /\ ~late[r] => owner[Key(r)] = r

\* A lock is set free by its time to live or by the return of the request that
\* holds it, also when other requests return after their lease has been lost
\* (lock.go:106-122).
FreedByOwner ==
    [][\A k \in Keys :
          owner[k] # NoOwner /\ owner'[k] # owner[k] =>
             \/ left[k] = 1 /\ UNCHANGED pc
             \/ pc[owner[k]] # "done" /\ pc'[owner[k]] = "done"]_vars

\* A stream that ends with success was written to the end, unless its client has
\* gone (sse.go:91-117, chat_v1_chat_stream.go:100-125).
SuccessWritten ==
    \A r \in Requests :
        r \in Streams /\ pc[r] = "done" /\ answer[r] = "ok" /\ ~disconnected[r] =>
            written[r] = [n \in 1 .. chunks[r] + 1 |->
                             IF n <= chunks[r] THEN "message" ELSE "done"]

\* The lock orders the turns of a conversation across processes: each committed
\* turn was answered with all turns before it in view, unless some request of the
\* conversation was late to renew or cancelled while its turn was running
\* (chat_new.go:68-91, chat_v1_chat_stream.go:117-130).
Undisturbed(k) == \A r \in Requests : Key(r) = k => ~late[r] /\ ~abandoned[r]
LockedTurnsSerial ==
    \A k \in Keys :
        Undisturbed(k) => \A n \in DOMAIN history[k] : loaded[history[k][n]] = n - 1

\* A success means that this very answer is in the history, and a retry key is
\* there once (chat_new.go:31-41).
OkShown ==
    \A r \in Requests :
        /\ Cardinality(Recorded(r)) <= 1
        /\ answer[r] = "ok" =>
              \E n \in DOMAIN history[Key(r)] :
                 LET q == history[Key(r)][n] IN q = r \/ (q \in Recorded(r) /\ text[q] = text[r])

\* Finish is used when nothing more is sent: no event meets a closed channel
\* (sse.go:91-92).
SendsBeforeFinish == \A r \in Requests : ~panicked[r]
=============================================================================
