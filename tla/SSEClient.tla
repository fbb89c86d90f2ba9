------------------------------ MODULE SSEClient ------------------------------
(***************************************************************************)
(* The SSE client of a streaming request (src/internal/logic/sse/sse.go):  *)
(* a bounded channel between whoever sends events and a writer goroutine.  *)
(***************************************************************************)
EXTENDS Integers, Sequences

CONSTANTS
    Requests,
    ConfiguredBuffer   \* the size given to NewWithBuffer

VARIABLES
    queue,        \* queue[r]: messageChan
    chanClosed,   \* chanClosed[r]: has Finish closed it?
    clientDone,   \* clientDone[r]: is the client's context done?
    writer,       \* writer[r]: is writeLoop running?
    written,      \* written[r]: what the client received
    panicked      \* panicked[r]: was an event sent on the closed channel?

Buffer == IF ConfiguredBuffer <= 0 THEN 100 ELSE ConfiguredBuffer

\* Create starts the writer of a client.
ClientInit(clients) ==
    /\ queue = [r \in Requests |-> <<>>]
    /\ chanClosed = [r \in Requests |-> FALSE]
    /\ clientDone = [r \in Requests |-> FALSE]
    /\ writer = [r \in Requests |-> r \in clients]
    /\ written = [r \in Requests |-> <<>>]
    /\ panicked = [r \in Requests |-> FALSE]

\* SendToClient: its select takes any case that is ready, so that an event may be
\* queued for a client that is gone, and a closed channel makes it panic.
Send(r, event) ==
    /\ ~chanClosed[r]
    /\ Len(queue[r]) < Buffer
    /\ queue' = [queue EXCEPT ![r] = Append(@, event)]
    /\ UNCHANGED <<chanClosed, clientDone, writer, written, panicked>>

\* It returns false for a client that is gone, and gives up one that is too slow.
SendFails(r) ==
    /\ clientDone[r] \/ (~chanClosed[r] /\ Len(queue[r]) = Buffer)
    /\ clientDone' = [clientDone EXCEPT ![r] = TRUE]
    /\ UNCHANGED <<queue, chanClosed, writer, written, panicked>>

SendPanics(r) ==
    /\ chanClosed[r]
    /\ panicked' = [panicked EXCEPT ![r] = TRUE]
    /\ UNCHANGED <<queue, chanClosed, clientDone, writer, written>>

\* Finish closes the channel, once, and returns when the writer has ended.
CloseChannel(r) ==
    /\ chanClosed' = [chanClosed EXCEPT ![r] = TRUE]
    /\ UNCHANGED <<queue, clientDone, writer, written, panicked>>

\* An event whose SendToClient result is dropped, and then Finish.
SendAndFinish(r, event) ==
    /\ ~chanClosed[r]
    /\ \/ /\ Len(queue[r]) < Buffer
          /\ queue' = [queue EXCEPT ![r] = Append(@, event)]
          /\ UNCHANGED clientDone
       \/ /\ clientDone[r] \/ Len(queue[r]) = Buffer
          /\ clientDone' = [clientDone EXCEPT ![r] = TRUE]
          /\ UNCHANGED queue
    /\ chanClosed' = [chanClosed EXCEPT ![r] = TRUE]
    /\ UNCHANGED <<writer, written, panicked>>

Finished(r) == chanClosed[r] /\ ~writer[r]

\* The end of the request's context.
CloseContext(r) ==
    /\ clientDone' = [clientDone EXCEPT ![r] = TRUE]
    /\ UNCHANGED <<queue, chanClosed, writer, written, panicked>>

\* writeLoop
WriteEvent(r) ==
    /\ writer[r]
    /\ queue[r] # <<>>
    /\ written' = [written EXCEPT ![r] = Append(@, Head(queue[r]))]
    /\ queue' = [queue EXCEPT ![r] = Tail(@)]
    /\ UNCHANGED <<chanClosed, clientDone, writer, panicked>>

\* Mutant: the writer leaves a closed channel at once.
MutWriterEnds(r) ==
    /\ writer[r]
    /\ clientDone[r] \/ chanClosed[r]
    /\ writer' = [writer EXCEPT ![r] = FALSE]
    /\ UNCHANGED <<queue, chanClosed, clientDone, written, panicked>>

WriterEnds(r) ==
    /\ writer[r]
    /\ clientDone[r] \/ (chanClosed[r] /\ queue[r] = <<>>)
    /\ writer' = [writer EXCEPT ![r] = FALSE]
    /\ UNCHANGED <<queue, chanClosed, clientDone, written, panicked>>

ClientTypeOK ==
    /\ queue \in [Requests -> Seq({"message", "done", "error"})]
    /\ \A r \in Requests : Len(queue[r]) <= Buffer
    /\ chanClosed \in [Requests -> BOOLEAN] /\ clientDone \in [Requests -> BOOLEAN]
    /\ writer \in [Requests -> BOOLEAN] /\ panicked \in [Requests -> BOOLEAN]
    /\ written \in [Requests -> Seq({"message", "done", "error"})]
=============================================================================
