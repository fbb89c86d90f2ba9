------------------------------ MODULE ChatTurn ------------------------------
(***************************************************************************)
(* A chat request from its lock to its answer: the handlers Chat and       *)
(* ChatStream (src/internal/controller/chat/chat_v1_chat.go,               *)
(* chat_v1_chat_stream.go, chat_new.go) with the callbacks they give to    *)
(* the turn loops (module TurnLoop) and the limiter (module RunLimiter).   *)
(*                                                                         *)
(* The conversation lock is mutual exclusion between the requests of all   *)
(* processes, as long as no lease runs out.  A conversation's history is   *)
(* the sequence of the requests whose turns are committed.                 *)
(***************************************************************************)
EXTENDS TurnLoop

CONSTANTS
    EventsCap,    \* capacity of Chat's event channel (4 in the code)
    Scenarios     \* how the processes are set up and what may go wrong: see ScenarioType

ScenarioType ==
    [locker : BOOLEAN,                \* is a conversation locker configured?
     faults : SUBSET {"store",        \* a load or an append reports an error
                      "agent",        \* the agent yields an error
                      "send",         \* the SSE client is gone or too slow
                      "cancel",       \* the client disconnects
                      "close"},       \* a process shuts down
     places : Nat \ {0},              \* places of each limiter
     requests : Nat, keys : Nat, instances : Nat]   \* bounds: how many there are

ASSUME ChatTurnAssumption ==
    /\ EventsCap \in Nat \ {0}
    /\ Scenarios \subseteq ScenarioType

VARIABLES
    scenario,    \* what this behaviour is about
    tokens, closed,   \* see RunLimiter
    request,     \* request[r]: its conversation, process and handler
    pc,          \* pc[r]: where r's handler is
    cancelled,   \* cancelled[r]: is turnCtx done?
    token,       \* token[r]: has r acquired, and released?
    said,        \* said[r]: has the agent answered anything?
    channel,     \* channel[r]: the events, or the done channel, of r
    reply,       \* reply[r]: what the handler returned
    lock,        \* lock[k]: the request that holds the conversation's lock
    history,     \* history[k]: committed turns
    loaded,      \* loaded[r]: how many turns r's build read
    swept,       \* swept[i]: has StopAll emptied the registry?
    evicted      \* the sessions the janitor took off a map

INSTANCE RunLimiter

limiterVars == <<tokens, closed>>
handlerVars == <<pc, cancelled, reply, lock>>
turnVars == <<said, history, loaded>>
fixedVars == <<request, swept, evicted, scenario>>
vars == <<loopVars, limiterVars, handlerVars, turnVars, fixedVars, token, channel>>

RequestType == [key : Keys, home : Instances, stream : BOOLEAN]

UseLocker == scenario.locker
May(fault) == fault \in scenario.faults

Home(r) == request[r].home
Key(r) == request[r].key
Capacity(r) == IF request[r].stream THEN 1 ELSE EventsCap

Goto(r, l) ==
    /\ pc' = [pc EXCEPT ![r] = l]
    /\ UNCHANGED <<cancelled, reply, lock>>

\* The handler returns: releaseLock cancels turnCtx and unlocks, and the HTTP
\* server cancels the request's context.
Reply(r, answer) ==
    /\ pc' = [pc EXCEPT ![r] = "done"]
    /\ reply' = [reply EXCEPT ![r] = answer]
    /\ cancelled' = [cancelled EXCEPT ![r] = TRUE]
    /\ lock' = [k \in Keys |-> IF lock[k] = r THEN NoSession ELSE lock[k]]

\* Mutant: release without sync.Once.
MutRelease(r) ==
    /\ token' = [token EXCEPT ![r] = "released"]
    /\ GiveToken(Home(r))

\* release, at most once.
Release(r) ==
    IF token[r] = "held"
    THEN /\ token' = [token EXCEPT ![r] = "released"]
         /\ GiveToken(Home(r))
    ELSE UNCHANGED <<token, limiterVars>>
-----------------------------------------------------------------------------
\* Mutant: the locker is not asked.
MutLock(r) ==
    /\ pc[r] = "lock"
    /\ Goto(r, "session")
    /\ UNCHANGED <<loopVars, limiterVars, turnVars, fixedVars, token, channel>>

\* lockTurn: SET NX is tried until it succeeds or the client is gone.
Lock(r) ==
    /\ pc[r] = "lock"
    /\ UseLocker => lock[Key(r)] = NoSession
    /\ lock' = IF UseLocker THEN [lock EXCEPT ![Key(r)] = r] ELSE lock
    /\ pc' = [pc EXCEPT ![r] = "session"]
    /\ UNCHANGED <<loopVars, limiterVars, turnVars, fixedVars, token, channel,
                   cancelled, reply>>

\* turnSession does not look at the context.
Session(r) ==
    /\ pc[r] = "session"
    /\ \/ ReuseSession(r, Home(r), Key(r)) /\ Goto(r, "acquire")
       \/ CreateSession(r, Home(r), Key(r)) /\ Goto(r, "acquire")
       \/ RegistryFull(Home(r), Key(r)) /\ Reply(r, "error")
    /\ UNCHANGED <<limiterVars, turnVars, fixedVars, token, channel>>

\* Acquire's first select only looks whether the limiter is shut down; the
\* second one waits for a place, for the shutdown and for turnCtx (GiveUp).
AcquireChecks(r) ==
    /\ pc[r] = "acquire"
    /\ ~closed[Home(r)]
    /\ Goto(r, "select")
    /\ UNCHANGED <<loopVars, limiterVars, turnVars, fixedVars, token, channel>>

AcquireClosed(r) ==
    /\ pc[r] \in {"acquire", "select"}
    /\ closed[Home(r)]
    /\ Reply(r, "error")
    /\ UNCHANGED <<loopVars, limiterVars, turnVars, fixedVars, token, channel>>

Acquire(r) ==
    /\ pc[r] = "select"
    /\ TakeToken(Home(r), scenario.places)
    /\ token' = [token EXCEPT ![r] = "held"]
    /\ Goto(r, "push")
    /\ UNCHANGED <<loopVars, turnVars, fixedVars, channel>>

\* PushBuild: the context and the session are checked before active is counted.
PushChecks(r) ==
    /\ pc[r] = "push"
    /\ ~cancelled[r]
    /\ CountActive(r)
    /\ Goto(r, "enqueue")
    /\ UNCHANGED <<limiterVars, turnVars, fixedVars, token, channel>>

PushFails(r) ==
    /\ pc[r] = "push"
    /\ cancelled[r] \/ session[mine[r]].stopped
    /\ Release(r)
    /\ Reply(r, "error")
    /\ UNCHANGED <<loopVars, turnVars, fixedVars, channel>>

\* Mutant: the handler releases once its turn is queued.
MutPush(r) ==
    /\ pc[r] = "enqueue"
    /\ Enqueue(r)
    /\ Goto(r, "wait")
    /\ Release(r)
    /\ UNCHANGED <<turnVars, fixedVars, channel>>

Push(r) ==
    /\ pc[r] = "enqueue"
    /\ Enqueue(r)
    /\ Goto(r, "wait")
    /\ UNCHANGED <<limiterVars, turnVars, fixedVars, token, channel>>

PushRefused(r) ==
    /\ pc[r] = "enqueue"
    /\ Refuse(r)
    /\ Release(r)
    /\ Reply(r, "error")
    /\ UNCHANGED <<turnVars, fixedVars, channel>>

\* The handler's select on its channel.
Receive(r) ==
    /\ pc[r] = "wait"
    /\ channel[r] # <<>>
    /\ channel' = [channel EXCEPT ![r] = Tail(@)]
    /\ IF Head(channel[r]) = "message" THEN Goto(r, "wait") ELSE Reply(r, Head(channel[r]))
    /\ UNCHANGED <<loopVars, limiterVars, turnVars, fixedVars, token>>

\* Wherever the handler waits it also waits for turnCtx.  A turn that was pushed
\* keeps its token until the loop ends it.
GiveUp(r) ==
    /\ pc[r] \in {"select", "wait"} \/ (pc[r] = "lock" /\ UseLocker)
    /\ cancelled[r]
    /\ Reply(r, "error")
    /\ UNCHANGED <<loopVars, limiterVars, turnVars, fixedVars, token, channel>>

Disconnect(r) ==
    /\ May("cancel")
    /\ pc[r] # "done"
    /\ ~cancelled[r]
    /\ cancelled' = [cancelled EXCEPT ![r] = TRUE]
    /\ UNCHANGED <<loopVars, limiterVars, turnVars, fixedVars, token, channel,
                   pc, reply, lock>>
-----------------------------------------------------------------------------
\* emit for an event that ends the turn.  ChatStream releases after it has told
\* the handler of a success, and before it tells of anything else.
EndTurn(s, r, event, after) ==
    /\ CallEmit(s, r, event, after)
    /\ IF request[r].stream /\ event = "ok"
       THEN UNCHANGED <<token, limiterVars>>
       ELSE Release(r)

\* GenInput calls buildTurnInput, which loads the history under turnCtx.
Build(s) ==
    /\ Building(s)
    /\ ~cancelled[Item(s)]
    /\ loaded' = [loaded EXCEPT ![Item(s)] = Len(history[Key(Item(s))])]
    /\ StartTurn(s)
    /\ UNCHANGED <<limiterVars, handlerVars, fixedVars, token, channel, said, history>>

BuildFails(s) ==
    /\ Building(s)
    /\ cancelled[Item(s)] \/ May("store")
    /\ EndTurn(s, Item(s), "error", "gen")
    /\ UNCHANGED <<handlerVars, turnVars, fixedVars, channel>>

\* handleAgentEvents passes the message of the agent to emit; the agent of the
\* chat pipeline sends one, which may be empty, or an error.
Message(s) ==
    LET r == session[s].turn IN
    /\ At(s, "run")
    /\ ~said[r]
    /\ said' = [said EXCEPT ![r] = TRUE]
    /\ \/ ~request[r].stream /\ CallEmit(s, r, "message", "run")
       \/ request[r].stream /\ UNCHANGED loopVars
    /\ UNCHANGED <<limiterVars, handlerVars, fixedVars, token, channel, history, loaded>>

\* ChatStream cannot send the message: emit's error makes the loop end.
MessageUnsent(s) ==
    LET r == session[s].turn IN
    /\ May("send")
    /\ At(s, "run")
    /\ request[r].stream
    /\ ~said[r]
    /\ EndTurn(s, r, "error", "ended")
    /\ UNCHANGED <<handlerVars, turnVars, fixedVars, channel>>

AgentFails(s) ==
    /\ At(s, "run")
    /\ May("agent") \/ cancelled[session[s].turn] \/ session[s].stopped
    /\ EndTurn(s, session[s].turn, "error", "ready")
    /\ UNCHANGED <<handlerVars, turnVars, fixedVars, channel>>

\* The agent is done.  An empty answer and a context that is done are errors;
\* otherwise the store goes on with the append.
AgentDone(s) ==
    LET r == session[s].turn IN
    /\ At(s, "run")
    /\ IF said[r] /\ ~cancelled[r]
       THEN /\ session' = [session EXCEPT ![s].loop = "append"]
            /\ UNCHANGED <<registry, sweep, mine, token, limiterVars>>
       ELSE EndTurn(s, r, "error", "ready")
    /\ UNCHANGED <<handlerVars, turnVars, fixedVars, channel>>

Commit(r) == history' = [history EXCEPT ![Key(r)] = Append(@, r)]

\* Mutant: the handler is told of a success whatever the append returned.
MutAppendFails(s) ==
    /\ At(s, "append")
    /\ May("store")
    /\ EndTurn(s, session[s].turn, "ok", "ready")
    /\ UNCHANGED <<handlerVars, fixedVars, channel, said, loaded, history>>

\* appendTurn reports an error, after which PostgreSQL may have committed.
AppendFails(s) ==
    /\ At(s, "append")
    /\ May("store")
    /\ Commit(session[s].turn) \/ UNCHANGED history
    /\ EndTurn(s, session[s].turn, "error", "ready")
    /\ UNCHANGED <<handlerVars, fixedVars, channel, said, loaded>>

\* appendTurn commits, at any version of the conversation.
AppendTurn(s) ==
    LET r == session[s].turn IN
    /\ At(s, "append")
    /\ Commit(r)
    /\ \/ EndTurn(s, r, "ok", "ready")
       \/ /\ May("send")
          /\ request[r].stream
          /\ EndTurn(s, r, "error", "ended")
    /\ UNCHANGED <<handlerVars, fixedVars, channel, said, loaded>>


\* The send on the request's channel, which waits for room whether or not the
\* handler is still there, ends emit.
Deliver(s) ==
    LET r == session[s].turn IN
    /\ At(s, "emit")
    /\ Len(channel[r]) < Capacity(r)
    /\ channel' = [channel EXCEPT ![r] = Append(@, session[s].event)]
    /\ IF session[s].event = "message" THEN UNCHANGED <<token, limiterVars>> ELSE Release(r)
    /\ EmitReturns(s)
    /\ UNCHANGED <<handlerVars, turnVars, fixedVars>>

\* What happens to a loop outside its turns.  It was started with the context of
\* the request that created it, which ends when that request is answered.
LoopStep(s) ==
    /\ \/ TakeItems(s)
       \/ GenInputFails(s)
       \/ /\ session[s].stopped \/ (cancelled[s] /\ At(s, "ready"))
          /\ LoopStops(s)
    /\ UNCHANGED <<limiterVars, handlerVars, turnVars, fixedVars, token, channel>>
-----------------------------------------------------------------------------
\* The janitor's sweep.
Evict(i) ==
    /\ ~swept[i]
    /\ EvictIdle(i)
    /\ evicted' = evicted \cup sweep'[i]
    /\ UNCHANGED <<limiterVars, handlerVars, turnVars, request, swept, scenario, token,
                   channel>>

\* Close: the limiter first, then StopAll.
Close(i) ==
    /\ May("close")
    /\ ~closed[i]
    /\ CloseLimiter(i)
    /\ UNCHANGED <<loopVars, handlerVars, turnVars, fixedVars, token, channel>>

StopAll(i) ==
    /\ closed[i]
    /\ ~swept[i]
    /\ swept' = [swept EXCEPT ![i] = TRUE]
    /\ UnregisterAll(i)
    /\ UNCHANGED <<limiterVars, handlerVars, turnVars, request, evicted, scenario, token,
                   channel>>

\* The janitor waits for a loop without limit, StopAll until its context is done.
Sweep(i, s) ==
    /\ \/ StopSession(i, s)
       \/ (At(s, "ended") \/ swept[i]) /\ StopReturns(i, s)
    /\ UNCHANGED <<limiterVars, handlerVars, turnVars, fixedVars, token, channel>>
-----------------------------------------------------------------------------
Init ==
    /\ LoopInit
    /\ LimiterInit
    /\ scenario \in Scenarios
    /\ request \in [Requests -> RequestType]
    /\ Cardinality({Key(r) : r \in Requests}) <= scenario.keys
    /\ Cardinality({Home(r) : r \in Requests}) <= scenario.instances
    /\ \E active \in kSubset(scenario.requests, Requests) :
         /\ pc = [r \in Requests |-> IF r \in active THEN "lock" ELSE "done"]
         /\ \A r \in Requests \ active :
              \E q \in active : request[r] = [request[q] EXCEPT !.stream = FALSE]
    /\ cancelled = [r \in Requests |-> FALSE]
    /\ token = [r \in Requests |-> "none"]
    /\ said = [r \in Requests |-> FALSE]
    /\ channel = [r \in Requests |-> <<>>]
    /\ reply = [r \in Requests |-> "none"]
    /\ lock = [k \in Keys |-> NoSession]
    /\ history = [k \in Keys |-> <<>>]
    /\ loaded = [r \in Requests |-> 0]
    /\ swept = [i \in Instances |-> FALSE]
    /\ evicted = {}

\* The steps of a request's handler, and of a loop.
Handler(r) ==
    \/ Lock(r) \/ Session(r) \/ AcquireChecks(r) \/ AcquireClosed(r) \/ Acquire(r)
    \/ PushChecks(r) \/ PushFails(r) \/ Push(r) \/ PushRefused(r)
    \/ Receive(r) \/ GiveUp(r)

Turn(s) ==
    \/ LoopStep(s) \/ Build(s) \/ BuildFails(s)
    \/ Message(s) \/ MessageUnsent(s) \/ AgentFails(s) \/ AgentDone(s)
    \/ AppendFails(s) \/ AppendTurn(s) \/ Deliver(s)

Stops(i) == StopAll(i) \/ (\E s \in Requests : Sweep(i, s))

Registry(i) == Evict(i) \/ Stops(i)

Finished == (\A r \in Requests : pc[r] = "done") /\ UNCHANGED vars

Next ==
    \/ \E r \in Requests : Handler(r) \/ Disconnect(r) \/ Turn(r)
    \/ \E i \in Instances : Close(i) \/ Registry(i)
    \/ Finished

Spec == Init /\ [][Next]_vars

\* Goroutines run on and the agent's iterator ends.  No session has to become idle.
Fairness ==
    /\ \A r \in Requests : WF_vars(Handler(r)) /\ WF_vars(Turn(r))
    /\ \A i \in Instances : WF_vars(Stops(i))

FairSpec == Spec /\ Fairness
-----------------------------------------------------------------------------
Answers == {"none", "ok", "error"}
Events == {"none", "message", "ok", "error"}
Loops == {"none", "ready", "gen", "run", "append", "emit", "ended"}

\* Every variable keeps its shape; a loop that is at a turn has one.
TypeOK ==
    /\ session \in [Requests ->
          [loop : Loops, buffer : Seq(Requests), items : Seq(Requests), index : Nat,
           turn : Requests \cup {NoSession}, event : Events, after : Loops,
           active : Int, stopped : BOOLEAN]]
    /\ registry \in [Instances -> [Keys -> Requests \cup {NoSession}]]
    /\ sweep \in [Instances -> SUBSET Requests]
    /\ mine \in [Requests -> Requests \cup {NoSession}]
    /\ tokens \in [Instances -> 0 .. scenario.places]
    /\ closed \in [Instances -> BOOLEAN]
    /\ request \in [Requests -> RequestType]
    /\ pc \in [Requests -> {"lock", "session", "acquire", "select", "push", "enqueue",
                            "wait", "done"}]
    /\ cancelled \in [Requests -> BOOLEAN]
    /\ token \in [Requests -> {"none", "held", "released"}]
    /\ said \in [Requests -> BOOLEAN]
    /\ channel \in [Requests -> Seq({"message", "ok", "error"})]
    /\ reply \in [Requests -> Answers]
    /\ lock \in [Keys -> Requests \cup {NoSession}]
    /\ history \in [Keys -> Seq(Requests)]
    /\ loaded \in [Requests -> Nat]
    /\ swept \in [Instances -> BOOLEAN]
    /\ evicted \subseteq Requests
    /\ scenario \in Scenarios
    /\ \A s \in Requests :
          session[s].loop \in {"run", "append", "emit"} => session[s].turn \in Requests

\* The limiter's channel holds one element for every request that acquired and
\* has not released, so that no path of the handlers or the loops frees the
\* place of another turn (chat_v1_chat.go:41-48, chat_v1_chat_stream.go:55-62).
Holders(i) == {r \in Requests : Home(r) = i /\ token[r] = "held"}
TokensCounted == \A i \in Instances : tokens[i] = Cardinality(Holders(i))

\* A request is answered with success only when its turn is in the history, and
\* no turn is there twice, although failed builds are tried again (chat_v1_chat.go:
\* 54-66, chat_v1_chat_stream.go:95-105).
Places(r) == {n \in DOMAIN history[Key(r)] : history[Key(r)][n] = r}
OkCommitted ==
    \A r \in Requests :
        /\ Cardinality(Places(r)) <= 1
        /\ reply[r] = "ok" => Places(r) # {}

\* An answer may miss turns that were committed since its own turn read the history
\* (turn_loop.go:127-134, chat_new.go:102-111), but never one of its own loop, which
\* is serial.  Under the lock one of the two requests has been answered with an error,
\* and its turn was left to the loop when the lock was given back.  Within a process
\* two loops have one conversation only when the janitor took one of them off the map
\* (turn_loop_registry.go:152-164), which may be after a request got it.
Missed(r) ==
    LET h == history[Key(r)] IN
    {q \in Requests : \E m, n \in DOMAIN h :
                         h[n] = r /\ h[m] = q /\ loaded[r] < m /\ m < n}

TurnSeesHistory ==
    \A r \in Requests : \A q \in Missed(r) :
        /\ mine[q] # mine[r]
        /\ UseLocker => "error" \in {reply[q], reply[r]}
        /\ Home(q) = Home(r) => mine[q] \in evicted \/ mine[r] \in evicted

\* Every turn that is with the agent has one of the places of its process, which
\* bounds how many there are (run_limiter.go:10-11), but for a turn whose build
\* failed: it gave its place back, its client has been told, and it is tried again.
Told(r) == reply[r] = "error" \/ "error" \in Range(channel[r])

RunsCounted ==
    \A s \in Requests :
        session[s].loop \in {"run", "append"} =>
            token[session[s].turn] = "held" \/ Told(session[s].turn)

\* A loop that goes no further: it has ended, as it does when the request that
\* created it has been answered or when GenInput finds nothing to run, or it waits
\* to tell a handler that has gone of one more failed build.
Stuck(s) ==
    \/ At(s, "ended")
    \/ /\ At(s, "emit")
       /\ pc[session[s].turn] = "done"
       /\ Len(channel[session[s].turn]) = Capacity(session[s].turn)

Lost(r) == pc[r] \in {"wait", "done"} /\ token[r] = "held" /\ Stuck(mine[r])

\* Every request is answered, unless the loop that has its turn is stuck, or a turn
\* that a stuck loop dropped keeps the place or the lock it waits for
\* (chat_v1_chat.go:74-86, chat_v1_chat_stream.go:131-143).
RequestsEnd ==
    \A r \in Requests :
        <>(\/ pc[r] = "done"
           \/ pc[r] = "wait" /\ channel[r] = <<>> /\ Stuck(mine[r])
           \/ pc[r] \in {"lock", "select"} /\ \E q \in Requests : Lost(q))


\* A place of the limiter that was taken is given back.
TokensReturned == \A r \in Requests : token[r] = "held" ~> token[r] # "held"
=============================================================================
