---------------------------- MODULE ChatTurnProofs ----------------------------
(***************************************************************************)
(* The limiter counts the turns that run, a success is in the history      *)
(* once, and an answer misses only turns that the lock and the registry    *)
(* had let go of, for any requests, processes, limits and failures.        *)
(***************************************************************************)
EXTENDS ChatTurn, FiniteSetTheorems, TLAPS

SessionRec ==
    [loop : Loops, buffer : Seq(Requests), items : Seq(Requests), index : Nat,
     turn : Requests \cup {NoSession}, event : Events, after : Loops,
     active : Int, stopped : BOOLEAN]

\* Types, in parts.
LoopTypes ==
    /\ session \in [Requests -> SessionRec]
    /\ registry \in [Instances -> [Keys -> Requests \cup {NoSession}]]
    /\ mine \in [Requests -> Requests \cup {NoSession}]
HandlerTypes ==
    /\ request \in [Requests -> RequestType]
    /\ pc \in [Requests -> {"lock", "session", "acquire", "select", "push", "enqueue", "wait",
                            "done"}]
    /\ cancelled \in [Requests -> BOOLEAN]
    /\ reply \in [Requests -> Answers]
    /\ lock \in [Keys -> Requests \cup {NoSession}]
    /\ channel \in [Requests -> Seq({"message", "ok", "error"})]
LimiterTypes ==
    /\ tokens \in [Instances -> Nat]
    /\ token \in [Requests -> {"none", "held", "released"}]
    /\ closed \in [Instances -> BOOLEAN]
    /\ swept \in [Instances -> BOOLEAN]
TurnTypes ==
    /\ said \in [Requests -> BOOLEAN]
    /\ history \in [Keys -> Seq(Requests)]
    /\ loaded \in [Requests -> Nat]
Types == LoopTypes /\ HandlerTypes /\ LimiterTypes /\ TurnTypes

\* A request that waits in a session, that is with the agent, and that is told of the end.
Pending(r, s) == r \in ToSet(session[s].buffer) \cup ToSet(session[s].items)
Active(r, s) ==
    /\ session[s].turn = r
    /\ session[s].loop \in {"run", "append"} \/ (At(s, "emit") /\ session[s].after = "run")
Ending(r, s) == session[s].turn = r /\ At(s, "emit") /\ session[s].after # "run"

\* It was pushed to s, which cannot be undone.
Claimed(r, s) == mine[r] = s /\ token[r] # "none" /\ pc[r] \in {"wait", "done"}
Committed(r) == Places(r) # {}

\* A session has every request once, in one place, and none that is committed.
PlacesInv(s) ==
    /\ IsInjective(session[s].buffer) /\ IsInjective(session[s].items)
    /\ ToSet(session[s].buffer) \cap ToSet(session[s].items) = {}
    /\ session[s].loop \in {"none", "ready", "run", "append"} => session[s].items = <<>>
    /\ At(s, "emit") /\ session[s].after # "gen" => session[s].items = <<>>
    /\ \A r \in Requests : Pending(r, s) => ~Active(r, s) /\ ~Committed(r)
    /\ \A r \in Requests : Ending(r, s) /\ Pending(r, s) => session[s].after = "gen"
    /\ \A r \in Requests : Active(r, s) => ~Committed(r)
ClaimInv(s) ==
    \A r \in Requests : Pending(r, s) \/ Active(r, s) \/ Ending(r, s) => Claimed(r, s)
LoopInv(s) ==
    /\ session[s].loop \in {"run", "append", "emit"} => session[s].turn \in Requests
    /\ At(s, "gen") \/ (At(s, "emit") /\ session[s].after = "gen") => session[s].index # 0
    /\ At(s, "emit") =>
          /\ session[s].event \in {"message", "ok", "error"}
          /\ session[s].after \in {"run", "gen", "ready", "ended"}
          /\ session[s].event = "message" <=> session[s].after = "run"
          /\ session[s].event = "ok" => Committed(session[s].turn)
          /\ session[s].event = "error" => token[session[s].turn] # "held"

\* What a handler has, and what it has been told.
HandlerInv(r) ==
    /\ pc[r] \in {"lock", "session"} => session[r].loop = "none"
    /\ pc[r] \in {"acquire", "select", "push", "enqueue", "wait"} => mine[r] \in Requests
    /\ pc[r] \in {"lock", "session", "acquire", "select"} => token[r] = "none"
    /\ pc[r] \in {"push", "enqueue"} => token[r] = "held"
    /\ pc[r] \notin {"wait", "done"} => ~Committed(r)
    /\ "ok" \in ToSet(channel[r]) => Committed(r)
    /\ reply[r] = "ok" => Committed(r)
    /\ \A m, n \in Places(r) : m = n
KeysInv == \A k \in Keys : \A n \in DOMAIN history[k] : Key(history[k][n]) = k
CountInv(i) == IsFiniteSet(Holders(i)) /\ tokens[i] = Cardinality(Holders(i))
\* A handler that is done has answered, if it got as far as the limiter.
AnsweredInv(r) ==
    /\ pc[r] # "done" => reply[r] = "none"
    /\ pc[r] = "done" /\ token[r] # "none" => reply[r] # "none"

\* A queued turn has its place, or its handler was told of a failed build, or is being told.
HeldInv ==
    \A r, s \in Requests :
       /\ Pending(r, s) => token[r] = "held" \/ Told(r) \/ Ending(r, s)
       /\ Active(r, s) => token[r] = "held" \/ Told(r)

\* A handler that is not done has the lock of its conversation.
LockInv(r) == UseLocker /\ pc[r] \notin {"lock", "done"} => lock[Key(r)] = r

\* A registry has its own sessions; those that the janitor did not take off it stay
\* registered and are not stopped before StopAll.
SweepTypes == sweep \in [Instances -> SUBSET Requests] /\ evicted \subseteq Requests
OwnerInv(i, k) ==
    registry[i][k] # NoSession =>
        LET s == registry[i][k] IN session[s].loop # "none" /\ Home(s) = i /\ Key(s) = k
MineInv(r) ==
    /\ mine[r] # NoSession =>
          session[mine[r]].loop # "none" /\ Home(mine[r]) = Home(r) /\ Key(mine[r]) = Key(r)
    /\ token[r] # "none" => mine[r] # NoSession
SweptInv(i) ==
    /\ swept[i] => closed[i]
    /\ \A s \in sweep[i] : Home(s) = i
    /\ ~swept[i] =>
          /\ sweep[i] \subseteq evicted
          /\ \A s \in Requests \ evicted : Home(s) = i =>
                /\ session[s].loop # "none" => registry[i][Key(s)] = s
                /\ ~session[s].stopped

\* Who passes the limiter's first check does so before StopAll: two such requests of a
\* conversation have one session unless the janitor took one of two away.
Got(r) == token[r] # "none" \/ pc[r] = "select"
SharedInv(r, q) ==
    Got(r) /\ Got(q) /\ Key(r) = Key(q) /\ Home(r) = Home(q) =>
        mine[r] = mine[q] \/ mine[r] \in evicted \/ mine[q] \in evicted
RegistryInv ==
    /\ SweepTypes
    /\ \A i \in Instances : \A k \in Keys : OwnerInv(i, k)
    /\ \A r \in Requests : MineInv(r)
    /\ \A i \in Instances : SweptInv(i)
    /\ \A r, q \in Requests : SharedInv(r, q)

\* Two turns that nothing keeps from running at a time.
Apart(q, r) ==
    /\ mine[q] # mine[r]
    /\ UseLocker => "error" \in {reply[q], reply[r]}
    /\ Home(q) = Home(r) => mine[q] \in evicted \/ mine[r] \in evicted

\* The agent of a turn has read all of the history, but for such turns.
ReadInv(r) ==
    LET h == history[Key(r)] IN
    /\ loaded[r] <= Len(h)
    /\ \A q \in Requests : \A n \in DOMAIN h : h[n] = q /\ loaded[r] < n => Apart(q, r)
SeesInv ==
    /\ TurnSeesHistory
    /\ \A r, s \in Requests : Active(r, s) => ReadInv(r)

Inv ==
    /\ Types
    /\ \A s \in Requests : LoopInv(s) /\ PlacesInv(s) /\ ClaimInv(s)
    /\ \A r \in Requests : HandlerInv(r) /\ AnsweredInv(r)
    /\ KeysInv
SerialInv == (\A r \in Requests : LockInv(r)) /\ RegistryInv /\ SeesInv
-----------------------------------------------------------------------------
\* What a step does to a session.
SameLoop(s) ==
    /\ session'[s].loop = session[s].loop /\ session'[s].buffer = session[s].buffer
    /\ session'[s].items = session[s].items /\ session'[s].index = session[s].index
    /\ session'[s].turn = session[s].turn /\ session'[s].event = session[s].event
    /\ session'[s].after = session[s].after
Took(s) ==
    /\ session[s].loop = "ready" /\ session'[s].loop = "gen"
    /\ session'[s].items = session[s].buffer /\ session'[s].buffer = <<>>
    /\ session'[s].index = 1
Starts(s) ==
    /\ Building(s) /\ ~cancelled[Item(s)] /\ session'[s].loop = "run"
    /\ session'[s].turn = Item(s) /\ session'[s].items = <<>>
    /\ session'[s].buffer = RemoveAt(session[s].items, session[s].index) \o session[s].buffer
    /\ loaded' = [loaded EXCEPT ![Item(s)] = Len(history[Key(Item(s))])]
EmitsTo(s, r, event, after) ==
    /\ session'[s].loop = "emit" /\ session'[s].turn = r
    /\ session'[s].event = event /\ session'[s].after = after
    /\ session'[s].buffer = session[s].buffer /\ session'[s].items = session[s].items
    /\ event = "error" => token'[r] # "held"
FailsBuild(s) ==
    /\ Building(s) /\ EmitsTo(s, Item(s), "error", "gen")
    /\ session'[s].index = session[s].index + 1
    /\ cancelled[Item(s)] \/ May("store")
Says(s) ==
    /\ At(s, "run") /\ EmitsTo(s, session[s].turn, "message", "run")
    /\ UNCHANGED <<token, history>>
Finishes(s) ==
    /\ session[s].loop \in {"run", "append"}
    /\ \E event \in {"ok", "error"}, after \in {"ready", "ended"} :
          /\ EmitsTo(s, session[s].turn, event, after)
          /\ event = "ok" => At(s, "append") /\ Commit(session[s].turn)
Returns(s) ==
    /\ Deliver(s) /\ session'[s].loop = session[s].after
    /\ session'[s].buffer = session[s].buffer /\ session'[s].items = session[s].items
    /\ session'[s].index = session[s].index
    /\ session'[s].turn = IF session[s].after = "run" THEN session[s].turn ELSE NoSession
Ends(s) ==
    /\ session[s].loop \in {"ready", "gen"} /\ session'[s].loop = "ended"
    /\ session'[s].buffer = session[s].buffer /\ session'[s].items = session[s].items
Continues(s) ==
    /\ session[s].loop = "run" /\ session'[s].loop = "append"
    /\ session'[s].turn = session[s].turn
    /\ session'[s].buffer = session[s].buffer /\ session'[s].items = session[s].items
-----------------------------------------------------------------------------
\* The item GenInput looks at is one of the items.
LEMMA ItemTaken ==
    ASSUME LoopTypes, NEW s \in Requests, Building(s), LoopInv(s)
    PROVE  /\ Item(s) \in Requests /\ Item(s) \in ToSet(session[s].items)
           /\ session[s].index \in 1 .. Len(session[s].items)
<1>1. session[s].items \in Seq(Requests) /\ session[s].index \in Nat
  BY DEF LoopTypes, SessionRec
<1>2. session[s].index \in 1 .. Len(session[s].items)
  BY <1>1 DEF Building, LoopInv
<1> QED BY <1>1, <1>2 DEF Item, ToSet

\* Whose turn a loop is at.
LEMMA TurnTaken ==
    ASSUME NEW s \in Requests, LoopInv(s), session[s].loop \in {"run", "append", "emit"}
    PROVE  session[s].turn \in Requests
BY DEF LoopInv

\* A session of which some fields change.
LEMMA RecUpdate ==
    ASSUME NEW R \in SessionRec
    PROVE  /\ \A l \in Loops : [R EXCEPT !.loop = l] \in SessionRec
           /\ [R EXCEPT !.stopped = TRUE] \in SessionRec
           /\ \A n \in Int : [R EXCEPT !.active = n] \in SessionRec
BY DEF SessionRec
\* A session that is replaced by a record of the type keeps the types of the loops.
LEMMA SessionUpdate ==
    ASSUME LoopTypes, NEW s \in Requests, NEW R \in SessionRec,
           session' = [session EXCEPT ![s] = R], UNCHANGED <<registry, mine>>
    PROVE  LoopTypes'
BY DEF LoopTypes

\* The steps of the loops keep types.
LEMMA CallEmitType ==
    ASSUME LoopTypes, NEW s \in Requests, NEW r \in Requests, NEW event \in Events,
           NEW after \in Loops, CallEmit(s, r, event, after)
    PROVE  LoopTypes'
<1>1. session[s].index \in Nat /\ session[s] \in SessionRec
  BY DEF LoopTypes, SessionRec
<1>2. PICK n \in Nat : n = IF At(s, "gen") THEN session[s].index + 1 ELSE session[s].index
  BY <1>1
<1> DEFINE R == [session[s] EXCEPT !.loop = "emit", !.turn = r, !.event = event, !.after = after,
                                   !.index = n]
<1>3. R \in SessionRec
  BY <1>1 DEF SessionRec, Loops
<1>4. session' = [session EXCEPT ![s] = R] /\ UNCHANGED <<registry, mine>>
  BY <1>2 DEF CallEmit, LoopTypes
<1> HIDE DEF R
<1> QED BY <1>3, <1>4, SessionUpdate

\* So does a build that succeeds,
LEMMA StartTurnType ==
    ASSUME LoopTypes, NEW s \in Requests, Building(s), LoopInv(s), StartTurn(s)
    PROVE  LoopTypes'
<1>1. /\ session[s].items \in Seq(Requests) /\ session[s].buffer \in Seq(Requests)
      /\ session[s].index \in 1 .. Len(session[s].items) /\ Item(s) \in Requests
  BY ItemTaken DEF LoopTypes, SessionRec
<1>2. RemoveAt(session[s].items, session[s].index) \in Seq(Requests)
  BY <1>1 DEF RemoveAt
<1>3. RemoveAt(session[s].items, session[s].index) \o session[s].buffer \in Seq(Requests)
  BY <1>1, <1>2
<1>4. <<>> \in Seq(Requests)
  OBVIOUS
<1> QED BY <1>1, <1>3, <1>4 DEF LoopTypes, SessionRec, StartTurn, Loops

\* an emit that returns to where it was called from,
LEMMA EmitReturnsType ==
    ASSUME LoopTypes, NEW s \in Requests, EmitReturns(s)
    PROVE  LoopTypes'
<1>1. session[s].active \in Int /\ session[s].active - 1 \in Int
  BY DEF LoopTypes, SessionRec
<1> QED BY <1>1 DEF LoopTypes, SessionRec, EmitReturns, Loops, Events

\* a push into the queue of a session,
LEMMA EnqueueType ==
    ASSUME LoopTypes, NEW r \in Requests, mine[r] \in Requests, Enqueue(r)
    PROVE  LoopTypes'
<1>1. session[mine[r]].buffer \in Seq(Requests)
  BY DEF LoopTypes, SessionRec
<1>2. Append(session[mine[r]].buffer, r) \in Seq(Requests)
  BY <1>1
<1> QED BY <1>2 DEF LoopTypes, SessionRec, Enqueue

\* and GetOrCreate, which makes a session or finds the registry's.
LEMMA SessionType ==
    ASSUME LoopTypes, HandlerTypes, NEW r \in Requests, Session(r)
    PROVE  LoopTypes'
<1>1. Home(r) \in Instances /\ Key(r) \in Keys
  BY DEF HandlerTypes, RequestType, Home, Key
<1>2. CASE ReuseSession(r, Home(r), Key(r))
  BY <1>1, <1>2 DEF LoopTypes, ReuseSession
<1>3. CASE CreateSession(r, Home(r), Key(r))
  <2>1. [session[r] EXCEPT !.loop = "ready"] \in SessionRec
    BY RecUpdate DEF LoopTypes, Loops
  <2>2. session' \in [Requests -> SessionRec]
    BY <1>3, <2>1 DEF LoopTypes, CreateSession
  <2> QED BY <1>1, <1>3, <2>2 DEF LoopTypes, CreateSession
<1>4. CASE RegistryFull(Home(r), Key(r))
  BY <1>1, <1>4 DEF LoopTypes, RegistryFull
<1> QED BY <1>2, <1>3, <1>4 DEF Session

\* The registry's steps change only registry, sweep and stopped.
LEMMA RegistryStep ==
    ASSUME LoopTypes, NEW i \in Instances, Registry(i) \/ Close(i)
    PROVE  /\ LoopTypes' /\ \A s \in Requests : SameLoop(s)
           /\ UNCHANGED <<mine, handlerVars, turnVars, request, scenario, token, channel, tokens>>
<1> USE DEF LoopTypes, SameLoop
<1>1. CASE Close(i)
  <2>1. UNCHANGED loopVars
    BY <1>1 DEF Close
  <2> QED BY <1>1, <2>1 DEF Close, CloseLimiter, loopVars, fixedVars
<1>2. CASE Evict(i)
  BY <1>2 DEF Evict, EvictIdle, Without, limiterVars, fixedVars
<1>3. CASE StopAll(i)
  BY <1>3 DEF StopAll, UnregisterAll, limiterVars
<1>4. ASSUME NEW s \in Requests, Sweep(i, s)
      PROVE  /\ LoopTypes' /\ \A t \in Requests : SameLoop(t)
             /\ UNCHANGED <<mine, handlerVars, turnVars, request, scenario, token, channel, tokens>>
  <2>1. CASE StopSession(i, s)
    <3>1. session' = [session EXCEPT ![s].stopped = TRUE] /\ UNCHANGED <<registry, mine>>
      BY <2>1 DEF StopSession
    <3>2. [session[s] EXCEPT !.stopped = TRUE] \in SessionRec
      BY RecUpdate
    <3>3. LoopTypes'
      BY <3>1, <3>2
    <3>4. \A t \in Requests : SameLoop(t)
      BY <3>1 DEF SessionRec
    <3> HIDE DEF LoopTypes, SameLoop
    <3> QED BY <1>4, <3>1, <3>3, <3>4 DEF Sweep, limiterVars, fixedVars
  <2>2. CASE StopReturns(i, s)
    BY <1>4, <2>2 DEF Sweep, StopReturns, limiterVars, fixedVars
  <2> QED BY <1>4, <2>1, <2>2 DEF Sweep
<1> QED BY <1>1, <1>2, <1>3, <1>4 DEF Registry, Stops

\* No step of a handler breaks the types of the loops,
LEMMA HandlerLoopTypes ==
    ASSUME LoopTypes, HandlerTypes, NEW r \in Requests, HandlerInv(r), Handler(r) \/ Disconnect(r)
    PROVE  LoopTypes'
<1>1. CASE UNCHANGED loopVars
  BY <1>1 DEF LoopTypes, loopVars
<1>2. CASE Session(r)
  BY <1>2, SessionType
<1>3. CASE Push(r) \/ PushChecks(r) \/ PushRefused(r)
  <2>1. mine[r] \in Requests
    BY <1>3 DEF HandlerInv, Push, PushChecks, PushRefused
  <2>2. CASE Push(r)
    BY <2>1, <2>2, EnqueueType DEF Push
  <2>3. \A n \in Int : [session[mine[r]] EXCEPT !.active = n] \in SessionRec
    BY <2>1, RecUpdate DEF LoopTypes
  <2>4. session[mine[r]].active + 1 \in Int /\ session[mine[r]].active - 1 \in Int
    BY <2>1 DEF LoopTypes, SessionRec
  <2>5. CASE PushChecks(r)
    <3>1. [session[mine[r]] EXCEPT !.active = @ + 1] \in SessionRec
      BY <2>3, <2>4
    <3> QED BY <2>1, <2>5, <3>1 DEF LoopTypes, PushChecks, CountActive
  <2>6. CASE PushRefused(r)
    <3>1. [session[mine[r]] EXCEPT !.active = @ - 1] \in SessionRec
      BY <2>3, <2>4
    <3> QED BY <2>1, <2>6, <3>1 DEF LoopTypes, PushRefused, Refuse
  <2> QED BY <1>3, <2>2, <2>5, <2>6
<1> QED BY <1>1, <1>2, <1>3
  DEF Handler, Disconnect, Lock, AcquireChecks, AcquireClosed, Acquire, PushFails, Receive, GiveUp

\* and no step of a loop.
LEMMA TurnLoopTypes ==
    ASSUME LoopTypes, NEW s \in Requests, LoopInv(s), Turn(s)
    PROVE  LoopTypes'
<1>1. CASE LoopStep(s)
  <2>1. [session[s] EXCEPT !.loop = "ended"] \in SessionRec
    BY RecUpdate DEF LoopTypes, Loops
  <2>2. CASE GenInputFails(s) \/ LoopStops(s)
    BY <2>1, <2>2 DEF GenInputFails, LoopStops, LoopTypes
  <2>3. [session[s] EXCEPT !.loop = "gen", !.items = session[s].buffer, !.index = 1, !.buffer = <<>>]
          \in SessionRec
    <3>1. <<>> \in Seq(Requests)
      OBVIOUS
    <3> QED BY <3>1 DEF LoopTypes, SessionRec, Loops
  <2>4. CASE TakeItems(s)
    BY <2>3, <2>4 DEF TakeItems, LoopTypes
  <2> QED BY <1>1, <2>2, <2>4 DEF LoopStep
<1>2. CASE Build(s)
  BY <1>2, StartTurnType DEF Build
<1>3. CASE BuildFails(s)
  BY <1>3, CallEmitType, ItemTaken DEF BuildFails, EndTurn, Events, Loops
<1>4. ASSUME session[s].loop \in {"run", "append"}, NEW event \in Events, NEW after \in Loops,
             CallEmit(s, session[s].turn, event, after)
      PROVE  LoopTypes'
  BY <1>4, CallEmitType, TurnTaken
<1>5. CASE UNCHANGED loopVars
  BY <1>5 DEF LoopTypes, loopVars
<1>6. CASE Message(s) \/ MessageUnsent(s) \/ AgentFails(s)
  BY <1>4, <1>5, <1>6 DEF Message, MessageUnsent, AgentFails, EndTurn, At, Events, Loops
<1>7. CASE AgentDone(s)
  <2>1. CASE session' = [session EXCEPT ![s].loop = "append"] /\ UNCHANGED <<registry, mine>>
    <3>1. [session[s] EXCEPT !.loop = "append"] \in SessionRec
      BY RecUpdate DEF LoopTypes, Loops
    <3> QED BY <2>1, <3>1 DEF LoopTypes
  <2> QED BY <1>4, <1>7, <2>1 DEF AgentDone, EndTurn, At, Events, Loops
<1>8. CASE AppendFails(s) \/ AppendTurn(s)
  BY <1>4, <1>8 DEF AppendFails, AppendTurn, EndTurn, At, Events, Loops
<1>9. CASE Deliver(s)
  BY <1>9, EmitReturnsType DEF Deliver
<1> QED BY <1>1, <1>2, <1>3, <1>6, <1>7, <1>8, <1>9 DEF Turn
-----------------------------------------------------------------------------
\* Which variables a step of a loop leaves alone.
LEMMA TurnFrame ==
    ASSUME NEW s \in Requests, Turn(s)
    PROVE  /\ UNCHANGED <<registry, sweep, mine, handlerVars, fixedVars, closed>>
           /\ ~Deliver(s) => channel' = channel
           /\ ~(AppendFails(s) \/ AppendTurn(s)) => history' = history
           /\ ~Build(s) => loaded' = loaded
<1> USE DEF EndTurn, CallEmit, Release, GiveToken, turnVars, limiterVars, loopVars
<1>1. CASE LoopStep(s)
  BY <1>1 DEF LoopStep, TakeItems, GenInputFails, LoopStops
<1>2. CASE Build(s)
  BY <1>2 DEF Build, StartTurn
<1>3. CASE BuildFails(s)
  BY <1>3 DEF BuildFails
<1>4. CASE Message(s)
  BY <1>4 DEF Message
<1>5. CASE MessageUnsent(s) \/ AgentFails(s)
  BY <1>5 DEF MessageUnsent, AgentFails
<1>6. CASE AgentDone(s)
  BY <1>6 DEF AgentDone
<1>7. CASE AppendFails(s)
  BY <1>7 DEF AppendFails
<1>8. CASE AppendTurn(s)
  BY <1>8 DEF AppendTurn
<1>9. CASE Deliver(s)
  BY <1>9 DEF Deliver, EmitReturns
<1> QED BY <1>1, <1>2, <1>3, <1>4, <1>5, <1>6, <1>7, <1>8, <1>9 DEF Turn

\* A request's place in the limiter is given back at most once,
LEMMA ReleaseType ==
    ASSUME LimiterTypes, HandlerTypes, NEW r \in Requests, Release(r), UNCHANGED swept
    PROVE  /\ LimiterTypes' /\ token'[r] # "held" /\ \A q \in Requests \ {r} : token'[q] = token[q]
           /\ token[r] # "none" => token'[r] # "none"
<1>1. Home(r) \in Instances
  BY DEF HandlerTypes, RequestType, Home
<1>2. CASE token[r] = "held"
  BY <1>1, <1>2 DEF LimiterTypes, Release, GiveToken
<1>3. CASE token[r] # "held"
  BY <1>3 DEF LimiterTypes, Release, limiterVars
<1> QED BY <1>2, <1>3

\* by whoever ends its turn.
LEMMA TurnTokens ==
    ASSUME LimiterTypes, HandlerTypes, LoopTypes, NEW s \in Requests, LoopInv(s), Turn(s)
    PROVE  /\ LimiterTypes'
           /\ \/ UNCHANGED <<token, tokens>>
              \/ \E r \in Requests :
                    /\ Release(r)
                    /\ \/ BuildFails(s) /\ r = Item(s)
                       \/ session[s].loop \in {"run", "append"} /\ r = session[s].turn
                          /\ session'[s].loop = "emit" /\ session'[s].after # "run"
                       \/ Deliver(s) /\ r = session[s].turn /\ session[s].event # "message"
<1> USE DEF EndTurn, limiterVars
<1>0. UNCHANGED swept
  BY TurnFrame DEF fixedVars
<1>1. UNCHANGED <<token, tokens>> => LimiterTypes'
  <2>1. UNCHANGED closed
    BY TurnFrame
  <2> QED BY <1>0, <2>1 DEF LimiterTypes
<1>2. \A r \in Requests : Release(r) => LimiterTypes'
  BY <1>0, ReleaseType
<1>3. CASE LoopStep(s) \/ Build(s) \/ Message(s)
  BY <1>1, <1>3 DEF LoopStep, Build, Message
<1>4. CASE BuildFails(s)
  <2>1. Item(s) \in Requests
    BY <1>4, ItemTaken DEF BuildFails
  <2> QED BY <1>1, <1>2, <1>4, <2>1 DEF BuildFails
<1>5. ASSUME session[s].loop \in {"run", "append"}, NEW event, NEW after \in {"ready", "ended"},
             EndTurn(s, session[s].turn, event, after)
      PROVE  \/ UNCHANGED <<token, tokens>>
             \/ \E r \in Requests :
                   Release(r) /\ r = session[s].turn
                   /\ session'[s].loop = "emit" /\ session'[s].after # "run"
  <2>1. session[s].turn \in Requests
    BY <1>5, TurnTaken
  <2>2. session'[s].loop = "emit" /\ session'[s].after = after
    BY <1>5 DEF CallEmit, LoopTypes, SessionRec
  <2> QED BY <1>5, <2>1, <2>2
<1>6. CASE MessageUnsent(s) \/ AgentFails(s)
  BY <1>1, <1>2, <1>5, <1>6 DEF MessageUnsent, AgentFails, At
<1>7. CASE AgentDone(s)
  BY <1>1, <1>2, <1>5, <1>7 DEF AgentDone, At
<1>8. CASE AppendFails(s) \/ AppendTurn(s)
  BY <1>1, <1>2, <1>5, <1>8 DEF AppendFails, AppendTurn, At
<1>9. CASE Deliver(s)
  <2>1. session[s].turn \in Requests
    BY <1>9, TurnTaken DEF Deliver, At
  <2> QED BY <1>1, <1>2, <1>9, <2>1 DEF Deliver
<1> QED BY <1>3, <1>4, <1>6, <1>7, <1>8, <1>9 DEF Turn
-----------------------------------------------------------------------------
\* A handler moves on,
LEMMA ReplyType ==
    ASSUME HandlerTypes, NEW r \in Requests, NEW answer \in Answers, Reply(r, answer),
           UNCHANGED request, channel' \in [Requests -> Seq({"message", "ok", "error"})]
    PROVE  HandlerTypes'
BY DEF HandlerTypes, Reply

\* A handler that goes on keeps the types of the handlers.
LEMMA GotoType ==
    ASSUME HandlerTypes, NEW r \in Requests,
           NEW l \in {"lock", "session", "acquire", "select", "push", "enqueue", "wait", "done"}, Goto(r, l),
           UNCHANGED request, channel' \in [Requests -> Seq({"message", "ok", "error"})]
    PROVE  HandlerTypes'
BY DEF HandlerTypes, Goto

\* and touches only what belongs to its request, its session and its conversation's lock.
LEMMA HandlerTypesStep ==
    ASSUME HandlerTypes, NEW r \in Requests, Handler(r) \/ Disconnect(r)
    PROVE  HandlerTypes'
<1>0. UNCHANGED request
  BY DEF Handler, Disconnect, Lock, Session, AcquireChecks, AcquireClosed, Acquire, PushChecks,
     PushFails, Push,
     PushRefused, Receive, GiveUp, fixedVars
<1>1. \/ channel' = channel
      \/ channel[r] # <<>> /\ channel' = [channel EXCEPT ![r] = Tail(@)]
  BY DEF Handler, Disconnect, Lock, Session, AcquireChecks, AcquireClosed, Acquire, PushChecks,
     PushFails, Push,
     PushRefused, Receive, GiveUp
<1>2. channel' \in [Requests -> Seq({"message", "ok", "error"})]
  <2>1. channel[r] # <<>> => Tail(channel[r]) \in Seq({"message", "ok", "error"})
    BY DEF HandlerTypes
  <2> QED BY <1>1, <2>1 DEF HandlerTypes
<1>3. CASE Lock(r)
  <2>1. Key(r) \in Keys
    BY DEF HandlerTypes, RequestType, Key
  <2> QED BY <1>0, <1>2, <1>3, <2>1 DEF Lock, HandlerTypes
<1>4. CASE Session(r)
  BY <1>0, <1>2, <1>4, ReplyType, GotoType DEF Session, Answers
<1>5. CASE AcquireChecks(r) \/ Acquire(r) \/ PushChecks(r) \/ Push(r)
  BY <1>0, <1>2, <1>5, GotoType DEF AcquireChecks, Acquire, PushChecks, Push
<1>6. CASE AcquireClosed(r) \/ PushFails(r) \/ PushRefused(r) \/ GiveUp(r)
  BY <1>0, <1>2, <1>6, ReplyType DEF AcquireClosed, PushFails, PushRefused, GiveUp, Answers
<1>7. CASE Receive(r)
  <2>1. Head(channel[r]) \in {"message", "ok", "error"}
    BY <1>7 DEF Receive, HandlerTypes
  <2> QED BY <1>0, <1>2, <1>7, <2>1, ReplyType, GotoType DEF Receive, Answers
<1>8. CASE Disconnect(r)
  BY <1>0, <1>2, <1>8 DEF Disconnect, HandlerTypes
<1> QED BY <1>3, <1>4, <1>5, <1>6, <1>7, <1>8 DEF Handler

\* The limiter's places change when a handler acquires one, and when it fails to push.
LEMMA HandlerTokens ==
    ASSUME LimiterTypes, HandlerTypes, NEW r \in Requests, Handler(r) \/ Disconnect(r)
    PROVE  /\ LimiterTypes'
           /\ \/ UNCHANGED <<token, tokens>>
              \/ Acquire(r)
              \/ Release(r) /\ (PushFails(r) \/ PushRefused(r))
<1> USE DEF limiterVars
<1>0. UNCHANGED <<closed, swept>>
  BY DEF Handler, Disconnect, Lock, Session, AcquireChecks, AcquireClosed, Acquire, PushChecks,
     PushFails, Push,
     PushRefused, Receive, GiveUp, fixedVars, Release, GiveToken, TakeToken
<1>1. CASE UNCHANGED <<token, tokens>>
  BY <1>0, <1>1 DEF LimiterTypes
<1>2. CASE Acquire(r)
  <2>1. Home(r) \in Instances
    BY DEF HandlerTypes, RequestType, Home
  <2> QED BY <1>0, <1>2, <2>1 DEF Acquire, TakeToken, LimiterTypes
<1>3. CASE PushFails(r) \/ PushRefused(r)
  BY <1>0, <1>3, ReleaseType DEF PushFails, PushRefused
<1> QED BY <1>1, <1>2, <1>3
  DEF Handler, Disconnect, Lock, Session, AcquireChecks, AcquireClosed, PushChecks, Push, Receive,
      GiveUp

\* A handler leaves histories and the limits alone, and the other handlers.
LEMMA HandlerFrame ==
    ASSUME LoopTypes, HandlerTypes, LimiterTypes, NEW r \in Requests, Handler(r) \/ Disconnect(r)
    PROVE  /\ UNCHANGED <<turnVars, fixedVars, sweep, closed>>
           /\ ~Session(r) => UNCHANGED <<registry, mine>>
           /\ \A q \in Requests \ {r} : /\ UNCHANGED <<mine[q], channel[q], token[q]>>
                                        /\ UNCHANGED <<pc[q], cancelled[q], reply[q]>>
<1>1. UNCHANGED <<turnVars, fixedVars, sweep>> /\ (~Session(r) => UNCHANGED <<registry, mine>>)
  BY DEF Handler, Disconnect, Lock, Session, AcquireChecks, AcquireClosed, Acquire, PushChecks,
     PushFails, Push,
     PushRefused, Receive, GiveUp, loopVars, Enqueue, CountActive, Refuse,
     ReuseSession, CreateSession, RegistryFull
<1>2. UNCHANGED closed
  BY DEF Handler, Disconnect, Lock, Session, AcquireChecks, AcquireClosed, Acquire, PushChecks,
     PushFails, Push,
     PushRefused, Receive, GiveUp, limiterVars, Release, GiveToken, TakeToken
<1>3. \A q \in Requests \ {r} : mine'[q] = mine[q]
  BY <1>1 DEF Session, ReuseSession, CreateSession, RegistryFull, LoopTypes
<1>4. \A q \in Requests \ {r} : channel'[q] = channel[q]
  BY DEF Handler, Disconnect, Lock, Session, AcquireChecks, AcquireClosed, Acquire, PushChecks,
     PushFails, Push,
     PushRefused, Receive, GiveUp, HandlerTypes
<1>5. \A q \in Requests \ {r} : token'[q] = token[q]
  BY HandlerTokens, ReleaseType DEF Acquire, LimiterTypes, Release, limiterVars
<1>6. \A q \in Requests \ {r} : UNCHANGED <<pc[q], cancelled[q], reply[q]>>
  <2> USE DEF HandlerTypes, Goto, Reply
  <2>1. CASE Lock(r) \/ Disconnect(r) \/ Session(r) \/ Receive(r)
    BY <2>1 DEF Lock, Disconnect, Session, Receive
  <2>2. CASE AcquireChecks(r) \/ Acquire(r) \/ PushChecks(r) \/ Push(r)
    BY <2>2 DEF AcquireChecks, Acquire, PushChecks, Push
  <2>3. CASE AcquireClosed(r) \/ PushFails(r) \/ PushRefused(r) \/ GiveUp(r)
    BY <2>3 DEF AcquireClosed, PushFails, PushRefused, GiveUp
  <2> QED BY <2>1, <2>2, <2>3 DEF Handler
<1> QED BY <1>1, <1>2, <1>3, <1>4, <1>5, <1>6
-----------------------------------------------------------------------------
\* A step of a loop keeps the types of handlers and turns.
LEMMA TurnTypesStep ==
    ASSUME Types, NEW s \in Requests, LoopInv(s), Turn(s)
    PROVE  HandlerTypes' /\ TurnTypes'
<1>1. /\ UNCHANGED <<registry, sweep, mine, handlerVars, fixedVars, closed>>
      /\ ~Deliver(s) => channel' = channel
      /\ ~(AppendFails(s) \/ AppendTurn(s)) => history' = history
      /\ ~Build(s) => loaded' = loaded
  BY TurnFrame
<1>2. HandlerTypes'
  <2>1. channel' \in [Requests -> Seq({"message", "ok", "error"})]
    <3>1. CASE Deliver(s)
      <4>1. session[s].turn \in Requests /\ session[s].event \in {"message", "ok", "error"}
        BY <3>1 DEF Deliver, At, LoopInv
      <4>2. Append(channel[session[s].turn], session[s].event) \in Seq({"message", "ok", "error"})
        BY <4>1 DEF Types, HandlerTypes
      <4> QED BY <3>1, <4>1, <4>2 DEF Deliver, Types, HandlerTypes
    <3> QED BY <1>1, <3>1 DEF Types, HandlerTypes
  <2> QED BY <1>1, <2>1 DEF Types, HandlerTypes, handlerVars, fixedVars
<1>3. history' \in [Keys -> Seq(Requests)]
  <2>1. CASE AppendFails(s) \/ AppendTurn(s)
    <3>1. session[s].turn \in Requests
      BY <2>1, TurnTaken DEF AppendFails, AppendTurn, At
    <3>2. Key(session[s].turn) \in Keys
      BY <3>1 DEF Types, HandlerTypes, RequestType, Key
    <3>3. Append(history[Key(session[s].turn)], session[s].turn) \in Seq(Requests)
      BY <3>1, <3>2 DEF Types, TurnTypes
    <3>4. Commit(session[s].turn) => history' \in [Keys -> Seq(Requests)]
      BY <3>2, <3>3 DEF Commit, Types, TurnTypes
    <3> QED BY <2>1, <3>4 DEF AppendFails, AppendTurn, Types, TurnTypes
  <2> QED BY <1>1, <2>1 DEF Types, TurnTypes
<1>4. loaded' \in [Requests -> Nat]
  <2>1. CASE Build(s)
    <3>1. Item(s) \in Requests
      BY <2>1, ItemTaken DEF Build, Types
    <3>2. Len(history[Key(Item(s))]) \in Nat
      <4>1. Key(Item(s)) \in Keys
        BY <3>1 DEF Types, HandlerTypes, RequestType, Key
      <4> QED BY <4>1 DEF Types, TurnTypes
    <3> QED BY <2>1, <3>1, <3>2 DEF Build, Types, TurnTypes
  <2> QED BY <1>1, <2>1 DEF Types, TurnTypes
<1>5. said' \in [Requests -> BOOLEAN]
  <2>1. said' = said \/ \E r : said' = [said EXCEPT ![r] = TRUE]
    BY DEF Turn, LoopStep, Build, BuildFails, Message, MessageUnsent, AgentFails, AgentDone,
       AppendFails, AppendTurn, Deliver, turnVars
  <2> QED BY <2>1 DEF Types, TurnTypes
<1> QED BY <1>2, <1>3, <1>4, <1>5 DEF TurnTypes

\* Every variable keeps its type.
LEMMA TypesStep ==
    ASSUME Types, \A s \in Requests : LoopInv(s), \A r \in Requests : HandlerInv(r), [Next]_vars
    PROVE  Types'
<1>1. LoopTypes /\ HandlerTypes /\ LimiterTypes /\ TurnTypes
  BY DEF Types
<1>2. ASSUME NEW r \in Requests, Handler(r) \/ Disconnect(r) PROVE Types'
  <2>1. TurnTypes'
    <3>1. UNCHANGED turnVars
      BY <1>1, <1>2, HandlerFrame
    <3> QED BY <1>1, <3>1 DEF TurnTypes, turnVars
  <2> QED BY <1>1, <1>2, <2>1, HandlerLoopTypes, HandlerTypesStep, HandlerTokens DEF Types
<1>3. ASSUME NEW s \in Requests, Turn(s) PROVE Types'
  BY <1>1, <1>3, TurnLoopTypes, TurnTypesStep, TurnTokens DEF Types
<1>4. ASSUME NEW i \in Instances, Close(i) \/ Registry(i) PROVE Types'
  <2>1. /\ LoopTypes'
        /\ UNCHANGED <<mine, handlerVars, turnVars, request, scenario, token, channel, tokens>>
    BY <1>1, <1>4, RegistryStep
  <2>2. HandlerTypes' /\ TurnTypes'
    BY <1>1, <2>1 DEF HandlerTypes, TurnTypes, handlerVars, turnVars
  <2>3. closed' \in [Instances -> BOOLEAN] /\ swept' \in [Instances -> BOOLEAN]
    BY <1>1, <1>4 DEF Close, CloseLimiter, Registry, Stops, Evict, StopAll, Sweep, limiterVars, fixedVars,
       LimiterTypes
  <2>4. LimiterTypes'
    BY <1>1, <2>1, <2>3 DEF LimiterTypes
  <2> QED BY <2>1, <2>2, <2>4 DEF Types
<1>5. CASE UNCHANGED vars
  <2>1. LoopTypes'
    BY <1>1, <1>5 DEF LoopTypes, vars, loopVars
  <2>2. HandlerTypes'
    BY <1>1, <1>5 DEF HandlerTypes, vars, handlerVars, fixedVars
  <2>3. LimiterTypes' /\ TurnTypes'
    BY <1>1, <1>5 DEF LimiterTypes, TurnTypes, vars, limiterVars, turnVars, fixedVars
  <2> QED BY <2>1, <2>2, <2>3 DEF Types
<1> QED BY <1>2, <1>3, <1>4, <1>5 DEF Next, Finished
-----------------------------------------------------------------------------
\* What a step of a loop does to its session,
LEMMA CallEmitShape ==
    ASSUME LoopTypes, NEW s \in Requests, NEW r, NEW event, NEW after, CallEmit(s, r, event, after)
    PROVE  /\ session'[s].loop = "emit" /\ session'[s].turn = r
           /\ session'[s].event = event /\ session'[s].after = after
           /\ session'[s].buffer = session[s].buffer /\ session'[s].items = session[s].items
           /\ session'[s].index = IF At(s, "gen") THEN session[s].index + 1 ELSE session[s].index
           /\ \A t \in Requests \ {s} : session'[t] = session[t]
BY DEF LoopTypes, SessionRec, CallEmit

\* EndTurn turns the session to its last event.
LEMMA EndTurnShape ==
    ASSUME LoopTypes, LimiterTypes, HandlerTypes, NEW s \in Requests, NEW r \in Requests,
           NEW event \in {"ok", "error"}, NEW after, EndTurn(s, r, event, after), UNCHANGED swept
    PROVE  EmitsTo(s, r, event, after)
<1>1. event = "error" => token'[r] # "held"
  BY ReleaseType DEF EndTurn
<1> QED BY <1>1, CallEmitShape DEF EndTurn, EmitsTo

\* A step of a loop is one of a few as far as the places of requests are concerned.
LEMMA TurnShape ==
    ASSUME Types, NEW s \in Requests, LoopInv(s), Turn(s)
    PROVE  \/ SameLoop(s) /\ history' = history /\ token' = token /\ loaded' = loaded
              /\ channel' = channel
           \/ Took(s) \/ Starts(s) \/ FailsBuild(s) \/ Says(s) \/ Finishes(s) \/ Returns(s) \/ Ends(s)
           \/ Continues(s)
<1>1. LoopTypes /\ LimiterTypes /\ HandlerTypes
  BY DEF Types
<1>2. session \in [Requests -> SessionRec]
  BY <1>1 DEF LoopTypes
<1>3. UNCHANGED swept
  BY TurnFrame DEF fixedVars
<1>4. CASE LoopStep(s)
  BY <1>2, <1>4 DEF LoopStep, TakeItems, GenInputFails, LoopStops, Took, Ends, SessionRec, At
<1>5. CASE Build(s)
  BY <1>2, <1>5 DEF Build, StartTurn, Starts, SessionRec
<1>6. CASE BuildFails(s)
  <2>1. Item(s) \in Requests /\ At(s, "gen")
    BY <1>1, <1>6, ItemTaken DEF BuildFails, Building
  <2>2. EmitsTo(s, Item(s), "error", "gen")
    BY <1>1, <1>3, <1>6, <2>1, EndTurnShape DEF BuildFails
  <2>3. session'[s].index = session[s].index + 1
    BY <1>1, <1>6, <2>1, CallEmitShape DEF BuildFails, EndTurn
  <2> QED BY <1>6, <2>2, <2>3 DEF BuildFails, FailsBuild
<1>7. CASE Message(s)
  <2>1. CASE CallEmit(s, session[s].turn, "message", "run")
    <3>1. EmitsTo(s, session[s].turn, "message", "run")
      BY <1>1, <2>1, CallEmitShape DEF EmitsTo
    <3> QED BY <1>7, <3>1 DEF Message, Says
  <2>2. CASE UNCHANGED loopVars
    BY <1>7, <2>2 DEF Message, SameLoop, loopVars
  <2> QED BY <1>7, <2>1, <2>2 DEF Message
<1>8. ASSUME session[s].loop \in {"run", "append"}, NEW event \in {"ok", "error"},
             NEW after \in {"ready", "ended"}, EndTurn(s, session[s].turn, event, after),
             event = "ok" => At(s, "append") /\ Commit(session[s].turn)
      PROVE  Finishes(s)
  BY <1>1, <1>3, <1>8, TurnTaken, EndTurnShape DEF Finishes
<1>9. CASE MessageUnsent(s) \/ AgentFails(s)
  BY <1>8, <1>9 DEF MessageUnsent, AgentFails, At
<1>10. CASE AgentDone(s)
  <2>1. CASE session' = [session EXCEPT ![s].loop = "append"]
    BY <1>2, <1>10, <2>1 DEF AgentDone, At, Continues, SessionRec
  <2> QED BY <1>8, <1>10, <2>1 DEF AgentDone, At
<1>11. CASE AppendFails(s) \/ AppendTurn(s)
  BY <1>8, <1>11 DEF AppendFails, AppendTurn, At
<1>12. CASE Deliver(s)
  BY <1>2, <1>12 DEF Deliver, EmitReturns, Returns, SessionRec
<1> QED BY <1>4, <1>5, <1>6, <1>7, <1>9, <1>10, <1>11, <1>12 DEF Turn

\* while all others stay as they are.
LEMMA TurnOthers ==
    ASSUME LoopTypes, NEW s \in Requests, Turn(s), NEW t \in Requests \ {s}
    PROVE  session'[t] = session[t]
<1> USE DEF LoopTypes
<1>1. CASE LoopStep(s)
  BY <1>1 DEF LoopStep, TakeItems, GenInputFails, LoopStops
<1>2. CASE Build(s) \/ Deliver(s)
  BY <1>2 DEF Build, StartTurn, Deliver, EmitReturns
<1>3. CASE UNCHANGED session
  BY <1>3
<1>4. CASE \E r, event, after : CallEmit(s, r, event, after)
  BY <1>4, CallEmitShape
<1>5. CASE session' = [session EXCEPT ![s].loop = "append"]
  BY <1>5
<1> QED BY <1>1, <1>2, <1>3, <1>4, <1>5 DEF Turn, BuildFails, Message, MessageUnsent, AgentFails,
   AgentDone, AppendFails, AppendTurn, EndTurn, loopVars
-----------------------------------------------------------------------------
\* A commit adds one place to the history, and nothing else does.
LEMMA CommitPlaces ==
    ASSUME Types, NEW q \in Requests, Commit(q), UNCHANGED request, NEW r \in Requests
    PROVE  /\ r # q => Places(r)' = Places(r)
           /\ Places(q)' = Places(q) \cup {Len(history[Key(q)]) + 1}
<1>1. Key(r)' = Key(r) /\ Key(q)' = Key(q) /\ Key(q) \in Keys /\ Key(r) \in Keys
  BY DEF Key, Types, HandlerTypes, RequestType
<1> DEFINE h == history[Key(q)]
<1>2. h \in Seq(Requests) /\ history'[Key(q)] = Append(h, q)
  BY <1>1 DEF Types, TurnTypes, Commit
<1>3. \A k \in Keys : k # Key(q) => history'[k] = history[k]
  BY DEF Types, TurnTypes, Commit
<1>4. /\ Len(h) \in Nat /\ DOMAIN h = 1 .. Len(h) /\ DOMAIN Append(h, q) = 1 .. Len(h) + 1
      /\ Append(h, q)[Len(h) + 1] = q /\ \A n \in 1 .. Len(h) : Append(h, q)[n] = h[n]
  BY <1>2
<1>5. Places(q)' = Places(q) \cup {Len(h) + 1}
  <2>1. Places(q)' = {n \in DOMAIN Append(h, q) : Append(h, q)[n] = q}
    BY <1>1, <1>2 DEF Places
  <2>2. Places(q) = {n \in DOMAIN h : h[n] = q}
    BY DEF Places
  <2> HIDE DEF h
  <2> QED BY <1>4, <2>1, <2>2
<1>6. ASSUME r # q, Key(r) = Key(q) PROVE Places(r)' = Places(r)
  <2>1. Places(r)' = {n \in DOMAIN Append(h, q) : Append(h, q)[n] = r}
    BY <1>1, <1>2, <1>6 DEF Places
  <2>2. Places(r) = {n \in DOMAIN h : h[n] = r}
    BY <1>6 DEF Places
  <2> HIDE DEF h
  <2> QED BY <1>4, <1>6, <2>1, <2>2
<1>7. ASSUME Key(r) # Key(q) PROVE Places(r)' = Places(r)
  BY <1>1, <1>3, <1>7 DEF Places
<1> QED BY <1>5, <1>6, <1>7

\* The places of a turn are positions of its history, and the next one is not taken.
LEMMA PlacesTyped ==
    ASSUME Types, NEW r \in Requests
    PROVE  /\ Key(r) \in Keys /\ Len(history[Key(r)]) \in Nat /\ Places(r) \subseteq Nat
           /\ DOMAIN history[Key(r)] = 1 .. Len(history[Key(r)])
           /\ Len(history[Key(r)]) + 1 \notin Places(r)
<1>1. Key(r) \in Keys
  BY DEF Key, Types, HandlerTypes, RequestType
<1>2. history[Key(r)] \in Seq(Requests)
  BY <1>1 DEF Types, TurnTypes
<1> QED BY <1>1, <1>2 DEF Places

\* Only the append of an active turn changes a history.
LEMMA HistoryStep ==
    ASSUME Types, \A s \in Requests : LoopInv(s), [Next]_vars
    PROVE  /\ UNCHANGED <<request, scenario>>
           /\ \/ UNCHANGED history
              \/ \E s \in Requests : /\ At(s, "append") /\ session[s].turn \in Requests
                                     /\ Commit(session[s].turn) /\ Turn(s) /\ Finishes(s)
<1>1. ASSUME NEW r \in Requests, Handler(r) \/ Disconnect(r)
      PROVE  UNCHANGED <<request, scenario, history>>
  BY <1>1, HandlerFrame DEF Types, turnVars, fixedVars
<1>2. ASSUME NEW i \in Instances, Close(i) \/ Registry(i)
      PROVE  UNCHANGED <<request, scenario, history>>
  BY <1>2, RegistryStep DEF Types, turnVars
<1>3. ASSUME NEW s \in Requests, Turn(s)
      PROVE  /\ UNCHANGED <<request, scenario>>
             /\ \/ UNCHANGED history
                \/ /\ At(s, "append") /\ session[s].turn \in Requests
                   /\ Commit(session[s].turn) /\ Finishes(s)
  <2>1. UNCHANGED <<request, scenario>>
    BY <1>3, TurnFrame DEF fixedVars
  <2>2. CASE ~(AppendFails(s) \/ AppendTurn(s))
    BY <1>3, <2>1, <2>2, TurnFrame
  <2>3. CASE AppendFails(s) \/ AppendTurn(s)
    <3>1. At(s, "append") /\ session[s].turn \in Requests
      BY <2>3, TurnTaken DEF AppendFails, AppendTurn, At
    <3>2. session'[s].loop = "emit"
      BY <2>3, CallEmitShape DEF AppendFails, AppendTurn, EndTurn, Types
    <3>3. Finishes(s)
      BY <1>3, <3>1, <3>2, TurnShape DEF SameLoop, Took, Starts, FailsBuild, Says, Returns, Ends,
         Continues, At, Building, Deliver
    <3>4. Commit(session[s].turn) \/ UNCHANGED history
      BY <2>3 DEF AppendFails, AppendTurn
    <3> QED BY <2>1, <3>1, <3>3, <3>4
  <2> QED BY <2>2, <2>3
<1>4. CASE UNCHANGED vars
  BY <1>4 DEF vars, fixedVars, turnVars
<1> QED BY <1>1, <1>2, <1>3, <1>4 DEF Next, Finished

\* What is committed stays committed, and is committed by a loop whose turn it is.
LEMMA CommittedStep ==
    ASSUME Types, \A s \in Requests : LoopInv(s), [Next]_vars, NEW r \in Requests
    PROVE  /\ Committed(r) => Committed(r)'
           /\ Committed(r)' => \/ Committed(r)
                               \/ \E s \in Requests : At(s, "append") /\ session[s].turn = r
                                                      /\ Turn(s) /\ Finishes(s)
<1>1. CASE UNCHANGED history
  <2>1. Places(r)' = Places(r)
    BY <1>1, HistoryStep DEF Places, Key
  <2> QED BY <2>1 DEF Committed
<1>2. CASE \E s \in Requests : /\ At(s, "append") /\ session[s].turn \in Requests
                               /\ Commit(session[s].turn) /\ Turn(s) /\ Finishes(s)
  <2>1. PICK s \in Requests : /\ At(s, "append") /\ session[s].turn \in Requests
                              /\ Commit(session[s].turn) /\ Turn(s) /\ Finishes(s)
    BY <1>2
  <2>2. r # session[s].turn => Places(r)' = Places(r)
    BY <2>1, HistoryStep, CommitPlaces
  <2>3. r = session[s].turn => Places(r)' # {}
    BY <2>1, HistoryStep, CommitPlaces
  <2> QED BY <2>1, <2>2, <2>3 DEF Committed
<1> QED BY <1>1, <1>2, HistoryStep

\* Who has pushed a turn keeps its session, its place or the end of it, and waits or is done.
LEMMA ClaimStep ==
    ASSUME Types, \A s \in Requests : LoopInv(s), [Next]_vars,
           NEW r \in Requests, NEW t \in Requests, Claimed(r, t)
    PROVE  Claimed(r, t)'
<1>1. LoopTypes /\ HandlerTypes /\ LimiterTypes
  BY DEF Types
<1>2. ASSUME NEW q \in Requests, Handler(q) \/ Disconnect(q) PROVE Claimed(r, t)'
  <2>1. CASE q # r
    BY <1>1, <1>2, <2>1, HandlerFrame DEF Claimed
  <2>2. CASE q = r
    <3>1. Receive(r) \/ GiveUp(r) \/ Disconnect(r)
      BY <1>2, <2>2 DEF Claimed, Handler, Lock, Session, AcquireChecks, AcquireClosed, Acquire, PushChecks,
         PushFails, Push, PushRefused
    <3>2. pc'[r] \in {"wait", "done"}
      BY <1>1, <3>1 DEF Claimed, Receive, GiveUp, Disconnect, Goto, Reply, HandlerTypes
    <3>3. UNCHANGED <<mine, token>>
      BY <3>1 DEF Receive, GiveUp, Disconnect, loopVars
    <3> QED BY <3>2, <3>3 DEF Claimed
  <2> QED BY <2>1, <2>2
<1>3. ASSUME NEW s \in Requests, Turn(s) PROVE Claimed(r, t)'
  <2>1. UNCHANGED <<mine, pc>>
    BY <1>3, TurnFrame DEF handlerVars
  <2>2. token'[r] # "none"
    BY <1>1, <1>3, TurnTokens, ReleaseType, TurnFrame DEF Claimed, Release, LimiterTypes, fixedVars
  <2> QED BY <2>1, <2>2 DEF Claimed
<1>4. ASSUME NEW i \in Instances, Close(i) \/ Registry(i) PROVE Claimed(r, t)'
  BY <1>1, <1>4, RegistryStep DEF Claimed, handlerVars
<1>5. CASE UNCHANGED vars
  BY <1>5 DEF vars, loopVars, handlerVars, Claimed
<1> QED BY <1>2, <1>3, <1>4, <1>5 DEF Next, Finished
-----------------------------------------------------------------------------
\* The elements of a sequence to which one is appended,
LEMMA AppendSet ==
    ASSUME NEW q \in Seq(Requests), NEW r \in Requests
    PROVE  /\ ToSet(Append(q, r)) = ToSet(q) \cup {r}
           /\ IsInjective(q) /\ r \notin ToSet(q) => IsInjective(Append(q, r))
<1>1. /\ Len(q) \in Nat /\ DOMAIN q = 1 .. Len(q) /\ DOMAIN Append(q, r) = 1 .. Len(q) + 1
      /\ Append(q, r)[Len(q) + 1] = r /\ \A n \in 1 .. Len(q) : Append(q, r)[n] = q[n]
  OBVIOUS
<1>2. \A n \in 1 .. Len(q) + 1 : n \in 1 .. Len(q) \/ n = Len(q) + 1
  BY <1>1
<1>3. PICK a : a = Append(q, r)
  OBVIOUS
<1> QED BY <1>1, <1>2, <1>3 DEF ToSet, IsInjective

\* of two sequences, one after the other,
LEMMA ConcatSet ==
    ASSUME NEW q \in Seq(Requests), NEW b \in Seq(Requests), NEW c, c = q \o b
    PROVE  /\ ToSet(c) = ToSet(q) \cup ToSet(b) /\ c \in Seq(Requests)
           /\ IsInjective(q) /\ IsInjective(b) /\ ToSet(q) \cap ToSet(b) = {} => IsInjective(c)
<1>1. PICK m \in Nat, l \in Nat :
         /\ m = Len(q) /\ l = Len(b) /\ DOMAIN q = 1 .. m /\ DOMAIN b = 1 .. l
         /\ DOMAIN c = 1 .. m + l /\ c \in Seq(Requests)
         /\ \A n \in 1 .. m : c[n] = q[n]
         /\ \A n \in 1 .. l : c[n + m] = b[n]
         /\ \A n \in 1 .. m + l : n > m => c[n] = b[n - m] /\ n - m \in 1 .. l
  OBVIOUS
<1>2. \A n \in DOMAIN c : \/ n \in DOMAIN q /\ c[n] = q[n]
                          \/ n > m /\ n - m \in DOMAIN b /\ c[n] = b[n - m]
  BY <1>1
<1>3. (\A n \in DOMAIN q : n \in DOMAIN c) /\ \A n \in DOMAIN b : n + m \in DOMAIN c
  BY <1>1
<1>4. ToSet(c) = ToSet(q) \cup ToSet(b)
  BY <1>1, <1>2, <1>3 DEF ToSet
<1>5. ASSUME IsInjective(q), IsInjective(b), ToSet(q) \cap ToSet(b) = {} PROVE IsInjective(c)
  <2> SUFFICES ASSUME NEW k \in DOMAIN c, NEW n \in DOMAIN c, c[k] = c[n] PROVE k = n
    BY DEF IsInjective
  <2>1. CASE k \in DOMAIN q /\ n \in DOMAIN q
    BY <1>1, <1>5, <2>1 DEF IsInjective
  <2>2. CASE k > m /\ n > m
    <3>1. k - m = n - m
      BY <1>1, <1>5, <2>2 DEF IsInjective
    <3> QED BY <1>1, <3>1
  <2>3. ASSUME NEW x \in DOMAIN q, NEW y \in DOMAIN c, y > m PROVE c[x] # c[y]
    <3>1. c[x] = q[x] /\ c[y] = b[y - m] /\ y - m \in DOMAIN b
      BY <1>1, <2>3
    <3>2. c[x] \in ToSet(q) /\ c[y] \in ToSet(b)
      BY <3>1 DEF ToSet
    <3> QED BY <1>5, <3>2
  <2> QED BY <1>2, <2>1, <2>2, <2>3
<1> QED BY <1>1, <1>4, <1>5

\* of one without one of them,
LEMMA RemoveSet ==
    ASSUME NEW q \in Seq(Requests), NEW i \in 1 .. Len(q), IsInjective(q)
    PROVE  /\ RemoveAt(q, i) \in Seq(Requests) /\ IsInjective(RemoveAt(q, i))
           /\ ToSet(RemoveAt(q, i)) = ToSet(q) \ {q[i]}
<1>0. PICK l \in Nat, j \in Nat : l = Len(q) /\ j = i + 1
  OBVIOUS
<1> DEFINE a == SubSeq(q, 1, i - 1)
           b == SubSeq(q, j, l)
<1>1. l = Len(q) /\ j = i + 1 /\ a = SubSeq(q, 1, i - 1) /\ b = SubSeq(q, j, l)
  BY <1>0
<1>2. /\ a \in Seq(Requests) /\ DOMAIN a = 1 .. i - 1 /\ \A n \in 1 .. i - 1 : a[n] = q[n]
      /\ i \in Nat /\ DOMAIN q = 1 .. l /\ i \in 1 .. l
  BY <1>1
<1>3. b \in Seq(Requests) /\ DOMAIN b = 1 .. l - i /\ \A n \in 1 .. l - i : b[n] = q[n + i]
  <2>1. /\ SubSeq(q, j, l) \in Seq(Requests) /\ Len(SubSeq(q, j, l)) = l - i
        /\ \A n \in 1 .. l - i : SubSeq(q, j, l)[n] = q[n + i]
    BY <1>1
  <2> QED BY <1>1, <2>1
<1> HIDE DEF a, b
<1>4. IsInjective(a)
  BY <1>2 DEF IsInjective
<1>5. IsInjective(b)
  <2> SUFFICES ASSUME NEW k \in 1 .. l - i, NEW n \in 1 .. l - i, q[k + i] = q[n + i] PROVE k = n
    BY <1>3 DEF IsInjective
  <2>1. k + i \in DOMAIN q /\ n + i \in DOMAIN q
    BY <1>1, <1>2
  <2>2. k + i = n + i
    BY <2>1 DEF IsInjective
  <2> QED BY <1>2, <2>2
<1>6. \A k \in DOMAIN a : k \in DOMAIN q /\ k < i /\ a[k] = q[k]
  BY <1>2
<1>7. \A n \in DOMAIN b : n + i \in DOMAIN q /\ n + i > i /\ b[n] = q[n + i]
  BY <1>2, <1>3
<1>8. ToSet(a) \cap ToSet(b) = {}
  <2> SUFFICES ASSUME NEW k \in DOMAIN a, NEW n \in DOMAIN b, a[k] = b[n] PROVE FALSE
    BY DEF ToSet
  <2>1. k = n + i
    BY <1>6, <1>7 DEF IsInjective
  <2> QED BY <1>2, <1>6, <1>7, <2>1
<1>9. ToSet(a) \cup ToSet(b) = ToSet(q) \ {q[i]}
  <2>1. \A n \in DOMAIN q : n = i \/ n \in DOMAIN a \/ (n - i \in DOMAIN b /\ n - i + i = n)
    BY <1>2, <1>3
  <2>2. ASSUME NEW x \in ToSet(q) \ {q[i]} PROVE x \in ToSet(a) \cup ToSet(b)
    <3>1. PICK n \in DOMAIN q : x = q[n] /\ n # i
      BY DEF ToSet
    <3> QED BY <1>6, <1>7, <2>1, <3>1 DEF ToSet
  <2>3. ASSUME NEW k \in DOMAIN a PROVE a[k] \in ToSet(q) \ {q[i]}
    BY <1>2, <1>6 DEF ToSet, IsInjective
  <2>4. ASSUME NEW n \in DOMAIN b PROVE b[n] \in ToSet(q) \ {q[i]}
    <3>1. n + i \in DOMAIN q /\ n + i # i /\ b[n] = q[n + i] /\ i \in DOMAIN q
      BY <1>2, <1>7
    <3> QED BY <3>1 DEF ToSet, IsInjective
  <2> QED BY <2>2, <2>3, <2>4 DEF ToSet
<1>10. RemoveAt(q, i) = a \o b
  BY <1>1 DEF RemoveAt
<1> QED BY <1>2, <1>3, <1>4, <1>5, <1>8, <1>9, <1>10, ConcatSet

\* and of the empty one.
LEMMA EmptySet == ToSet(<<>>) = {} /\ IsInjective(<<>>)
BY DEF ToSet, IsInjective
-----------------------------------------------------------------------------
\* A session changes when it is created, when a turn is pushed to it, and by its loop.
Created(s) ==
    /\ Session(s) /\ session[s].loop # session'[s].loop /\ session'[s].loop = "ready"
    /\ session'[s].buffer = session[s].buffer /\ session'[s].items = session[s].items
Pushed(s, r) ==
    /\ Push(r) /\ mine[r] = s
    /\ session'[s].loop = session[s].loop /\ session'[s].buffer = Append(session[s].buffer, r)
    /\ session'[s].items = session[s].items /\ session'[s].index = session[s].index
    /\ session'[s].turn = session[s].turn /\ session'[s].event = session[s].event
    /\ session'[s].after = session[s].after

\* A session changes by its creation, a push, or a step of its own loop.
LEMMA SessionStep ==
    ASSUME Types, \A r \in Requests : HandlerInv(r), [Next]_vars, NEW s \in Requests
    PROVE  \/ SameLoop(s) \/ Created(s) \/ (\E r \in Requests : Pushed(s, r)) \/ Turn(s)
<1>1. LoopTypes /\ HandlerTypes /\ LimiterTypes /\ session \in [Requests -> SessionRec]
  BY DEF Types, LoopTypes
<1>2. session'[s] = session[s] => SameLoop(s)
  BY DEF SameLoop
<1>3. ASSUME NEW r \in Requests, Handler(r) \/ Disconnect(r)
      PROVE  SameLoop(s) \/ Created(s) \/ Pushed(s, r)
  <2>1. CASE Session(r)
    <3>1. CASE CreateSession(r, Home(r), Key(r)) /\ s = r
      BY <1>1, <1>2, <2>1, <3>1 DEF CreateSession, Created, SessionRec, SameLoop
    <3>2. CASE CreateSession(r, Home(r), Key(r)) /\ s # r
      BY <1>1, <1>2, <3>2 DEF CreateSession
    <3>3. CASE ~CreateSession(r, Home(r), Key(r))
      BY <1>2, <2>1, <3>3 DEF Session, ReuseSession, RegistryFull
    <3> QED BY <3>1, <3>2, <3>3
  <2>2. CASE PushChecks(r) \/ PushRefused(r)
    <3>1. mine[r] \in Requests
      BY <2>2 DEF HandlerInv, PushChecks, PushRefused
    <3>2. s # mine[r] => session'[s] = session[s]
      BY <1>1, <2>2, <3>1 DEF PushChecks, PushRefused, CountActive, Refuse
    <3>3. s = mine[r] => \E n : session'[s] = [session[s] EXCEPT !.active = n]
      BY <1>1, <2>2, <3>1 DEF PushChecks, PushRefused, CountActive, Refuse
    <3>4. \A n : session'[s] = [session[s] EXCEPT !.active = n] => SameLoop(s)
      BY <1>1 DEF SameLoop, SessionRec
    <3> QED BY <1>2, <3>2, <3>3, <3>4
  <2>3. CASE Push(r)
    <3>1. mine[r] \in Requests
      BY <2>3 DEF HandlerInv, Push
    <3>2. CASE s = mine[r]
      BY <1>1, <2>3, <3>1, <3>2 DEF Push, Enqueue, Pushed, SessionRec
    <3>3. CASE s # mine[r]
      BY <1>1, <1>2, <2>3, <3>1, <3>3 DEF Push, Enqueue
    <3> QED BY <3>2, <3>3
  <2>4. CASE UNCHANGED loopVars
    BY <1>2, <2>4 DEF loopVars
  <2> QED BY <1>3, <2>1, <2>2, <2>3, <2>4
      DEF Handler, Disconnect, Lock, AcquireChecks, AcquireClosed, Acquire, PushFails, Receive, GiveUp
<1>4. ASSUME NEW r \in Requests, Turn(r), r # s PROVE SameLoop(s)
  BY <1>1, <1>2, <1>4, TurnOthers
<1>5. ASSUME NEW i \in Instances, Close(i) \/ Registry(i) PROVE SameLoop(s)
  BY <1>1, <1>5, RegistryStep
<1>6. CASE UNCHANGED vars
  BY <1>2, <1>6 DEF vars, loopVars
<1> QED BY <1>3, <1>4, <1>5, <1>6 DEF Next, Finished
-----------------------------------------------------------------------------
\* A turn that was pushed gets no second place in the limiter.
LEMMA NotHeldStep ==
    ASSUME Types, \A s \in Requests : LoopInv(s), [Next]_vars, NEW r \in Requests,
           pc[r] # "select", token[r] # "held"
    PROVE  token'[r] # "held"
<1>1. LoopTypes /\ HandlerTypes /\ LimiterTypes
  BY DEF Types
<1>2. ASSUME NEW q \in Requests, Release(q) PROVE token'[r] # "held"
  BY <1>1, <1>2 DEF Release, LimiterTypes, limiterVars
<1>3. ASSUME NEW q \in Requests, Handler(q) \/ Disconnect(q) PROVE token'[r] # "held"
  <2>1. CASE Acquire(q)
    <3>1. q # r
      BY <2>1 DEF Acquire
    <3> QED BY <1>1, <1>3, <3>1, HandlerFrame
  <2> QED BY <1>1, <1>2, <1>3, <2>1, HandlerTokens
<1>4. ASSUME NEW s \in Requests, Turn(s) PROVE token'[r] # "held"
  BY <1>1, <1>2, <1>4, TurnTokens
<1>5. ASSUME NEW i \in Instances, Close(i) \/ Registry(i) PROVE token'[r] # "held"
  BY <1>1, <1>5, RegistryStep
<1>6. CASE UNCHANGED vars
  BY <1>6 DEF vars
<1> QED BY <1>3, <1>4, <1>5, <1>6 DEF Next, Finished

\* Only the loop of its session commits a turn, at the end.
LEMMA CommitOwn ==
    ASSUME Inv, [Next]_vars, NEW r \in Requests, NEW s \in Requests, mine[r] = s,
           ~Committed(r), Committed(r)'
    PROVE  Turn(s) /\ Finishes(s) /\ Active(r, s)
<1>1. PICK t \in Requests : At(t, "append") /\ session[t].turn = r /\ Turn(t) /\ Finishes(t)
  BY CommittedStep DEF Inv
<1>2. Active(r, t)
  BY <1>1 DEF Active, At
<1>3. Claimed(r, t)
  BY <1>2 DEF Inv, ClaimInv
<1> QED BY <1>1, <1>2, <1>3 DEF Claimed

\* A turn that is not pushed is not committed.
LEMMA NotPushed ==
    ASSUME Inv, [Next]_vars, NEW r \in Requests, pc[r] \notin {"wait", "done"}
    PROVE  /\ ~Committed(r) /\ ~Committed(r)'
           /\ \A s \in Requests : ~Pending(r, s) /\ ~Active(r, s) /\ ~Ending(r, s)
<1>1. \A s \in Requests : ~Pending(r, s) /\ ~Active(r, s) /\ ~Ending(r, s)
  BY DEF Inv, ClaimInv, Claimed
<1>2. ~Committed(r)
  BY DEF Inv, HandlerInv
<1>3. ~Committed(r)'
  <2>1. \A s \in Requests : ~(At(s, "append") /\ session[s].turn = r)
    BY <1>1 DEF Active, At
  <2> QED BY <1>2, <2>1, CommittedStep DEF Inv
<1> QED BY <1>1, <1>2, <1>3

\* Every step keeps what is known of a loop,
LEMMA LoopInvStep ==
    ASSUME Inv, [Next]_vars, NEW s \in Requests
    PROVE  LoopInv(s)'
<1>1. Types /\ LoopInv(s) /\ PlacesInv(s) /\ ClaimInv(s) /\ \A r \in Requests : HandlerInv(r)
  BY DEF Inv
<1>2. \A r \in Requests : Committed(r) => Committed(r)'
  BY CommittedStep DEF Inv
<1>3. ASSUME session[s].loop = "emit", session[s].event = "error"
      PROVE  token'[session[s].turn] # "held"
  <2>1. session[s].turn \in Requests /\ token[session[s].turn] # "held"
    BY <1>1, <1>3 DEF LoopInv, At
  <2>2. Active(session[s].turn, s) \/ Ending(session[s].turn, s)
    BY <1>3 DEF Active, Ending, At
  <2>3. pc[session[s].turn] # "select"
    BY <1>1, <2>1, <2>2 DEF ClaimInv, Claimed
  <2> QED BY <2>1, <2>3, NotHeldStep DEF Inv
<1>4. CASE SameLoop(s) \/ \E r \in Requests : Pushed(s, r)
  <2>1. /\ session'[s].loop = session[s].loop /\ session'[s].index = session[s].index
        /\ session'[s].turn = session[s].turn /\ session'[s].event = session[s].event
        /\ session'[s].after = session[s].after
    BY <1>4 DEF SameLoop, Pushed
  <2> QED BY <1>1, <1>2, <1>3, <2>1 DEF LoopInv, At
<1>5. CASE Created(s)
  BY <1>5 DEF Created, LoopInv, At
<1>6. CASE Turn(s)
  <2>1. CASE Took(s) \/ Ends(s)
    BY <2>1 DEF Took, Ends, LoopInv, At
  <2>2. CASE Starts(s)
    <3>1. Item(s) \in Requests
      BY <1>1, <2>2, ItemTaken DEF Starts, Types
    <3> QED BY <2>2, <3>1 DEF Starts, LoopInv, At
  <2>3. CASE FailsBuild(s)
    <3>1. Item(s) \in Requests /\ session[s].index + 1 # 0
      BY <1>1, <2>3, ItemTaken DEF FailsBuild, Types
    <3> QED BY <2>3, <3>1 DEF FailsBuild, EmitsTo, LoopInv, At
  <2>4. CASE Says(s)
    BY <1>1, <2>4 DEF Says, EmitsTo, LoopInv, At
  <2>5. CASE Finishes(s)
    <3>1. PICK q \in Requests : q = session[s].turn
      BY <1>1, <2>5 DEF Finishes, LoopInv
    <3>2. PICK event \in {"ok", "error"} : EmitsTo(s, q, event, session'[s].after)
                                            /\ session'[s].after \in {"ready", "ended"}
                                            /\ (event = "ok" => Commit(q))
      BY <2>5, <3>1 DEF Finishes, EmitsTo
    <3>3. event = "ok" => Committed(q)'
      <4>1. UNCHANGED request
        BY <1>1, HistoryStep DEF Inv
      <4> QED BY <1>1, <3>2, <4>1, CommitPlaces DEF Committed
    <3>4. session'[s].event = "ok" => Committed(session[s].turn)'
      BY <3>2, <3>3 DEF EmitsTo, Committed, Places, Key
    <3> QED BY <3>2, <3>4 DEF EmitsTo, LoopInv, At
  <2>6. CASE Returns(s)
    <3>1. At(s, "emit")
      BY <2>6 DEF Returns, Deliver
    <3> QED BY <1>1, <2>6, <3>1 DEF Returns, LoopInv, At
  <2>7. CASE Continues(s)
    BY <1>1, <2>7 DEF Continues, LoopInv, At
  <2>8. CASE SameLoop(s)
    BY <1>4, <2>8
  <2> QED BY <1>1, <1>6, <2>1, <2>2, <2>3, <2>4, <2>5, <2>6, <2>7, <2>8, TurnShape
<1> QED BY <1>1, <1>4, <1>5, <1>6, SessionStep

\* A turn that begins is not queued any more, and all others are.
LEMMA StartsBuffer ==
    ASSUME Types, NEW s \in Requests, LoopInv(s), PlacesInv(s), Starts(s)
    PROVE  /\ ToSet(session'[s].buffer)
                = (ToSet(session[s].items) \ {Item(s)}) \cup ToSet(session[s].buffer)
           /\ IsInjective(session'[s].buffer)
<1>1. PICK q \in Seq(Requests), b \in Seq(Requests), i \in Nat :
         q = session[s].items /\ b = session[s].buffer /\ i = session[s].index
  BY DEF Types, LoopTypes, SessionRec
<1>2. i \in 1 .. Len(q) /\ Item(s) = q[i]
  BY <1>1, ItemTaken DEF Starts, Types, Item
<1>3. IsInjective(q) /\ IsInjective(b) /\ ToSet(q) \cap ToSet(b) = {}
  BY <1>1 DEF PlacesInv
<1>4. session'[s].buffer = RemoveAt(q, i) \o b
  BY <1>1 DEF Starts
<1>5. PICK R \in Seq(Requests) : /\ R = RemoveAt(q, i) /\ IsInjective(R)
                                 /\ ToSet(R) = ToSet(q) \ {q[i]}
  BY <1>2, <1>3, RemoveSet
<1>6. PICK c : c = R \o b
  OBVIOUS
<1>7. ToSet(c) = ToSet(R) \cup ToSet(b) /\ IsInjective(c)
  <2>1. ToSet(R) \cap ToSet(b) = {}
    BY <1>3, <1>5
  <2> QED BY <1>3, <1>5, <1>6, <2>1, ConcatSet
<1> QED BY <1>1, <1>2, <1>4, <1>5, <1>6, <1>7

\* A pushed turn stays with its session.
LEMMA ClaimInvStep ==
    ASSUME Inv, [Next]_vars, NEW s \in Requests
    PROVE  ClaimInv(s)'
<1> SUFFICES ASSUME NEW r \in Requests, Pending(r, s)' \/ Active(r, s)' \/ Ending(r, s)'
             PROVE  Claimed(r, s)'
  BY DEF ClaimInv
<1>1. Types /\ LoopInv(s) /\ PlacesInv(s) /\ ClaimInv(s) /\ \A q \in Requests : HandlerInv(q)
  BY DEF Inv
<1>2. Pending(r, s) \/ Active(r, s) \/ Ending(r, s) => Claimed(r, s)'
  BY <1>1, ClaimStep DEF Inv, ClaimInv
<1>3. CASE SameLoop(s)
  BY <1>2, <1>3 DEF SameLoop, Pending, Active, Ending, At
<1>4. CASE Created(s)
  BY <1>2, <1>4 DEF Created, Pending, Active, Ending, At
<1>5. ASSUME NEW q \in Requests, Pushed(s, q) PROVE Claimed(r, s)'
  <2>1. session[s].buffer \in Seq(Requests)
    BY <1>1 DEF Types, LoopTypes, SessionRec
  <2>2. r # q => Pending(r, s) \/ Active(r, s) \/ Ending(r, s)
    BY <1>5, <2>1, AppendSet DEF Pushed, Pending, Active, Ending, At
  <2>3. r = q => Claimed(r, s)'
    <3>1. pc[q] = "enqueue" /\ mine[q] = s /\ UNCHANGED <<mine, token>> /\ pc'[q] = "wait"
      BY <1>1, <1>5 DEF Pushed, Push, Enqueue, Goto, Types, HandlerTypes
    <3> QED BY <1>1, <3>1 DEF HandlerInv, Claimed
  <2> QED BY <1>2, <2>2, <2>3
<1>6. CASE Turn(s)
  <2>1. CASE Took(s)
    BY <1>2, <2>1, EmptySet DEF Took, Pending, Active, Ending, At
  <2>2. CASE Starts(s)
    <3>1. Item(s) \in ToSet(session[s].items)
      BY <1>1, <2>2, ItemTaken DEF Starts, Types
    <3>2. ToSet(session'[s].buffer) \subseteq ToSet(session[s].items) \cup ToSet(session[s].buffer)
      BY <1>1, <2>2, StartsBuffer
    <3> QED BY <1>2, <2>2, <3>1, <3>2, EmptySet DEF Starts, Pending, Active, Ending, At
  <2>3. CASE FailsBuild(s)
    <3>1. Item(s) \in ToSet(session[s].items)
      BY <1>1, <2>3, ItemTaken DEF FailsBuild, Types
    <3> QED BY <1>2, <2>3, <3>1 DEF FailsBuild, EmitsTo, Pending, Active, Ending, At
  <2>4. CASE Says(s) \/ Finishes(s)
    BY <1>2, <2>4 DEF Says, Finishes, EmitsTo, Pending, Active, Ending, At
  <2>5. CASE Returns(s)
    <3>1. At(s, "emit") /\ session[s].after \in {"run", "gen", "ready", "ended"}
      BY <1>1, <2>5 DEF Returns, Deliver, LoopInv
    <3> QED BY <1>2, <2>5, <3>1 DEF Returns, Pending, Active, Ending, At
  <2>6. CASE Ends(s)
    BY <1>2, <2>6 DEF Ends, Pending, Active, Ending, At
  <2>7. CASE Continues(s)
    BY <1>2, <2>7 DEF Continues, Pending, Active, Ending, At
  <2> QED BY <1>1, <1>3, <1>6, <2>1, <2>2, <2>3, <2>4, <2>5, <2>6, <2>7, TurnShape
<1> QED BY <1>1, <1>3, <1>4, <1>5, <1>6, SessionStep

\* A session has a turn in one place, and loses it when the turn is committed.
LEMMA PlacesInvStep ==
    ASSUME Inv, [Next]_vars, NEW s \in Requests
    PROVE  PlacesInv(s)'
<1>1. Types /\ LoopInv(s) /\ PlacesInv(s) /\ ClaimInv(s)
  BY DEF Inv
<1>2. \A r \in Requests : Pending(r, s) => ~Committed(r)'
  BY <1>1, CommitOwn DEF PlacesInv, ClaimInv, Claimed
<1>3. \A r \in Requests : Active(r, s) /\ ~Finishes(s) => ~Committed(r)'
  BY <1>1, CommitOwn DEF PlacesInv, ClaimInv, Claimed
<1> USE DEF PlacesInv
<1>4. CASE SameLoop(s)
  <2>1. ~Finishes(s)
    BY <1>4 DEF SameLoop, Finishes, EmitsTo
  <2>2. \A r \in Requests : /\ Pending(r, s)' <=> Pending(r, s)
                            /\ Active(r, s)' <=> Active(r, s)
                            /\ Ending(r, s)' <=> Ending(r, s)
    BY <1>4 DEF SameLoop, Pending, Active, Ending, At
  <2> HIDE DEF Pending, Active, Ending, Committed
  <2> QED BY <1>1, <1>2, <1>3, <1>4, <2>1, <2>2 DEF SameLoop, At
<1>5. CASE Created(s)
  <2>1. session[s].loop = "none"
    BY <1>5 DEF Created, Session, Inv, HandlerInv
  <2>2. session'[s].items = <<>>
    BY <1>1, <1>5, <2>1 DEF Created
  <2>3. \A r \in Requests : /\ Pending(r, s)' <=> Pending(r, s)
                            /\ ~Active(r, s)' /\ ~Ending(r, s)'
    BY <1>5 DEF Created, Pending, Active, Ending, At
  <2> QED BY <1>1, <1>2, <1>5, <2>2, <2>3, EmptySet DEF Created, At
<1>6. ASSUME NEW q \in Requests, Pushed(s, q) PROVE PlacesInv(s)'
  <2>1. pc[q] = "enqueue"
    BY <1>6 DEF Pushed, Push
  <2>2. ~Committed(q)' /\ ~Pending(q, s) /\ ~Active(q, s) /\ ~Ending(q, s)
    BY <2>1, NotPushed
  <2>3. session[s].buffer \in Seq(Requests)
    BY <1>1 DEF Types, LoopTypes, SessionRec
  <2>4. ToSet(session'[s].buffer) = ToSet(session[s].buffer) \cup {q} /\ IsInjective(session'[s].buffer)
    BY <1>1, <1>6, <2>2, <2>3, AppendSet DEF Pushed, Pending
  <2>5. \A r \in Requests : /\ Pending(r, s)' <=> Pending(r, s) \/ r = q
                            /\ Active(r, s)' <=> Active(r, s)
                            /\ Ending(r, s)' <=> Ending(r, s)
    BY <1>6, <2>4 DEF Pushed, Pending, Active, Ending, At
  <2>6. q \notin ToSet(session[s].items)
    BY <2>2 DEF Pending
  <2>7. ~Finishes(s)
    BY <1>6 DEF Pushed, Finishes, EmitsTo
  <2> HIDE DEF Committed
  <2> QED BY <1>1, <1>2, <1>3, <1>6, <2>2, <2>4, <2>5, <2>6, <2>7 DEF Pushed, At
<1>7. CASE Turn(s)
  <2> HIDE DEF Committed
  <2>1. CASE Took(s)
    <3>1. session[s].items = <<>> /\ ToSet(session'[s].buffer) = {} /\ IsInjective(session'[s].buffer)
      BY <1>1, <2>1, EmptySet DEF Took
    <3>2. \A r \in Requests : /\ Pending(r, s)' => Pending(r, s)
                              /\ ~Active(r, s)' /\ ~Ending(r, s)'
      BY <2>1, <3>1 DEF Took, Pending, Active, Ending, At
    <3> QED BY <1>1, <1>2, <2>1, <3>1, <3>2 DEF Took, At
  <2>2. CASE Starts(s)
    <3>1. /\ ToSet(session'[s].buffer)
                = (ToSet(session[s].items) \ {Item(s)}) \cup ToSet(session[s].buffer)
          /\ IsInjective(session'[s].buffer)
      BY <1>1, <2>2, StartsBuffer
    <3>2. Item(s) \in ToSet(session[s].items) /\ Item(s) \notin ToSet(session'[s].buffer)
      BY <1>1, <2>2, <3>1, ItemTaken DEF Starts, Types
    <3>3. \A r \in Requests : /\ Pending(r, s)' => Pending(r, s)
                              /\ Active(r, s)' => r = Item(s) /\ Pending(r, s) /\ ~Pending(r, s)'
                              /\ ~Ending(r, s)'
      BY <2>2, <3>1, <3>2, EmptySet DEF Starts, Pending, Active, Ending, At
    <3> QED BY <1>1, <1>2, <2>2, <3>1, <3>3, EmptySet DEF Starts, At
  <2>3. CASE FailsBuild(s)
    <3>1. \A r \in Requests : /\ Pending(r, s)' => Pending(r, s)
                              /\ ~Active(r, s)'
      BY <2>3 DEF FailsBuild, EmitsTo, Pending, Active, At
    <3> QED BY <1>1, <1>2, <2>3, <3>1 DEF FailsBuild, EmitsTo, Ending, At
  <2>4. CASE Says(s)
    <3>1. \A r \in Requests : /\ Pending(r, s)' => Pending(r, s)
                              /\ Active(r, s)' => Active(r, s)
                              /\ ~Ending(r, s)'
      BY <2>4 DEF Says, EmitsTo, Pending, Active, Ending, At
    <3>2. ~Finishes(s)
      BY <2>4 DEF Says, Finishes, EmitsTo
    <3> QED BY <1>1, <1>2, <1>3, <2>4, <3>1, <3>2 DEF Says, EmitsTo, At
  <2>5. CASE Finishes(s)
    <3>1. \A r \in Requests : /\ Pending(r, s)' => Pending(r, s)
                              /\ ~Active(r, s)' /\ (Ending(r, s)' => Active(r, s))
      BY <2>5 DEF Finishes, EmitsTo, Pending, Active, Ending, At
    <3> QED BY <1>1, <1>2, <2>5, <3>1 DEF Finishes, EmitsTo, At
  <2>6. CASE Returns(s)
    <3>1. At(s, "emit") /\ session[s].after \in {"run", "gen", "ready", "ended"}
      BY <1>1, <2>6 DEF Returns, Deliver, LoopInv
    <3>2. \A r \in Requests : /\ Pending(r, s)' => Pending(r, s)
                              /\ Active(r, s)' => Active(r, s)
                              /\ ~Ending(r, s)'
      BY <2>6, <3>1 DEF Returns, Pending, Active, Ending, At
    <3>3. ~Finishes(s)
      BY <3>1 DEF Finishes, At
    <3> QED BY <1>1, <1>2, <1>3, <2>6, <3>1, <3>2, <3>3 DEF Returns, At
  <2>7. CASE Ends(s) \/ Continues(s)
    <3>1. \A r \in Requests : /\ Pending(r, s)' => Pending(r, s)
                              /\ Active(r, s)' => Active(r, s)
                              /\ ~Ending(r, s)'
      BY <2>7 DEF Ends, Continues, Pending, Active, Ending, At
    <3>2. ~Finishes(s)
      BY <2>7 DEF Finishes, EmitsTo, Ends, Continues
    <3> QED BY <1>1, <1>2, <1>3, <2>7, <3>1, <3>2 DEF Ends, Continues, At
  <2> QED BY <1>1, <1>4, <1>7, <2>1, <2>2, <2>3, <2>4, <2>5, <2>6, <2>7, TurnShape
<1> QED BY <1>1, <1>4, <1>5, <1>6, <1>7, SessionStep DEF Inv

\* What a channel gets is from the loop whose turn it is.
LEMMA ChannelStep ==
    ASSUME Types, \A s \in Requests : LoopInv(s), [Next]_vars, NEW r \in Requests
    PROVE  \/ channel'[r] = channel[r]
           \/ Receive(r) /\ channel[r] # <<>> /\ channel'[r] = Tail(channel[r])
           \/ \E s \in Requests : /\ Deliver(s) /\ session[s].turn = r
                                  /\ channel'[r] = Append(channel[r], session[s].event)
<1>1. LoopTypes /\ HandlerTypes /\ LimiterTypes
  BY DEF Types
<1>2. ASSUME NEW q \in Requests, Handler(q) \/ Disconnect(q)
      PROVE  \/ channel'[r] = channel[r]
             \/ Receive(r) /\ channel[r] # <<>> /\ channel'[r] = Tail(channel[r])
  <2>1. CASE Receive(q) /\ q = r
    BY <1>1, <2>1 DEF Receive, HandlerTypes
  <2>2. CASE q # r
    BY <1>1, <1>2, <2>2, HandlerFrame
  <2>3. CASE ~Receive(q)
    BY <1>2, <2>3 DEF Handler, Disconnect, Lock, Session, AcquireChecks, AcquireClosed, Acquire, PushChecks,
       PushFails, Push, PushRefused, GiveUp
  <2> QED BY <2>1, <2>2, <2>3
<1>3. ASSUME NEW s \in Requests, Turn(s)
      PROVE  \/ channel'[r] = channel[r]
             \/ Deliver(s) /\ session[s].turn = r
                /\ channel'[r] = Append(channel[r], session[s].event)
  <2>1. CASE Deliver(s)
    BY <1>1, <2>1 DEF Deliver, HandlerTypes
  <2> QED BY <1>3, <2>1, TurnFrame
<1>4. ASSUME NEW i \in Instances, Close(i) \/ Registry(i) PROVE channel'[r] = channel[r]
  BY <1>1, <1>4, RegistryStep
<1>5. CASE UNCHANGED vars
  BY <1>5 DEF vars
<1> QED BY <1>2, <1>3, <1>4, <1>5 DEF Next, Finished

\* A handler moves by its own steps.
LEMMA PcStep ==
    ASSUME Types, [Next]_vars, NEW r \in Requests
    PROVE  \/ Handler(r) \/ Disconnect(r)
           \/ UNCHANGED <<pc[r], mine[r], reply[r], cancelled[r]>>
<1>1. LoopTypes /\ HandlerTypes /\ LimiterTypes
  BY DEF Types
<1>2. ASSUME NEW q \in Requests, q # r, Handler(q) \/ Disconnect(q)
      PROVE  UNCHANGED <<pc[r], mine[r], reply[r], cancelled[r]>>
  BY <1>1, <1>2, HandlerFrame
<1>3. ASSUME NEW s \in Requests, Turn(s)
      PROVE  UNCHANGED <<pc[r], mine[r], reply[r], cancelled[r]>>
  BY <1>3, TurnFrame DEF handlerVars
<1>4. ASSUME NEW i \in Instances, Close(i) \/ Registry(i)
      PROVE  UNCHANGED <<pc[r], mine[r], reply[r], cancelled[r]>>
  BY <1>1, <1>4, RegistryStep DEF handlerVars
<1>5. CASE UNCHANGED vars
  BY <1>5 DEF vars, handlerVars, loopVars
<1> QED BY <1>2, <1>3, <1>4, <1>5 DEF Next, Finished

\* A place in the limiter is not taken from a handler that has yet to push.
LEMMA TokenOwn ==
    ASSUME Inv, [Next]_vars, NEW r \in Requests, pc[r] \notin {"wait", "done"}, ~Handler(r)
    PROVE  token'[r] = token[r]
<1>1. LoopTypes /\ HandlerTypes /\ LimiterTypes /\ \A s \in Requests : LoopInv(s)
  BY DEF Inv, Types
<1>2. ASSUME NEW q \in Requests, Handler(q) \/ Disconnect(q) PROVE token'[r] = token[r]
  <2>1. CASE q # r
    BY <1>1, <1>2, <2>1, HandlerFrame
  <2>2. CASE q = r
    BY <1>2, <2>2 DEF Disconnect
  <2> QED BY <2>1, <2>2
<1>3. ASSUME NEW s \in Requests, Turn(s) PROVE token'[r] = token[r]
  <2>1. \A q \in Requests : Release(q) => q = r \/ token'[r] = token[r]
    BY <1>1 DEF Release, LimiterTypes, limiterVars
  <2>2. /\ ~(session[s].loop \in {"run", "append"} /\ r = session[s].turn)
        /\ ~(Deliver(s) /\ r = session[s].turn)
    BY NotPushed DEF Active, Ending, Deliver, At
  <2>3. ~(BuildFails(s) /\ r = Item(s))
    BY <1>1, NotPushed, ItemTaken DEF BuildFails, Pending
  <2> QED BY <1>1, <1>3, <2>1, <2>2, <2>3, TurnTokens
<1>4. ASSUME NEW i \in Instances, Close(i) \/ Registry(i) PROVE token'[r] = token[r]
  BY <1>1, <1>4, RegistryStep
<1>5. CASE UNCHANGED vars
  BY <1>5 DEF vars
<1> QED BY <1>2, <1>3, <1>4, <1>5 DEF Next, Finished

\* A handler goes through its places in their order.
LEMMA PcMoves ==
    ASSUME Types, NEW r \in Requests, Handler(r)
    PROVE  \/ Lock(r) /\ pc[r] = "lock" /\ pc'[r] = "session"
           \/ Session(r) /\ pc[r] = "session" /\ pc'[r] \in {"acquire", "done"}
           \/ AcquireChecks(r) /\ pc[r] = "acquire" /\ pc'[r] = "select"
           \/ Acquire(r) /\ pc[r] = "select" /\ pc'[r] = "push"
           \/ PushChecks(r) /\ pc[r] = "push" /\ pc'[r] = "enqueue"
           \/ Push(r) /\ pc[r] = "enqueue" /\ pc'[r] = "wait"
           \/ Receive(r) /\ pc[r] = "wait" /\ pc'[r] \in {"wait", "done"}
           \/ pc[r] # "done" /\ pc'[r] = "done" /\ reply'[r] = "error"
                 /\ (AcquireClosed(r) \/ PushFails(r) \/ PushRefused(r) \/ GiveUp(r))
<1> USE DEF Types, HandlerTypes, Goto, Reply
<1>1. CASE Lock(r) \/ Session(r) \/ AcquireChecks(r) \/ Acquire(r)
  BY <1>1 DEF Lock, Session, AcquireChecks, Acquire
<1>2. CASE PushChecks(r) \/ Push(r) \/ Receive(r)
  BY <1>2 DEF PushChecks, Push, Receive
<1>3. CASE AcquireClosed(r) \/ PushFails(r) \/ PushRefused(r) \/ GiveUp(r)
  BY <1>3 DEF AcquireClosed, PushFails, PushRefused, GiveUp
<1> QED BY <1>1, <1>2, <1>3 DEF Handler

\* Every step keeps what is known of a handler.
LEMMA HandlerInvStep ==
    ASSUME Inv, [Next]_vars, NEW r \in Requests
    PROVE  HandlerInv(r)'
<1>1. Types /\ HandlerInv(r) /\ (\A s \in Requests : LoopInv(s)) /\ \A q \in Requests : HandlerInv(q)
  BY DEF Inv
<1>2. LoopTypes /\ HandlerTypes /\ LimiterTypes
  BY <1>1 DEF Types
<1>3. /\ pc'[r] = pc[r] /\ mine'[r] = mine[r] /\ reply'[r] = reply[r] /\ ~Handler(r)
      \/ Handler(r)
  BY <1>1, PcStep DEF Disconnect, loopVars
<1>4. Types'
  BY <1>1, TypesStep
<1>5. ASSUME pc'[r] \in {"lock", "session"} PROVE session'[r].loop = "none"
  <2>0. ASSUME Handler(r) PROVE pc[r] = "lock" /\ ~Session(r)
    <3>1. pc[r] = "lock"
      BY <1>1, <1>5, <2>0, PcMoves
    <3> QED BY <3>1 DEF Session
  <2>1. pc[r] \in {"lock", "session"} /\ ~Session(r)
    BY <1>3, <1>5, <2>0 DEF Handler
  <2>2. session[r].loop = "none"
    BY <1>1, <2>1 DEF HandlerInv
  <2>3. Turn(r) => SameLoop(r)
    BY <1>1, <2>2, TurnShape DEF Took, Starts, FailsBuild, Says, Finishes, Returns, Ends, Continues,
       Deliver, Building, At
  <2> QED BY <1>1, <2>1, <2>2, <2>3, SessionStep DEF SameLoop, Created, Pushed
<1>6. ASSUME pc'[r] \in {"acquire", "select", "push", "enqueue", "wait"} PROVE mine'[r] \in Requests
  <2>1. CASE Session(r)
    <3>1. Home(r) \in Instances /\ Key(r) \in Keys
      BY <1>2 DEF HandlerTypes, RequestType, Home, Key
    <3>2. CASE ReuseSession(r, Home(r), Key(r))
      BY <1>2, <3>1, <3>2 DEF ReuseSession, Reusable, LoopTypes
    <3>3. CASE CreateSession(r, Home(r), Key(r))
      BY <1>2, <3>3 DEF CreateSession, LoopTypes
    <3>4. CASE Reply(r, "error")
      BY <1>2, <1>6, <3>4 DEF Reply, HandlerTypes
    <3> QED BY <2>1, <3>2, <3>3, <3>4 DEF Session
  <2>2. CASE ~Session(r)
    <3>1. mine'[r] = mine[r]
      BY <1>2, <1>3, <2>2, HandlerFrame
    <3>2. pc[r] \in {"acquire", "select", "push", "enqueue", "wait"}
      BY <1>1, <1>3, <1>6, <2>2, PcMoves
    <3> QED BY <1>1, <3>1, <3>2 DEF HandlerInv
  <2> QED BY <2>1, <2>2
<1>7. /\ pc'[r] \in {"lock", "session", "acquire", "select"} => token'[r] = "none"
      /\ pc'[r] \in {"push", "enqueue"} => token'[r] = "held"
  <2>1. CASE ~Handler(r)
    BY <1>1, <1>3, <2>1, TokenOwn DEF HandlerInv
  <2>2. CASE Acquire(r)
    <3>1. pc'[r] = "push" /\ token'[r] = "held"
      BY <1>2, <2>2 DEF Acquire, Goto, HandlerTypes, LimiterTypes
    <3> QED BY <3>1
  <2>3. CASE Handler(r) /\ ~Acquire(r) /\ pc'[r] \notin {"wait", "done"}
    <3>1. token' = token
      BY <1>1, <1>2, <2>3, HandlerTokens, PcMoves DEF PushFails, PushRefused, Reply, HandlerTypes
    <3> QED BY <1>1, <2>3, <3>1, PcMoves DEF HandlerInv
  <2> QED BY <2>1, <2>2, <2>3
<1>8. pc'[r] \notin {"wait", "done"} => ~Committed(r)'
  <2>1. pc'[r] \notin {"wait", "done"} => pc[r] \notin {"wait", "done"}
    BY <1>1, <1>3, PcMoves
  <2> QED BY <2>1, NotPushed
<1>9. Committed(r) => Committed(r)'
  BY <1>1, CommittedStep
<1>10. "ok" \in ToSet(channel'[r]) => Committed(r)'
  <2>1. channel[r] \in Seq({"message", "ok", "error"})
    BY <1>2 DEF HandlerTypes
  <2>2. CASE channel'[r] = channel[r]
    BY <1>1, <1>9, <2>2 DEF HandlerInv
  <2>3. CASE channel[r] # <<>> /\ channel'[r] = Tail(channel[r])
    <3>1. ToSet(Tail(channel[r])) \subseteq ToSet(channel[r])
      BY <2>1, <2>3 DEF ToSet
    <3> QED BY <1>1, <1>9, <2>3, <3>1 DEF HandlerInv
  <2>4. ASSUME NEW s \in Requests, Deliver(s), session[s].turn = r,
               channel'[r] = Append(channel[r], session[s].event)
        PROVE  "ok" \in ToSet(channel'[r]) => Committed(r)'
    <3>1. /\ session[s].event \in {"message", "ok", "error"}
          /\ session[s].event = "ok" => Committed(r)
      BY <1>1, <2>4 DEF Deliver, LoopInv
    <3>2. ToSet(channel'[r]) \subseteq ToSet(channel[r]) \cup {session[s].event}
      BY <2>1, <2>4, <3>1 DEF ToSet
    <3> QED BY <1>1, <1>9, <3>1, <3>2 DEF HandlerInv
  <2> QED BY <1>1, <2>2, <2>3, <2>4, ChannelStep
<1>11. reply'[r] = "ok" => Committed(r)'
  <2>1. CASE Receive(r)
    <3>1. channel[r] # <<>> /\ Head(channel[r]) \in ToSet(channel[r])
      BY <1>2, <2>1 DEF Receive, HandlerTypes, ToSet
    <3>2. reply'[r] = reply[r] \/ reply'[r] = Head(channel[r])
      BY <1>2, <2>1 DEF Receive, Goto, Reply, HandlerTypes
    <3> QED BY <1>1, <1>9, <3>1, <3>2 DEF HandlerInv
  <2>2. CASE ~Receive(r) /\ Handler(r)
    <3>1. reply'[r] = reply[r] \/ reply'[r] = "error"
      BY <1>2, <2>2 DEF Handler, Lock, Session, AcquireChecks, AcquireClosed, Acquire, PushChecks,
         PushFails, Push,
         PushRefused, GiveUp, Goto, Reply, HandlerTypes
    <3> QED BY <1>1, <1>9, <3>1 DEF HandlerInv
  <2>3. CASE ~Handler(r)
    BY <1>1, <1>3, <1>9, <2>3 DEF HandlerInv
  <2> QED BY <2>1, <2>2, <2>3
<1>12. \A m, n \in Places(r)' : m = n
  <2>1. UNCHANGED <<request>>
    BY <1>1, HistoryStep
  <2>2. CASE UNCHANGED history
    <3>1. Places(r)' = Places(r)
      BY <2>1, <2>2 DEF Places, Key
    <3> QED BY <1>1, <3>1 DEF HandlerInv
  <2>3. ASSUME NEW s \in Requests, At(s, "append"), session[s].turn \in Requests,
               Commit(session[s].turn)
        PROVE  \A m, n \in Places(r)' : m = n
    <3>1. PICK q \in Requests : q = session[s].turn
      BY <2>3
    <3>2. ~Committed(q)
      BY <2>3, <3>1 DEF Inv, PlacesInv, Active, At
    <3>3. Places(q) = {}
      BY <3>2 DEF Committed
    <3>4. Commit(q)
      BY <2>3, <3>1
    <3>5. CASE q = r
      <4>1. Places(r)' = {Len(history[Key(r)]) + 1}
        BY <1>1, <2>1, <3>3, <3>4, <3>5, CommitPlaces
      <4> QED BY <4>1
    <3>6. CASE q # r
      <4>1. Places(r)' = Places(r)
        BY <1>1, <2>1, <3>4, <3>6, CommitPlaces
      <4> QED BY <1>1, <4>1 DEF HandlerInv
    <3> QED BY <3>5, <3>6
  <2> QED BY <1>1, <2>2, <2>3, HistoryStep
<1> QED BY <1>5, <1>6, <1>7, <1>8, <1>10, <1>11, <1>12 DEF HandlerInv

\* A conversation's history holds turns of the conversation.
LEMMA KeysInvStep ==
    ASSUME Inv, [Next]_vars
    PROVE  KeysInv'
<1>1. Types /\ KeysInv /\ UNCHANGED request
  BY HistoryStep DEF Inv
<1>2. CASE UNCHANGED history
  BY <1>1, <1>2 DEF KeysInv, Key
<1>3. ASSUME NEW q \in Requests, Commit(q) PROVE KeysInv'
  <2> SUFFICES ASSUME NEW k \in Keys, NEW n \in DOMAIN history'[k]
               PROVE  Key(history'[k][n]) = k
    BY <1>1 DEF KeysInv, Key
  <2>1. Key(q) \in Keys /\ history[Key(q)] \in Seq(Requests) /\ history \in [Keys -> Seq(Requests)]
    BY <1>1, PlacesTyped DEF Types, TurnTypes
  <2>2. CASE k # Key(q)
    BY <1>1, <1>3, <2>1, <2>2 DEF Commit, KeysInv
  <2>3. CASE k = Key(q)
    <3>1. history'[k] = Append(history[k], q)
      BY <1>3, <2>1, <2>3 DEF Commit
    <3>2. \/ n \in DOMAIN history[k] /\ history'[k][n] = history[k][n]
          \/ history'[k][n] = q
      BY <2>1, <2>3, <3>1
    <3> QED BY <1>1, <2>3, <3>2 DEF KeysInv
  <2> QED BY <2>2, <2>3
<1> QED BY <1>2, <1>3, HistoryStep DEF Inv

\* A place is taken by Acquire alone.
LEMMA NoneKept ==
    ASSUME Types, \A s \in Requests : LoopInv(s), [Next]_vars, NEW r \in Requests,
           token[r] = "none", ~Acquire(r)
    PROVE  token'[r] = "none"
<1>1. LimiterTypes /\ HandlerTypes /\ LoopTypes
  BY DEF Types
<1>2. ASSUME NEW q \in Requests, Release(q) PROVE token'[r] = "none"
  BY <1>1, <1>2 DEF Release, LimiterTypes
<1>3. ASSUME NEW q \in Requests, Handler(q) \/ Disconnect(q) PROVE token'[r] = "none"
  <2>1. CASE Acquire(q)
    BY <1>1, <2>1 DEF Acquire, LimiterTypes
  <2> QED BY <1>1, <1>2, <1>3, <2>1, HandlerTokens
<1>4. ASSUME NEW t \in Requests, Turn(t) PROVE token'[r] = "none"
  BY <1>1, <1>2, <1>4, TurnTokens
<1>5. ASSUME NEW i \in Instances, Close(i) \/ Registry(i) PROVE token'[r] = "none"
  BY <1>1, <1>5, RegistryStep
<1>6. CASE UNCHANGED vars
  BY <1>6 DEF vars
<1> QED BY <1>3, <1>4, <1>5, <1>6 DEF Next, Finished

\* A handler answers when it is done, and not before.
LEMMA HandlerReply ==
    ASSUME Types, NEW r \in Requests, Handler(r)
    PROVE  \/ pc'[r] # "done" /\ reply'[r] = reply[r] /\ pc[r] # "done"
           \/ pc'[r] = "done" /\ reply'[r] \in {"ok", "error"} /\ pc[r] # "done"
<1> USE DEF Types, HandlerTypes, Goto, Reply
<1>1. CASE Lock(r) \/ AcquireChecks(r) \/ Acquire(r) \/ PushChecks(r) \/ Push(r)
  BY <1>1 DEF Lock, AcquireChecks, Acquire, PushChecks, Push
<1>2. CASE AcquireClosed(r) \/ PushFails(r) \/ PushRefused(r) \/ GiveUp(r)
  BY <1>2 DEF AcquireClosed, PushFails, PushRefused, GiveUp
<1>3. CASE Session(r)
  BY <1>3 DEF Session
<1>4. CASE Receive(r)
  <2>1. Head(channel[r]) \in {"message", "ok", "error"}
    BY <1>4 DEF Receive
  <2> QED BY <1>4, <2>1 DEF Receive
<1> QED BY <1>1, <1>2, <1>3, <1>4 DEF Handler

\* Every step keeps it so.
LEMMA AnsweredStep ==
    ASSUME Inv, [Next]_vars, NEW r \in Requests
    PROVE  AnsweredInv(r)'
<1>1. Types /\ AnsweredInv(r) /\ \A s \in Requests : LoopInv(s)
  BY DEF Inv
<1>2. CASE Handler(r)
  BY <1>1, <1>2, HandlerReply DEF AnsweredInv
<1>3. CASE ~Handler(r)
  <2>1. pc'[r] = pc[r] /\ reply'[r] = reply[r]
    BY <1>1, <1>3, PcStep DEF Disconnect
  <2>2. token[r] = "none" => token'[r] = "none"
    BY <1>1, <1>3, NoneKept DEF Handler
  <2> QED BY <1>1, <2>1, <2>2 DEF AnsweredInv
<1> QED BY <1>2, <1>3

\* An error that was answered stays,
LEMMA ErrorKept ==
    ASSUME Inv, [Next]_vars, NEW r \in Requests, reply[r] = "error"
    PROVE  reply'[r] = "error"
<1>1. Types /\ pc[r] = "done"
  BY DEF Inv, AnsweredInv
<1> QED BY <1>1, HandlerReply, PcStep DEF Disconnect

\* and one that the handler is told of is answered, unless a success was.
LEMMA ToldKept ==
    ASSUME Inv, [Next]_vars, NEW r \in Requests, Told(r)
    PROVE  Told(r)'
<1>1. Types /\ channel[r] \in Seq({"message", "ok", "error"}) /\ \A s \in Requests : LoopInv(s)
  BY DEF Inv, Types, HandlerTypes
<1>2. CASE reply[r] = "error"
  BY <1>2, ErrorKept DEF Told
<1>3. CASE "error" \in Range(channel[r])
  <2>1. PICK n \in DOMAIN channel[r] : channel[r][n] = "error"
    BY <1>3 DEF Range
  <2>2. CASE channel'[r] = channel[r]
    BY <1>3, <2>2 DEF Told
  <2>3. CASE Receive(r) /\ channel[r] # <<>> /\ channel'[r] = Tail(channel[r])
    <3>1. CASE n = 1
      <4>1. Head(channel[r]) = "error"
        BY <1>1, <2>1, <2>3, <3>1
      <4> QED BY <1>1, <2>3, <4>1 DEF Receive, Reply, Told, Types, HandlerTypes
    <3>2. CASE n # 1
      <4>1. n - 1 \in DOMAIN channel'[r] /\ channel'[r][n - 1] = "error"
        BY <1>1, <2>1, <2>3, <3>2
      <4> QED BY <4>1 DEF Told, Range
    <3> QED BY <3>1, <3>2
  <2>4. ASSUME NEW s \in Requests, Deliver(s), channel'[r] = Append(channel[r], session[s].event)
        PROVE  Told(r)'
    <3>1. n \in DOMAIN channel'[r] /\ channel'[r][n] = "error"
      BY <1>1, <2>1, <2>4
    <3> QED BY <3>1 DEF Told, Range
  <2> QED BY <1>1, <2>2, <2>3, <2>4, ChannelStep
<1> QED BY <1>2, <1>3 DEF Told

\* Every step keeps the invariant,
LEMMA InvStep == Inv /\ [Next]_vars => Inv'
<1> SUFFICES ASSUME Inv, [Next]_vars PROVE Inv'
  OBVIOUS
<1>1. Types'
  BY TypesStep DEF Inv
<1> QED BY <1>1, LoopInvStep, PlacesInvStep, ClaimInvStep, HandlerInvStep, AnsweredStep, KeysInvStep
  DEF Inv

\* and it holds at first.
LEMMA InitInv == Init => Inv
<1> SUFFICES ASSUME Init PROVE Inv
  OBVIOUS
<1>1. NoLoop \in SessionRec
  BY DEF NoLoop, SessionRec, Loops, Events
<1>2. LoopTypes
  BY <1>1 DEF Init, LoopInit, LoopTypes
<1>3. pc \in [Requests -> {"lock", "done"}]
  BY DEF Init
<1>4. HandlerTypes /\ LimiterTypes /\ TurnTypes
  BY <1>3 DEF Init, LimiterInit, HandlerTypes, LimiterTypes, TurnTypes, Answers
<1>5. \A s \in Requests : session[s] = NoLoop
  BY DEF Init, LoopInit
<1>6. \A r, s \in Requests : ~Pending(r, s) /\ ~Active(r, s) /\ ~Ending(r, s)
  BY <1>5, EmptySet DEF Pending, Active, Ending, NoLoop, At
<1>7. \A s \in Requests : LoopInv(s)
  BY <1>5 DEF LoopInv, NoLoop, At
<1>8. \A s \in Requests : PlacesInv(s)
  BY <1>5, <1>6, EmptySet DEF PlacesInv, NoLoop, At
<1>9. \A s \in Requests : ClaimInv(s)
  BY <1>6 DEF ClaimInv
<1>10. \A r \in Requests : Places(r) = {}
  BY <1>4 DEF Init, Places, Key, HandlerTypes, RequestType
<1>11. ASSUME NEW r \in Requests PROVE HandlerInv(r) /\ AnsweredInv(r)
  <2>1. /\ pc[r] \in {"lock", "done"} /\ token[r] = "none" /\ session[r].loop = "none"
        /\ channel[r] = <<>> /\ reply[r] = "none"
    BY <1>3, <1>5 DEF Init, NoLoop
  <2> QED BY <1>10, <2>1, EmptySet DEF HandlerInv, AnsweredInv, Committed
<1>12. KeysInv
  BY DEF Init, KeysInv
<1> QED BY <1>2, <1>4, <1>7, <1>8, <1>9, <1>11, <1>12 DEF Inv, Types

\* The invariant holds in every behaviour.
LEMMA InvHolds == Spec => []Inv
<1>1. Inv /\ UNCHANGED vars => Inv'
  BY InvStep
<1> QED BY InitInv, InvStep, <1>1, PTL DEF Spec

\* Of Chat and ChatStream: a success is answered only when the turn is in the history,
\* where it is once (chat_v1_chat.go:54-66, chat_v1_chat_stream.go:95-105).
THEOREM OkCorrect == Spec => []OkCommitted
<1>1. Inv => OkCommitted
  <2> SUFFICES ASSUME Inv, NEW r \in Requests
               PROVE  Cardinality(Places(r)) <= 1 /\ (reply[r] = "ok" => Places(r) # {})
    BY DEF OkCommitted
  <2>1. HandlerInv(r)
    BY DEF Inv
  <2>2. CASE Places(r) = {}
    BY <2>1, <2>2, FS_EmptySet DEF HandlerInv, Committed
  <2>3. CASE Places(r) # {}
    <3>1. PICK n : n \in Places(r)
      BY <2>3
    <3>2. Places(r) = {n}
      BY <2>1, <3>1 DEF HandlerInv
    <3>3. Cardinality({n}) = 1
      BY FS_Singleton
    <3> QED BY <2>3, <3>2, <3>3
  <2> QED BY <2>2, <2>3
<1> QED BY <1>1, InvHolds, PTL

\* A place that is taken or given back changes its holder and its process' count alone.
LEMMA ReleaseCount ==
    ASSUME Types, NEW r \in Requests, Release(r), UNCHANGED <<request>>,
           \A i \in Instances : CountInv(i), NEW i \in Instances
    PROVE  CountInv(i)'
<1>1. /\ tokens \in [Instances -> Nat] /\ token \in [Requests -> {"none", "held", "released"}]
      /\ Home(r) \in Instances
  BY DEF Types, LimiterTypes, HandlerTypes, RequestType, Home
<1>2. CASE token[r] = "held" /\ Home(r) = i
  <2>1. Holders(i)' = Holders(i) \ {r} /\ r \in Holders(i)
    BY <1>1, <1>2 DEF Release, Holders, Home
  <2>2. tokens'[i] = IF tokens[i] > 0 THEN tokens[i] - 1 ELSE 0
    BY <1>1, <1>2 DEF Release, GiveToken
  <2>3. IsFiniteSet(Holders(i)) /\ tokens[i] = Cardinality(Holders(i))
    BY DEF CountInv
  <2>4. /\ IsFiniteSet(Holders(i) \ {r})
        /\ Cardinality(Holders(i) \ {r}) = Cardinality(Holders(i)) - 1
    BY <2>1, <2>3, FS_RemoveElement
  <2>5. Cardinality(Holders(i) \ {r}) \in Nat
    BY <2>4, FS_CardinalityType
  <2> QED BY <1>1, <2>1, <2>2, <2>3, <2>4, <2>5 DEF CountInv
<1>3. CASE ~(token[r] = "held" /\ Home(r) = i)
  <2>1. Holders(i)' = Holders(i) /\ tokens'[i] = tokens[i]
    BY <1>1, <1>3 DEF Release, GiveToken, Holders, Home, limiterVars
  <2> QED BY <2>1 DEF CountInv
<1> QED BY <1>2, <1>3

\* A handler that acquires a token is one more to hold one.
LEMMA AcquireCount ==
    ASSUME Types, NEW r \in Requests, Acquire(r), HandlerInv(r),
           \A i \in Instances : CountInv(i), NEW i \in Instances
    PROVE  CountInv(i)'
<1>1. /\ tokens \in [Instances -> Nat] /\ token \in [Requests -> {"none", "held", "released"}]
      /\ Home(r) \in Instances /\ token[r] = "none"
      /\ UNCHANGED request
  BY DEF Types, LimiterTypes, HandlerTypes, RequestType, Home, HandlerInv, Acquire, fixedVars
<1>2. CASE Home(r) = i
  <2>1. Holders(i)' = Holders(i) \cup {r} /\ r \notin Holders(i)
    BY <1>1, <1>2 DEF Acquire, Holders, Home
  <2>2. tokens'[i] = tokens[i] + 1
    BY <1>1, <1>2 DEF Acquire, TakeToken
  <2>3. IsFiniteSet(Holders(i)) /\ tokens[i] = Cardinality(Holders(i))
    BY DEF CountInv
  <2>4. /\ IsFiniteSet(Holders(i) \cup {r})
        /\ Cardinality(Holders(i) \cup {r}) = Cardinality(Holders(i)) + 1
    BY <2>1, <2>3, FS_AddElement
  <2> QED BY <2>1, <2>2, <2>3, <2>4 DEF CountInv
<1>3. CASE Home(r) # i
  <2>1. Holders(i)' = Holders(i) /\ tokens'[i] = tokens[i]
    BY <1>1, <1>3 DEF Acquire, TakeToken, Holders, Home
  <2> QED BY <2>1 DEF CountInv
<1> QED BY <1>2, <1>3

\* Every step keeps the count of a limiter exact.
LEMMA CountStep ==
    ASSUME Inv, [Next]_vars, \A i \in Instances : CountInv(i)
    PROVE  \A i \in Instances : CountInv(i)'
<1>1. /\ Types /\ UNCHANGED request
      /\ \A r \in Requests : HandlerInv(r) /\ LoopInv(r)
  BY HistoryStep DEF Inv
<1>2. CASE UNCHANGED <<token, tokens>>
  <2>1. \A i \in Instances : Holders(i)' = Holders(i) /\ tokens'[i] = tokens[i]
    BY <1>1, <1>2 DEF Holders, Home
  <2> QED BY <2>1 DEF CountInv
<1>3. ASSUME NEW r \in Requests, Handler(r) \/ Disconnect(r) PROVE \A i \in Instances : CountInv(i)'
  BY <1>1, <1>2, <1>3, HandlerTokens, AcquireCount, ReleaseCount DEF Types
<1>4. ASSUME NEW s \in Requests, Turn(s) PROVE \A i \in Instances : CountInv(i)'
  BY <1>1, <1>2, <1>4, TurnTokens, ReleaseCount DEF Types
<1>5. ASSUME NEW i \in Instances, Close(i) \/ Registry(i) PROVE \A j \in Instances : CountInv(j)'
  BY <1>1, <1>2, <1>5, RegistryStep DEF Types
<1>6. CASE UNCHANGED vars
  BY <1>2, <1>6 DEF vars, limiterVars
<1> QED BY <1>3, <1>4, <1>5, <1>6 DEF Next, Finished

\* The count of every limiter is exact in every behaviour.
LimitersInv == \A i \in Instances : CountInv(i)
LEMMA CountHolds == Spec => []LimitersInv
<1>1. Init => LimitersInv
  <2> SUFFICES ASSUME Init, NEW i \in Instances PROVE CountInv(i)
    BY DEF LimitersInv
  <2>1. Holders(i) = {} /\ tokens[i] = 0
    BY DEF Init, LimiterInit, Holders
  <2> QED BY <2>1, FS_EmptySet DEF CountInv
<1>2. Inv /\ LimitersInv /\ [Next]_vars => LimitersInv'
  BY CountStep DEF LimitersInv
<1> QED BY <1>1, <1>2, InvHolds, PTL DEF Spec

\* The places taken of a limiter are those of the requests that acquired one and have not
\* released it: no path of Chat, ChatStream or the loops frees the place of another turn
\* (chat_v1_chat.go:41-48, chat_v1_chat_stream.go:55-62).
THEOREM TokensCorrect == Spec => []TokensCounted
<1>1. LimitersInv => TokensCounted
  BY DEF LimitersInv, CountInv, TokensCounted
<1> QED BY <1>1, CountHolds, PTL

\* Only its own loop gives back the place of a turn that was pushed, when the turn ends.
GivesBack(s, r) ==
    \/ FailsBuild(s) /\ r = Item(s)
    \/ session[s].loop \in {"run", "append"} /\ r = session[s].turn
         /\ session'[s].loop = "emit" /\ session'[s].after # "run"
    \/ Deliver(s) /\ r = session[s].turn /\ session[s].event # "message"

\* A token is given back by a session's own turn only, once a request waits there.
LEMMA HeldKept ==
    ASSUME Inv, [Next]_vars, NEW r \in Requests, NEW s \in Requests, Claimed(r, s),
           token[r] = "held"
    PROVE  token'[r] = "held" \/ (Turn(s) /\ GivesBack(s, r))
<1>1. Types /\ \A t \in Requests : LoopInv(t) /\ ClaimInv(t)
  BY DEF Inv
<1>2. CASE UNCHANGED token
  BY <1>2
<1>3. ASSUME NEW q \in Requests, Handler(q) \/ Disconnect(q) PROVE token'[r] = "held"
  <2>1. CASE Acquire(q) \/ PushFails(q) \/ PushRefused(q)
    <3>1. q # r
      BY <2>1 DEF Acquire, PushFails, PushRefused, Claimed
    <3> QED BY <1>1, <1>3, <3>1, HandlerFrame DEF Types
  <2> QED BY <1>1, <1>3, <2>1, HandlerTokens DEF Types
<1>4. ASSUME NEW t \in Requests, Turn(t) PROVE token'[r] = "held" \/ (Turn(s) /\ GivesBack(s, r))
  <2>1. ASSUME NEW q \in Requests, Release(q), token'[r] # "held" PROVE q = r
    BY <2>1, <1>1, ReleaseType, TurnFrame, <1>4 DEF Types, fixedVars
  <2>2. ASSUME BuildFails(t), r = Item(t) PROVE FailsBuild(t) /\ Pending(r, t)
    <3>1. Building(t) /\ (cancelled[r] \/ May("store")) /\ EndTurn(t, r, "error", "gen") /\ UNCHANGED swept
      BY <2>2 DEF BuildFails, fixedVars
    <3>2. EmitsTo(t, r, "error", "gen")
      BY <1>1, <3>1, EndTurnShape DEF Types
    <3>3. CallEmit(t, r, "error", "gen")
      BY <3>1 DEF EndTurn
    <3>4. session'[t].index = session[t].index + 1
      BY <1>1, <3>1, <3>3, CallEmitShape DEF Types, Building
    <3> QED BY <1>1, <2>2, <3>1, <3>2, <3>4, ItemTaken DEF FailsBuild, Pending, Types
  <2>3. CASE session[t].loop \in {"run", "append", "emit"} /\ session[t].turn = r
    <3>1. Active(r, t) \/ Ending(r, t)
      BY <2>3 DEF Active, Ending, At
    <3>2. t = s
      BY <1>1, <3>1 DEF ClaimInv, Claimed
    <3> QED BY <1>1, <1>4, <2>1, <2>2, <3>2, TurnTokens DEF GivesBack, Types
  <2>4. CASE ~(session[t].loop \in {"run", "append", "emit"} /\ session[t].turn = r)
    <3>1. token'[r] # "held" => BuildFails(t) /\ r = Item(t)
      BY <1>1, <1>4, <2>1, <2>4, TurnTokens DEF Types, Deliver, At
    <3>2. BuildFails(t) /\ r = Item(t) => t = s
      BY <1>1, <2>2 DEF ClaimInv, Claimed
    <3> QED BY <1>4, <2>2, <3>1, <3>2 DEF GivesBack
  <2> QED BY <2>3, <2>4
<1>5. ASSUME NEW i \in Instances, Close(i) \/ Registry(i) PROVE UNCHANGED token
  BY <1>1, <1>5, RegistryStep DEF Types
<1> QED BY <1>2, <1>3, <1>4, <1>5 DEF Next, Finished, vars

\* Every step keeps the tokens of turns that are queued or run.
LEMMA HeldStep ==
    ASSUME Inv, [Next]_vars, HeldInv
    PROVE  HeldInv'
<1> DEFINE Has(r) == token[r] = "held" \/ Told(r)
<1> SUFFICES ASSUME NEW r \in Requests, NEW s \in Requests
             PROVE  /\ Pending(r, s)' => Has(r)' \/ Ending(r, s)'
                    /\ Active(r, s)' => Has(r)'
  BY DEF HeldInv
<1>1. /\ Types /\ LoopInv(s) /\ PlacesInv(s) /\ ClaimInv(s)
      /\ \A q \in Requests : HandlerInv(q)
  BY DEF Inv
<1>2. /\ Pending(r, s) => Has(r) \/ Ending(r, s)
      /\ Active(r, s) => Has(r)
  BY DEF HeldInv
<1>3. ASSUME Pending(r, s) \/ Active(r, s), Has(r)
      PROVE  Has(r)' \/ (Turn(s) /\ GivesBack(s, r))
  BY <1>1, <1>3, HeldKept, ToldKept DEF ClaimInv
<1> HIDE DEF Has
<1>4. CASE ~Turn(s)
  <2>1. CASE SameLoop(s)
    BY <1>2, <1>3, <1>4, <2>1 DEF SameLoop, Pending, Active, Ending, At
  <2>2. CASE Created(s)
    <3>1. session[s].loop = "none"
      BY <2>2 DEF Created, Session, Inv, HandlerInv
    <3> QED BY <1>2, <1>3, <1>4, <2>2, <3>1 DEF Created, Pending, Active, Ending, At
  <2>3. ASSUME NEW q \in Requests, Pushed(s, q)
        PROVE  /\ Pending(r, s)' => Has(r)' \/ Ending(r, s)'
               /\ Active(r, s)' => Has(r)'
    <3>1. session[s].buffer \in Seq(Requests)
      BY <1>1 DEF Types, LoopTypes, SessionRec
    <3>2. token'[q] = "held"
      BY <1>1, <2>3 DEF Pushed, Push, HandlerInv
    <3>3. /\ r # q => (Pending(r, s)' <=> Pending(r, s)) /\ (Active(r, s)' <=> Active(r, s))
          /\ Ending(r, s)' <=> Ending(r, s)
      BY <2>3, <3>1, AppendSet DEF Pushed, Pending, Active, Ending, At
    <3>4. Has(q)'
      BY <3>2 DEF Has
    <3> QED BY <1>2, <1>3, <1>4, <3>3, <3>4
  <2> QED BY <1>1, <1>4, <2>1, <2>2, <2>3, SessionStep
<1>5. CASE Turn(s)
  <2>1. CASE SameLoop(s) /\ token' = token
    <3>1. Has(r) => Has(r)'
      BY <2>1, ToldKept DEF Has
    <3> QED BY <1>2, <2>1, <3>1 DEF SameLoop, Pending, Active, Ending, At
  <2>2. CASE Took(s) \/ Ends(s)
    <3>1. ~GivesBack(s, r) /\ ~Ending(r, s)
      BY <2>2 DEF Took, Ends, GivesBack, FailsBuild, EmitsTo, Deliver, Ending, At
    <3> QED BY <1>2, <1>3, <2>2, <3>1, EmptySet DEF Took, Ends, Pending, Active, At
  <2>3. CASE Starts(s)
    <3>1. ~GivesBack(s, r) /\ ~Ending(r, s)
      BY <2>3 DEF Starts, GivesBack, FailsBuild, EmitsTo, Deliver, Ending, At, Building
    <3>2. Pending(Item(s), s)
      BY <1>1, <2>3, ItemTaken DEF Starts, Pending, Types
    <3>3. Pending(r, s)' => Pending(r, s)
      BY <1>1, <2>3, StartsBuffer, EmptySet DEF Pending, Starts
    <3>4. Active(r, s)' => r = Item(s)
      BY <2>3 DEF Starts, Active
    <3> QED BY <1>2, <1>3, <3>1, <3>2, <3>3, <3>4
  <2>4. CASE FailsBuild(s)
    <3>1. GivesBack(s, r) => Ending(r, s)'
      BY <2>4 DEF FailsBuild, EmitsTo, GivesBack, Building, Deliver, Ending, At
    <3>2. (Pending(r, s)' => Pending(r, s)) /\ ~Active(r, s)' /\ ~Ending(r, s)
      BY <2>4 DEF FailsBuild, EmitsTo, Building, Pending, Active, Ending, At
    <3> QED BY <1>2, <1>3, <3>1, <3>2
  <2>5. CASE Says(s)
    <3>1. (Has(r) => Has(r)') /\ ~Ending(r, s)
      BY <2>5, ToldKept DEF Says, Has, Ending, At
    <3> QED BY <1>2, <2>5, <3>1 DEF Says, EmitsTo, Pending, Active, At
  <2>6. CASE Finishes(s)
    <3>1. ~Active(r, s)' /\ ~Ending(r, s)
      BY <2>6 DEF Finishes, EmitsTo, Active, Ending, At
    <3>2. GivesBack(s, r) => r = session[s].turn
      BY <2>6 DEF Finishes, GivesBack, FailsBuild, Building, Deliver, At
    <3>3. Pending(r, s)' => Pending(r, s)
      BY <2>6 DEF Finishes, EmitsTo, Pending
    <3>4. Pending(r, s) => r # session[s].turn
      BY <1>1, <2>6 DEF PlacesInv, Finishes, Active
    <3> QED BY <1>2, <1>3, <3>1, <3>2, <3>3, <3>4
  <2>7. CASE Returns(s)
    <3>1. At(s, "emit") /\ session[s].loop \notin {"gen", "run", "append"}
      BY <2>7 DEF Returns, Deliver, At
    <3>2. GivesBack(s, r) => session[s].turn = r /\ session[s].event # "message"
      BY <3>1 DEF GivesBack, FailsBuild, Building, At
    <3>3. ASSUME Pending(r, s), session[s].turn = r, session[s].event # "message"
          PROVE  Told(r)'
      <4>1. session[s].event = "error"
        BY <1>1, <3>1, <3>3 DEF LoopInv, PlacesInv
      <4>2. channel[r] \in Seq({"message", "ok", "error"}) /\ channel'[r] = Append(channel[r], "error")
        BY <1>1, <2>7, <3>3, <4>1 DEF Returns, Deliver, Types, HandlerTypes
      <4>3. Len(channel[r]) + 1 \in DOMAIN channel'[r] /\ channel'[r][Len(channel[r]) + 1] = "error"
        BY <4>2
      <4> QED BY <4>3 DEF Told, Range
    <3>4. Pending(r, s)' => Pending(r, s)
      BY <2>7 DEF Returns, Pending
    <3>5. Active(r, s)' => Active(r, s) /\ session[s].event = "message"
      BY <1>1, <2>7, <3>1 DEF Returns, Active, LoopInv, At
    <3>6. Ending(r, s) => session[s].turn = r /\ session[s].event # "message"
      BY <1>1, <3>1 DEF Ending, LoopInv
    <3>7. Told(r)' => Has(r)'
      BY DEF Has
    <3> QED BY <1>2, <1>3, <3>2, <3>3, <3>4, <3>5, <3>6, <3>7
  <2>8. CASE Continues(s)
    <3>1. ~GivesBack(s, r) /\ ~Ending(r, s)
      BY <2>8 DEF Continues, GivesBack, FailsBuild, Building, Deliver, Ending, At
    <3> QED BY <1>2, <1>3, <2>8, <3>1 DEF Continues, Pending, Active, At
  <2> QED BY <1>1, <1>5, <2>1, <2>2, <2>3, <2>4, <2>5, <2>6, <2>7, <2>8, TurnShape
<1> QED BY <1>4, <1>5

\* Every turn that is with the agent has one of the places of its process, unless a build
\* of it failed and its client has been told (run_limiter.go:10-11).
THEOREM RunsCorrect == Spec => []RunsCounted
<1>1. Init => HeldInv
  <2>1. Init => \A r, s \in Requests : ~Pending(r, s) /\ ~Active(r, s)
    BY EmptySet DEF Init, LoopInit, NoLoop, Pending, Active, At
  <2> QED BY <2>1 DEF HeldInv
<1>2. Inv /\ HeldInv /\ [Next]_vars => HeldInv'
  BY HeldStep
<1>3. Inv /\ HeldInv => RunsCounted
  BY DEF Inv, LoopInv, HeldInv, RunsCounted, Active
<1> QED BY <1>1, <1>2, <1>3, InvHolds, PTL DEF Spec

\* A limiter has so many places.
PlacesLimited == scenario \in Scenarios /\ tokens \in [Instances -> 0 .. scenario.places]

\* Every step keeps within the places of each limiter.
LEMMA LimitStep ==
    ASSUME Inv, [Next]_vars, PlacesLimited
    PROVE  PlacesLimited'
<1>0. UNCHANGED scenario /\ scenario \in ScenarioType
  BY HistoryStep, ChatTurnAssumption DEF Inv, PlacesLimited
<1>1. /\ Types /\ LimiterTypes /\ HandlerTypes /\ LoopTypes /\ scenario.places \in Nat
      /\ UNCHANGED scenario /\ \A r \in Requests : LoopInv(r) /\ Home(r) \in Instances
  BY <1>0 DEF ScenarioType, Inv, Types, HandlerTypes, RequestType, Home
<1>2. ASSUME NEW r \in Requests, Release(r) PROVE PlacesLimited'
  BY <1>1, <1>2 DEF Release, GiveToken, PlacesLimited, limiterVars
<1>3. ASSUME NEW r \in Requests, Acquire(r) PROVE PlacesLimited'
  BY <1>1, <1>3 DEF Acquire, TakeToken, PlacesLimited
<1>4. CASE UNCHANGED tokens
  BY <1>1, <1>4 DEF PlacesLimited
<1>5. ASSUME NEW r \in Requests, Handler(r) \/ Disconnect(r) PROVE PlacesLimited'
  BY <1>1, <1>2, <1>3, <1>4, <1>5, HandlerTokens
<1>6. ASSUME NEW s \in Requests, Turn(s) PROVE PlacesLimited'
  BY <1>1, <1>2, <1>4, <1>6, TurnTokens
<1>7. ASSUME NEW i \in Instances, Close(i) \/ Registry(i) PROVE PlacesLimited'
  BY <1>1, <1>4, <1>7, RegistryStep
<1>8. CASE UNCHANGED vars
  BY <1>4, <1>8 DEF vars, limiterVars
<1> QED BY <1>5, <1>6, <1>7, <1>8 DEF Next, Finished

\* The places taken are within the limit in every behaviour.
LEMMA LimitHolds == Spec => []PlacesLimited
<1>1. Init => PlacesLimited
  <2>1. Init => scenario \in ScenarioType /\ scenario.places \in Nat
    BY ChatTurnAssumption DEF Init, ScenarioType
  <2> QED BY <2>1 DEF Init, LimiterInit, PlacesLimited
<1>2. Inv /\ PlacesLimited /\ [Next]_vars => PlacesLimited'
  BY LimitStep
<1> QED BY <1>1, <1>2, InvHolds, PTL DEF Spec

\* Every step, the janitor's and StopAll's too, takes sessions off the map.
LEMMA SweepTypesStep ==
    ASSUME Inv, [Next]_vars, SweepTypes
    PROVE  SweepTypes'
<1>1. LoopTypes /\ HandlerTypes /\ LimiterTypes
  BY DEF Inv, Types
<1>2. CASE UNCHANGED <<sweep, evicted>>
  BY <1>2 DEF SweepTypes
<1>3. ASSUME NEW i \in Instances, Registry(i) \/ Close(i) PROVE SweepTypes'
  <2>1. Sessions(i) \subseteq Requests
    BY <1>1 DEF LoopTypes, Sessions, Registered
  <2>2. ASSUME NEW S \in SUBSET Sessions(i), sweep' = [sweep EXCEPT ![i] = S],
               evicted' \in {evicted, evicted \cup sweep'[i]}
        PROVE  SweepTypes'
    BY <2>1, <2>2 DEF SweepTypes
  <2>3. CASE Evict(i) \/ StopAll(i)
    BY <2>2, <2>3 DEF Evict, EvictIdle, StopAll, UnregisterAll
  <2>4. ASSUME NEW s \in Requests, StopReturns(i, s), UNCHANGED evicted PROVE SweepTypes'
    BY <2>4 DEF StopReturns, SweepTypes
  <2> QED BY <1>2, <1>3, <2>3, <2>4 DEF Registry, Stops, Close, Sweep, StopSession, loopVars,
     fixedVars
<1>4. ASSUME NEW r \in Requests, Handler(r) \/ Disconnect(r) PROVE UNCHANGED <<sweep, evicted>>
  BY <1>1, <1>4, HandlerFrame DEF fixedVars
<1>5. ASSUME NEW s \in Requests, Turn(s) PROVE UNCHANGED <<sweep, evicted>>
  BY <1>5, TurnFrame DEF fixedVars
<1> QED BY <1>2, <1>3, <1>4, <1>5 DEF Next, Finished, vars, loopVars, fixedVars

\* Every variable keeps its shape, the places of a limiter are within its limit
\* (run_limiter.go), and a loop that is at a turn has one (turn_loop.go).
THEOREM TypeCorrect == Spec => []TypeOK
<1>1. Init => SweepTypes
  BY DEF Init, LoopInit, SweepTypes
<1>2. Inv /\ SweepTypes /\ [Next]_vars => SweepTypes'
  BY SweepTypesStep
<1>3. Inv /\ SweepTypes /\ PlacesLimited => TypeOK
  BY DEF Inv, Types, LoopTypes, HandlerTypes, LimiterTypes, TurnTypes, LoopInv, SessionRec,
         SweepTypes, PlacesLimited, TypeOK
<1> QED BY <1>1, <1>2, <1>3, InvHolds, LimitHolds, PTL DEF Spec

\* The loops whose turns, of requests that process i serves and whose clients have not been
\* told of an error, are with the agent.
Running(i) ==
    {s \in Requests : /\ session[s].loop \in {"run", "append"}
                      /\ Home(session[s].turn) = i /\ ~Told(session[s].turn)}

\* A limiter keeps to its purpose: no more turns that a process was asked for are with the
\* agent at once than it has places, whatever fails, however many requests there are, which
\* clients go away and when it is closed (run_limiter.go, turn_loop.go:127-134). What may
\* come on top are turns that are tried again after their clients have been told that they
\* failed (Told): these gave their places back.
RunsLimited ==
    \A i \in Instances : IsFiniteSet(Running(i)) /\ Cardinality(Running(i)) <= scenario.places

\* Different loops are at different turns, and each of these turns has a place of its own.
LEMMA RunsHolders ==
    ASSUME Inv, RunsCounted, NEW i \in Instances, IsFiniteSet(Holders(i))
    PROVE  IsFiniteSet(Running(i)) /\ Cardinality(Running(i)) <= Cardinality(Holders(i))
<1> DEFINE f == [s \in Running(i) |-> session[s].turn]
<1>1. ASSUME NEW s \in Running(i)
      PROVE  session[s].turn \in Holders(i) /\ mine[session[s].turn] = s
  <2>1. s \in Requests /\ LoopInv(s) /\ ClaimInv(s)
    BY DEF Inv, Running
  <2>2. session[s].loop \in {"run", "append"} /\ session[s].turn \in Requests
    BY <2>1 DEF Running, LoopInv
  <2>3. token[session[s].turn] = "held" /\ Home(session[s].turn) = i
    BY <2>1, <2>2 DEF RunsCounted, Running
  <2>4. Claimed(session[s].turn, s)
    BY <2>1, <2>2 DEF ClaimInv, Active
  <2> QED BY <2>2, <2>3, <2>4 DEF Holders, Claimed
<1>2. f \in [Running(i) -> Holders(i)] /\ \A s, t \in Running(i) : f[s] = f[t] => s = t
  BY <1>1
<1> HIDE DEF f
<1>3. f \in Injection(Running(i), Holders(i))
  BY <1>2 DEF Injection, IsInjective
<1> QED BY <1>3, FS_Injection

\* No more turns are with the agent than there are places.
THEOREM LimitCorrect == Spec => []RunsLimited
<1>1. Inv /\ LimitersInv /\ RunsCounted /\ PlacesLimited => RunsLimited
  <2> SUFFICES ASSUME Inv, LimitersInv, RunsCounted, PlacesLimited, NEW i \in Instances
               PROVE  IsFiniteSet(Running(i)) /\ Cardinality(Running(i)) <= scenario.places
    BY DEF RunsLimited
  <2>1. IsFiniteSet(Holders(i)) /\ tokens[i] = Cardinality(Holders(i))
    BY DEF LimitersInv, CountInv
  <2>2. tokens[i] \in 0 .. scenario.places /\ scenario.places \in Nat
    BY ChatTurnAssumption DEF PlacesLimited, ScenarioType
  <2>3. IsFiniteSet(Running(i)) /\ Cardinality(Running(i)) <= Cardinality(Holders(i))
    BY <2>1, RunsHolders
  <2>4. Cardinality(Running(i)) \in Nat
    BY <2>3, FS_CardinalityType
  <2> QED BY <2>1, <2>2, <2>3, <2>4
<1> QED BY <1>1, InvHolds, CountHolds, RunsCorrect, LimitHolds, PTL

\* With a lock: a handler that is not done has it.
LEMMA LockKept ==
    ASSUME Types, [Next]_vars, UseLocker, NEW r \in Requests, pc'[r] \notin {"lock", "done"},
           pc[r] # "lock" => lock[Key(r)] = r
    PROVE  lock'[Key(r)] = r
<1>1. /\ lock \in [Keys -> Requests \cup {NoSession}] /\ Key(r) \in Keys /\ NoSession \notin Requests
      /\ pc \in [Requests -> {"lock", "session", "acquire", "select", "push", "enqueue", "wait", "done"}]
      /\ LoopTypes
  BY TurnLoopAssumption DEF Types, HandlerTypes, RequestType, Key
<1>2. ASSUME NEW q \in Requests, Lock(q) PROVE lock'[Key(r)] = r
  <2>1. lock[Key(q)] = NoSession /\ lock' = [lock EXCEPT ![Key(q)] = q]
        /\ pc[q] = "lock" /\ pc' = [pc EXCEPT ![q] = "session"]
    BY <1>2 DEF Lock
  <2> QED BY <1>1, <2>1
<1>3. ASSUME NEW q \in Requests, NEW answer, Reply(q, answer) PROVE lock'[Key(r)] = r
  <2>1. q # r
    BY <1>1, <1>3 DEF Reply
  <2>2. pc'[r] = pc[r]
    BY <1>1, <1>3, <2>1 DEF Reply
  <2> QED BY <1>1, <1>3, <2>1, <2>2 DEF Reply
<1>4. ASSUME UNCHANGED lock, pc[r] # "lock" PROVE lock'[Key(r)] = r
  BY <1>4
<1>5. ASSUME NEW q \in Requests, NEW l, Goto(q, l), pc[q] # "lock" PROVE lock'[Key(r)] = r
  BY <1>1, <1>5 DEF Goto
<1>6. ASSUME NEW q \in Requests, Handler(q) PROVE lock'[Key(r)] = r
  <2>1. CASE Session(q) \/ AcquireChecks(q) \/ Acquire(q) \/ PushChecks(q) \/ Push(q) \/ Receive(q)
    BY <2>1, <1>3, <1>5 DEF Session, AcquireChecks, Acquire, PushChecks, Push, Receive
  <2>2. CASE AcquireClosed(q) \/ PushFails(q) \/ PushRefused(q) \/ GiveUp(q)
    BY <2>2, <1>3 DEF AcquireClosed, PushFails, PushRefused, GiveUp
  <2> QED BY <1>2, <1>6, <2>1, <2>2 DEF Handler
<1>7. ASSUME UNCHANGED <<lock, pc>> PROVE lock'[Key(r)] = r
  BY <1>4, <1>7
<1>8. ASSUME NEW q \in Requests, Disconnect(q) PROVE lock'[Key(r)] = r
  BY <1>7, <1>8 DEF Disconnect
<1>9. ASSUME NEW s \in Requests, Turn(s) PROVE lock'[Key(r)] = r
  BY <1>7, <1>9, TurnFrame DEF handlerVars
<1>10. ASSUME NEW i \in Instances, Close(i) \/ Registry(i) PROVE lock'[Key(r)] = r
  BY <1>1, <1>7, <1>10, RegistryStep DEF handlerVars
<1>11. CASE UNCHANGED vars
  BY <1>7, <1>11 DEF vars, handlerVars
<1> QED BY <1>6, <1>8, <1>9, <1>10, <1>11 DEF Next, Finished

\* Every step keeps the lock with the handler that is not done.
LEMMA LockInvStep ==
    ASSUME Inv, [Next]_vars, NEW r \in Requests, LockInv(r)
    PROVE  LockInv(r)'
<1>1. Types /\ UNCHANGED <<request, scenario>>
  BY HistoryStep DEF Inv
<1>2. ASSUME UseLocker, pc'[r] \notin {"lock", "done"} PROVE lock'[Key(r)] = r
  <2>1. pc[r] # "done"
    BY <1>1, <1>2, PcStep, PcMoves DEF Disconnect
  <2>2. pc[r] # "lock" => lock[Key(r)] = r
    BY <1>2, <2>1 DEF LockInv
  <2> QED BY <1>1, <1>2, <2>2, LockKept
<1> QED BY <1>1, <1>2 DEF LockInv, UseLocker, Key

\* A request that waits for its turn or is done keeps its session.
LEMMA MineKept ==
    ASSUME Types, [Next]_vars, NEW r \in Requests, pc[r] # "session"
    PROVE  mine'[r] = mine[r]
<1>1. ~Session(r)
  BY DEF Session
<1> QED BY <1>1, PcStep, HandlerFrame DEF Types, Disconnect, loopVars

\* What the janitor took off a map, it does not put back.
LEMMA EvictedKept ==
    ASSUME Types, \A s \in Requests : LoopInv(s), [Next]_vars
    PROVE  evicted \subseteq evicted'
<1>1. ASSUME NEW r \in Requests, Handler(r) \/ Disconnect(r) PROVE UNCHANGED evicted
  BY <1>1, HandlerFrame DEF Types, fixedVars
<1>2. ASSUME NEW s \in Requests, Turn(s) PROVE UNCHANGED evicted
  BY <1>2, TurnFrame DEF fixedVars
<1>3. ASSUME NEW i \in Instances, Close(i) \/ Registry(i) PROVE evicted \subseteq evicted'
  BY <1>3 DEF Close, Registry, Stops, Evict, StopAll, Sweep, fixedVars
<1>4. CASE UNCHANGED vars
  BY <1>4 DEF vars, fixedVars
<1> QED BY <1>1, <1>2, <1>3, <1>4 DEF Next, Finished

\* So two turns stay apart.
LEMMA ApartKept ==
    ASSUME Inv, [Next]_vars, NEW q \in Requests, NEW r \in Requests, Apart(q, r),
           pc[q] \in {"wait", "done"}, pc[r] \in {"wait", "done"}
    PROVE  Apart(q, r)'
<1>1. mine'[q] = mine[q] /\ mine'[r] = mine[r]
  BY MineKept DEF Inv
<1>2. UNCHANGED <<request, scenario>> /\ evicted \subseteq evicted'
  BY HistoryStep, EvictedKept DEF Inv
<1>3. \A p \in {q, r} : reply[p] = "error" => reply'[p] = "error"
  BY ErrorKept
<1> QED BY <1>1, <1>2, <1>3 DEF Apart, UseLocker, Home

\* Two turns of a conversation that are with their agents at a time are apart.
LEMMA ActiveApart ==
    ASSUME Inv, SerialInv, NEW r \in Requests, NEW s \in Requests,
           NEW q \in Requests, NEW t \in Requests, Active(r, s), Active(q, t), Key(r) = Key(q),
           s # t
    PROVE  Apart(q, r)
<1>1. Claimed(r, s) /\ Claimed(q, t) /\ ~Committed(r) /\ ~Committed(q)
  BY DEF Inv, ClaimInv, PlacesInv
<1>2. mine[q] # mine[r]
  BY <1>1 DEF Claimed
<1>3. ASSUME UseLocker PROVE "error" \in {reply[q], reply[r]}
  <2>1. pc[q] = "done" \/ pc[r] = "done"
    BY <1>1, <1>2, <1>3 DEF SerialInv, LockInv, Claimed
  <2>2. \A p \in Requests : pc[p] = "done" /\ token[p] # "none" /\ ~Committed(p) => reply[p] = "error"
    BY DEF Inv, Types, HandlerTypes, HandlerInv, AnsweredInv, Answers
  <2> QED BY <1>1, <2>1, <2>2 DEF Claimed
<1>4. ASSUME Home(q) = Home(r) PROVE mine[q] \in evicted \/ mine[r] \in evicted
  BY <1>1, <1>2, <1>4 DEF SerialInv, RegistryInv, SharedInv, Got, Claimed
<1> QED BY <1>2, <1>3, <1>4 DEF Apart

\* What a build reads is the history of its turn, which it leaves alone.
LEMMA LoadedStep ==
    ASSUME Types, \A s \in Requests : LoopInv(s), [Next]_vars
    PROVE  \/ UNCHANGED loaded
           \/ \E s \in Requests : /\ Turn(s) /\ Starts(s) /\ Item(s) \in Requests
                                  /\ Item(s) \in ToSet(session[s].items)
                                  /\ UNCHANGED history
<1>1. ASSUME NEW r \in Requests, Handler(r) \/ Disconnect(r) PROVE UNCHANGED loaded
  BY <1>1, HandlerFrame DEF Types, turnVars
<1>2. ASSUME NEW s \in Requests, Turn(s), ~UNCHANGED loaded
      PROVE  /\ Turn(s) /\ Starts(s) /\ Item(s) \in Requests
             /\ Item(s) \in ToSet(session[s].items)
             /\ UNCHANGED history
  <2>1. Build(s)
    BY <1>2, TurnFrame
  <2>2. Building(s) /\ UNCHANGED history /\ StartTurn(s)
    BY <2>1 DEF Build
  <2>3. /\ session'[s].loop = "run" /\ session'[s].turn = Item(s) /\ session'[s].items = <<>>
        /\ session'[s].buffer = RemoveAt(session[s].items, session[s].index) \o session[s].buffer
    BY <2>2 DEF StartTurn, Types, LoopTypes, SessionRec
  <2> QED BY <1>2, <2>1, <2>2, <2>3, ItemTaken DEF Build, Starts, Types
<1>3. ASSUME NEW i \in Instances, Close(i) \/ Registry(i) PROVE UNCHANGED loaded
  BY <1>3, RegistryStep DEF Types, turnVars
<1>4. CASE UNCHANGED vars
  BY <1>4 DEF vars, turnVars
<1> QED BY <1>1, <1>2, <1>3, <1>4 DEF Next, Finished

\* A turn in a history is committed.
LEMMA InHistory ==
    ASSUME Inv, NEW k \in Keys, NEW n \in DOMAIN history[k]
    PROVE  history[k][n] \in Requests /\ Committed(history[k][n])
<1>1. history[k][n] \in Requests /\ Key(history[k][n]) = k
  BY DEF Inv, Types, TurnTypes, KeysInv
<1> QED BY <1>1 DEF Committed, Places

\* Whose turn begins, is with the agent or ends was with it, or begins.
LEMMA ActiveStep ==
    ASSUME Inv, [Next]_vars, NEW r \in Requests, NEW s \in Requests, Active(r, s)'
    PROVE  /\ Active(r, s) \/ (Turn(s) /\ Starts(s) /\ r = Item(s))
           /\ Turn(s) => ~Finishes(s)
<1>1. Types /\ LoopInv(s) /\ \A q \in Requests : HandlerInv(q)
  BY DEF Inv
<1>2. Turn(s) => ~Finishes(s)
  BY DEF Finishes, EmitsTo, Active, At
<1>3. CASE SameLoop(s) \/ Created(s) \/ \E q \in Requests : Pushed(s, q)
  BY <1>2, <1>3 DEF SameLoop, Created, Pushed, Active, At
<1>4. CASE Turn(s)
  <2>1. CASE SameLoop(s)
    BY <1>3, <2>1
  <2>2. CASE Took(s) \/ FailsBuild(s) \/ Finishes(s) \/ Ends(s)
    BY <2>2 DEF Took, FailsBuild, Finishes, Ends, EmitsTo, Active, At
  <2>3. CASE Starts(s)
    BY <1>2, <1>4, <2>3 DEF Starts, Active
  <2>4. CASE Says(s) \/ Continues(s)
    BY <1>2, <2>4 DEF Says, Continues, EmitsTo, Active, At
  <2>5. CASE Returns(s)
    <3>1. At(s, "emit") /\ session[s].after \in {"run", "gen", "ready", "ended"}
      BY <1>1, <2>5 DEF Returns, Deliver, LoopInv
    <3> QED BY <1>2, <2>5, <3>1 DEF Returns, Active, At
  <2> QED BY <1>1, <1>4, <2>1, <2>2, <2>3, <2>4, <2>5, TurnShape
<1> QED BY <1>1, <1>3, <1>4, SessionStep

\* Turns in a history, and those with an agent, have been pushed.
LEMMA PushedTurns ==
    ASSUME Inv, NEW r \in Requests
    PROVE  /\ \A n \in DOMAIN history[Key(r)] :
                 history[Key(r)][n] \in Requests /\ pc[history[Key(r)][n]] \in {"wait", "done"}
           /\ (Committed(r) \/ \E s \in Requests : Active(r, s)) => pc[r] \in {"wait", "done"}
<1>1. Key(r) \in Keys
  BY PlacesTyped DEF Inv
<1> QED BY <1>1, InHistory DEF Inv, HandlerInv, ClaimInv, Claimed

\* What an agent has not read stays apart while no more is committed,
LEMMA ReadKept ==
    ASSUME Inv, [Next]_vars, NEW r \in Requests, ReadInv(r), pc[r] \in {"wait", "done"},
           history'[Key(r)] = history[Key(r)], loaded'[r] = loaded[r]
    PROVE  ReadInv(r)'
<1>1. UNCHANGED request
  BY HistoryStep DEF Inv
<1> QED BY <1>1, PushedTurns, ApartKept DEF ReadInv, Key

\* and what an answer missed does, when more is.
LEMMA SeenKept ==
    ASSUME Inv, [Next]_vars, TurnSeesHistory, NEW r \in Requests, NEW q \in Requests,
           NEW m \in DOMAIN history[Key(r)], NEW n \in DOMAIN history[Key(r)],
           history[Key(r)][n] = r, history[Key(r)][m] = q, loaded[r] < m, m < n
    PROVE  Apart(q, r)'
<1>1. Apart(q, r)
  BY DEF TurnSeesHistory, Missed, Apart
<1>2. Committed(r) /\ pc[q] \in {"wait", "done"}
  BY PushedTurns DEF Committed, Places
<1> QED BY <1>1, <1>2, PushedTurns, ApartKept

\* Every step keeps apart the turns that an agent did not read.
LEMMA SeesStep ==
    ASSUME Inv, SerialInv, [Next]_vars
    PROVE  SeesInv'
<1>1. /\ Types /\ UNCHANGED <<request, scenario>> /\ SeesInv /\ Inv' /\ TurnSeesHistory
      /\ \A s \in Requests : LoopInv(s) /\ PlacesInv(s) /\ ClaimInv(s)
  BY HistoryStep, InvStep DEF Inv, SerialInv, SeesInv
<1>2. history \in [Keys -> Seq(Requests)] /\ loaded \in [Requests -> Nat] /\ history' \in [Keys -> Seq(Requests)]
  BY <1>1 DEF Types, TurnTypes, Inv
<1>3. ASSUME \A r, q \in Requests : \A m, n \in DOMAIN history'[Key(r)] :
                history'[Key(r)][n] = r /\ history'[Key(r)][m] = q /\ loaded'[r] < m /\ m < n
                => Apart(q, r)'
      PROVE  TurnSeesHistory'
  BY <1>1, <1>3 DEF TurnSeesHistory, Missed, Apart, Key, Home, UseLocker
<1>4. \A r \in Requests : /\ Key(r) \in Keys /\ DOMAIN history[Key(r)] \subseteq Nat
                          /\ history[Key(r)] \in Seq(Requests)
  BY <1>1, <1>2, PlacesTyped
<1>5. ASSUME NEW r \in Requests, NEW s \in Requests, Active(r, s), history'[Key(r)] = history[Key(r)],
             loaded'[r] = loaded[r]
      PROVE  ReadInv(r)'
  BY <1>1, <1>5, ReadKept, PushedTurns DEF SeesInv
<1>6. ASSUME UNCHANGED history, \A r \in Requests : Committed(r) => loaded'[r] = loaded[r]
      PROVE  TurnSeesHistory'
  <2> SUFFICES ASSUME NEW r \in Requests, NEW q \in Requests,
                      NEW m \in DOMAIN history[Key(r)], NEW n \in DOMAIN history[Key(r)],
                      history[Key(r)][n] = r, history[Key(r)][m] = q, loaded[r] < m, m < n
               PROVE  Apart(q, r)'
    <3>1. \A r \in Requests : \A n \in DOMAIN history[Key(r)] :
             history[Key(r)][n] = r => loaded'[r] = loaded[r]
      BY <1>6 DEF Committed, Places
    <3> QED BY <1>1, <1>3, <1>6, <3>1
  <2> QED BY <1>1, <1>4, SeenKept
<1>7. ASSUME NEW s \in Requests, Turn(s), Starts(s), Item(s) \in Requests,
             Item(s) \in ToSet(session[s].items), UNCHANGED history
      PROVE  SeesInv'
  <2>1. PICK q \in Requests : q = Item(s)
    BY <1>7
  <2>2. Pending(q, s)
    BY <1>7, <2>1 DEF Pending
  <2>3. ~Committed(q)
    BY <1>1, <2>2 DEF PlacesInv
  <2>4. loaded' = [loaded EXCEPT ![q] = Len(history[Key(q)])]
    BY <1>7, <2>1 DEF Starts
  <2>5. TurnSeesHistory'
    BY <1>2, <1>6, <1>7, <2>3, <2>4
  <2>6. ASSUME NEW r \in Requests, NEW t \in Requests, Active(r, t)' PROVE ReadInv(r)'
    <3>1. CASE r = q
      <4>1. /\ loaded'[r] = Len(history[Key(r)]) /\ DOMAIN history[Key(r)] = 1 .. Len(history[Key(r)])
            /\ Len(history[Key(r)]) \in Nat
        BY <1>1, <1>2, <2>4, <3>1, PlacesTyped
      <4> QED BY <1>1, <1>7, <4>1 DEF ReadInv, Key
    <3>2. CASE r # q
      <4>1. Active(r, t)
        BY <2>1, <2>6, <3>2, ActiveStep, <1>7, TurnOthers, <1>1 DEF Types, Active, Starts, At
      <4> QED BY <1>2, <1>5, <1>7, <2>4, <3>2, <4>1
    <3> QED BY <3>1, <3>2
  <2> QED BY <2>5, <2>6 DEF SeesInv
<1>8. CASE UNCHANGED <<history, loaded>>
  <2>1. ASSUME NEW r \in Requests, NEW s \in Requests, Active(r, s)' PROVE ReadInv(r)'
    <3>1. CASE Turn(s) /\ Starts(s) /\ r = Item(s)
      <4>1. Item(s) \in Requests /\ Item(s) \in ToSet(session[s].items)
        BY <1>1, <3>1, ItemTaken DEF Starts, Types
      <4> QED BY <1>7, <1>8, <2>1, <3>1, <4>1 DEF SeesInv
    <3> QED BY <1>5, <1>8, <2>1, <3>1, ActiveStep
  <2> QED BY <1>6, <1>8, <2>1 DEF SeesInv
<1>9. ASSUME UNCHANGED loaded, NEW s \in Requests, At(s, "append"), session[s].turn \in Requests,
             Commit(session[s].turn), Turn(s), Finishes(s)
      PROVE  SeesInv'
  <2>1. PICK q \in Requests : q = session[s].turn
    BY <1>9
  <2>2. PICK h \in Seq(Requests) : h = history[Key(q)] /\ Key(q) \in Keys
    BY <1>4
  <2>3. Active(q, s) /\ ReadInv(q) /\ ~Committed(q) /\ ~Active(q, s)'
    <3>1. Active(q, s)
      BY <1>9, <2>1 DEF Active, At
    <3>2. ~Active(q, s)'
      BY <1>9, ActiveStep
    <3> QED BY <1>1, <3>1, <3>2 DEF SeesInv, PlacesInv
  <2>4. /\ history'[Key(q)] = Append(h, q)
        /\ \A k \in Keys : k # Key(q) => history'[k] = history[k]
    BY <1>2, <1>9, <2>1, <2>2 DEF Commit
  <2>5. /\ Len(h) \in Nat /\ DOMAIN h = 1 .. Len(h) /\ DOMAIN Append(h, q) = 1 .. Len(h) + 1
        /\ Append(h, q)[Len(h) + 1] = q /\ \A n \in 1 .. Len(h) : Append(h, q)[n] = h[n]
    BY <2>2
  <2>6. TurnSeesHistory'
    <3> SUFFICES ASSUME NEW r \in Requests, NEW p \in Requests, NEW m \in DOMAIN history'[Key(r)],
                        NEW n \in DOMAIN history'[Key(r)], history'[Key(r)][n] = r,
                        history'[Key(r)][m] = p, loaded[r] < m, m < n
                 PROVE  Apart(p, r)'
      BY <1>3, <1>9
    <3>1. CASE Key(r) # Key(q)
      BY <1>1, <1>4, <2>4, <3>1, SeenKept
    <3>2. CASE Key(r) = Key(q)
      <4>1. /\ n \in 1 .. Len(h) + 1 /\ m \in 1 .. Len(h) /\ h[m] = p
            /\ m \in DOMAIN history[Key(r)]
        BY <2>2, <2>4, <2>5, <3>2
      <4>2. CASE n \in 1 .. Len(h)
        BY <1>1, <2>2, <2>4, <2>5, <3>2, <4>1, <4>2, SeenKept
      <4>3. CASE n = Len(h) + 1
        <5>1. r = q
          BY <2>4, <2>5, <3>2, <4>3
        <5>2. Apart(p, r)
          BY <2>2, <2>3, <4>1, <5>1 DEF ReadInv
        <5> QED BY <2>2, <2>3, <4>1, <5>1, <5>2, PushedTurns, ApartKept
      <4> QED BY <4>1, <4>2, <4>3
    <3> QED BY <3>1, <3>2
  <2>7. ASSUME NEW r \in Requests, NEW t \in Requests, Active(r, t)' PROVE ReadInv(r)'
    <3>1. t # s
      BY <1>9, <2>7, ActiveStep
    <3>2. Active(r, t)
      BY <1>1, <1>9, <2>7, <3>1, TurnOthers DEF Active, At, Types
    <3>3. CASE Key(r) # Key(q)
      BY <1>4, <1>5, <1>9, <2>4, <3>2, <3>3
    <3>4. CASE Key(r) = Key(q)
      <4>1. Apart(q, r)'
        <5>1. Apart(q, r)
          BY <2>3, <3>1, <3>2, <3>4, ActiveApart
        <5> QED BY <2>3, <3>2, <5>1, PushedTurns, ApartKept
      <4>2. ReadInv(r)
        BY <1>1, <3>2 DEF SeesInv
      <4>3. ASSUME NEW p \in Requests, NEW m \in 1 .. Len(h), h[m] = p, loaded[r] < m
            PROVE  Apart(p, r)'
        <5>1. Apart(p, r) /\ pc[p] \in {"wait", "done"} /\ pc[r] \in {"wait", "done"}
          BY <2>2, <2>5, <3>2, <3>4, <4>2, <4>3, PushedTurns DEF ReadInv
        <5> QED BY <5>1, ApartKept
      <4>4. loaded[r] \in Nat /\ loaded[r] <= Len(h) /\ Len(Append(h, q)) = Len(h) + 1
        BY <1>2, <2>2, <3>4, <4>2 DEF ReadInv
      <4>5. history'[Key(r)] = Append(h, q) /\ Key(r)' = Key(r) /\ loaded'[r] = loaded[r]
        BY <1>1, <1>9, <2>4, <3>4 DEF Key
      <4>6. ASSUME NEW p \in Requests, NEW n \in 1 .. Len(h) + 1, Append(h, q)[n] = p, loaded[r] < n
            PROVE  Apart(p, r)'
        <5>1. CASE n = Len(h) + 1
          BY <2>5, <4>1, <4>6, <5>1
        <5>2. CASE n \in 1 .. Len(h)
          BY <2>5, <4>3, <4>6, <5>2
        <5> QED BY <2>5, <5>1, <5>2
      <4> QED BY <2>5, <4>4, <4>5, <4>6 DEF ReadInv
    <3> QED BY <3>3, <3>4
  <2> QED BY <2>6, <2>7 DEF SeesInv
<1> QED BY <1>1, <1>7, <1>8, <1>9, LoadedStep, HistoryStep

\* A session stays once it is created,
LEMMA Stays ==
    ASSUME Inv, [Next]_vars, NEW s \in Requests
    PROVE  /\ session[s].loop # "none" => session'[s].loop # "none"
           /\ session'[s].loop # "none" => session[s].loop # "none" \/ Session(s)
<1>1. Types /\ LoopInv(s) /\ (\A q \in Requests : HandlerInv(q)) /\ NoSession \notin Requests
  BY TurnLoopAssumption DEF Inv
<1>2. CASE SameLoop(s) \/ Created(s) \/ \E q \in Requests : Pushed(s, q)
  BY <1>2 DEF SameLoop, Created, Pushed
<1>3. CASE Turn(s)
  <2>1. CASE Took(s) \/ Starts(s) \/ FailsBuild(s) \/ Says(s) \/ Finishes(s) \/ Ends(s) \/ Continues(s)
    BY <2>1 DEF Took, Starts, FailsBuild, Says, Finishes, Ends, Continues, EmitsTo, Building, At
  <2>2. CASE Returns(s)
    BY <1>1, <2>2 DEF Returns, Deliver, LoopInv, At
  <2> QED BY <1>1, <1>2, <1>3, <2>1, <2>2, TurnShape
<1> QED BY <1>1, <1>2, <1>3, SessionStep

\* and is stopped by the registry that took it off its map.
LEMMA StoppedStep ==
    ASSUME Inv, [Next]_vars, NEW s \in Requests, ~session[s].stopped
    PROVE  \/ ~session'[s].stopped
           \/ \E i \in Instances : s \in sweep[i]
<1>1. /\ Types /\ LoopTypes /\ session \in [Requests -> SessionRec]
      /\ \A q \in Requests : LoopInv(q) /\ HandlerInv(q)
  BY DEF Inv, Types, LoopTypes
<1>2. ASSUME NEW r \in Requests, Handler(r) \/ Disconnect(r)
      PROVE  session'[s].stopped = session[s].stopped
  <2>1. CASE UNCHANGED session
    BY <2>1
  <2>2. CASE Session(r)
    <3>1. CASE session' = [session EXCEPT ![r].loop = "ready"]
      <4>1. CASE s = r
        BY <1>1, <3>1, <4>1 DEF SessionRec
      <4>2. CASE s # r
        BY <1>1, <3>1, <4>2
      <4> QED BY <4>1, <4>2
    <3> QED BY <2>1, <2>2, <3>1 DEF Session, ReuseSession, CreateSession, RegistryFull
  <2>3. CASE PushChecks(r) \/ PushRefused(r)
    <3>1. mine[r] \in Requests
      BY <1>1, <2>3 DEF HandlerInv, PushChecks, PushRefused
    <3>2. s # mine[r] => session'[s] = session[s]
      BY <1>1, <2>3, <3>1 DEF PushChecks, PushRefused, CountActive, Refuse
    <3>3. s = mine[r] => \E n : session'[s] = [session[s] EXCEPT !.active = n]
      BY <1>1, <2>3, <3>1 DEF PushChecks, PushRefused, CountActive, Refuse
    <3>4. \A n : session'[s] = [session[s] EXCEPT !.active = n]
                     => session'[s].stopped = session[s].stopped
      BY <1>1 DEF SessionRec
    <3> QED BY <3>2, <3>3, <3>4
  <2>4. CASE Push(r)
    <3>1. mine[r] \in Requests
      BY <1>1, <2>4 DEF HandlerInv, Push
    <3>2. CASE s = mine[r]
      BY <1>1, <2>4, <3>1, <3>2 DEF Push, Enqueue, SessionRec
    <3>3. CASE s # mine[r]
      BY <1>1, <2>4, <3>1, <3>3 DEF Push, Enqueue
    <3> QED BY <3>2, <3>3
  <2>5. CASE Lock(r) \/ AcquireChecks(r) \/ AcquireClosed(r) \/ Acquire(r) \/ PushFails(r)
             \/ Receive(r) \/ GiveUp(r) \/ Disconnect(r)
    BY <2>1, <2>5 DEF Lock, AcquireChecks, AcquireClosed, Acquire, PushFails, Receive, GiveUp,
       Disconnect, loopVars
  <2> QED BY <1>2, <2>2, <2>3, <2>4, <2>5 DEF Handler
<1>3. ASSUME NEW r, NEW event, NEW after, CallEmit(s, r, event, after)
      PROVE  session'[s].stopped = session[s].stopped
  BY <1>1, <1>3 DEF CallEmit, SessionRec
<1>4. ASSUME NEW t \in Requests, Turn(t) PROVE session'[s].stopped = session[s].stopped
  <2>1. CASE t # s
    BY <1>1, <1>4, <2>1, TurnOthers
  <2>2. CASE LoopStep(s)
    BY <1>1, <2>2 DEF LoopStep, TakeItems, GenInputFails, LoopStops, SessionRec
  <2>3. CASE Build(s)
    BY <1>1, <2>3 DEF Build, StartTurn, SessionRec
  <2>4. CASE AgentDone(s)
    <3>1. CASE session' = [session EXCEPT ![s].loop = "append"]
      BY <1>1, <3>1 DEF SessionRec
    <3> QED BY <1>3, <2>4, <3>1 DEF AgentDone, EndTurn
  <2>5. CASE Message(s)
    BY <1>3, <2>5 DEF Message, loopVars
  <2>6. CASE BuildFails(s) \/ MessageUnsent(s) \/ AgentFails(s)
    BY <1>3, <2>6 DEF BuildFails, MessageUnsent, AgentFails, EndTurn
  <2>7. CASE AppendFails(s) \/ AppendTurn(s)
    BY <1>3, <2>7 DEF AppendFails, AppendTurn, EndTurn
  <2>8. CASE Deliver(s)
    BY <1>1, <2>8 DEF Deliver, EmitReturns, SessionRec
  <2> QED BY <1>4, <2>1, <2>2, <2>3, <2>4, <2>5, <2>6, <2>7, <2>8 DEF Turn
<1>5. ASSUME NEW i \in Instances, Close(i) \/ Registry(i)
      PROVE  session'[s].stopped = session[s].stopped \/ s \in sweep[i]
  <2>1. CASE UNCHANGED session
    BY <2>1
  <2>2. ASSUME NEW t \in Requests, StopSession(i, t)
        PROVE  session'[s].stopped = session[s].stopped \/ s \in sweep[i]
    BY <1>1, <2>2 DEF StopSession, LoopTypes, SessionRec
  <2> QED BY <1>5, <2>1, <2>2 DEF Close, Registry, Stops, Evict, EvictIdle, StopAll, UnregisterAll, Sweep,
     StopReturns, loopVars
<1>6. CASE UNCHANGED vars
  BY <1>6 DEF vars, loopVars
<1> QED BY <1>2, <1>4, <1>5, <1>6 DEF Next, Finished

\* The map of a process changes by its own requests, by the janitor and by StopAll,
MapChange(i, r) ==
    /\ Session(r) /\ Home(r) = i /\ ~Reusable(i, Key(r)) /\ UNCHANGED <<swept, sweep, evicted>>
    /\ \/ /\ registry' = [registry EXCEPT ![i][Key(r)] = r]
          /\ mine' = [mine EXCEPT ![r] = r]
          /\ session' = [session EXCEPT ![r].loop = "ready"]
       \/ registry' = [registry EXCEPT ![i][Key(r)] = NoSession] /\ UNCHANGED <<mine, session>>
LEMMA RegistryChange ==
    ASSUME Inv, [Next]_vars, SweepTypes
    PROVE  \/ /\ UNCHANGED <<registry, swept, evicted>>
              /\ \A i \in Instances : sweep'[i] \subseteq sweep[i]
           \/ \E r \in Requests : MapChange(Home(r), r)
           \/ \E i \in Instances : Evict(i) \/ StopAll(i)
<1>1. Types
  BY DEF Inv
<1>2. ASSUME NEW r \in Requests, Handler(r) \/ Disconnect(r), ~Session(r)
      PROVE UNCHANGED <<registry, swept, sweep, evicted>>
  BY <1>1, <1>2, HandlerFrame DEF Types, fixedVars
<1>3. ASSUME NEW r \in Requests, Session(r)
      PROVE  UNCHANGED <<registry, swept, sweep, evicted>> \/ MapChange(Home(r), r)
  BY <1>3 DEF Session, ReuseSession, CreateSession, RegistryFull, MapChange, fixedVars
<1>4. ASSUME NEW t \in Requests, Turn(t) PROVE UNCHANGED <<registry, swept, sweep, evicted>>
  BY <1>4, TurnFrame DEF fixedVars
<1>5. ASSUME NEW i \in Instances, Close(i) \/ Registry(i), ~StopAll(i), ~Evict(i)
      PROVE  /\ UNCHANGED <<registry, swept, evicted>>
             /\ \A j \in Instances : sweep'[j] \subseteq sweep[j]
  <2>1. CASE UNCHANGED <<registry, swept, sweep, evicted>>
    BY <2>1
  <2>2. ASSUME NEW t \in Requests, StopReturns(i, t), UNCHANGED <<swept, evicted>>
        PROVE  /\ UNCHANGED <<registry, swept, evicted>>
               /\ \A j \in Instances : sweep'[j] \subseteq sweep[j]
    BY <2>2 DEF StopReturns, SweepTypes
  <2> QED BY <1>5, <2>1, <2>2 DEF Close, Registry, Stops, Sweep, StopSession, loopVars, fixedVars
<1>6. CASE UNCHANGED vars
  BY <1>6 DEF vars, loopVars, fixedVars
<1> QED BY <1>2, <1>3, <1>4, <1>5, <1>6 DEF Next, Finished

\* The janitor's sweep takes some sessions of its process off the map.
LEMMA EvictSweeps ==
    ASSUME Inv, RegistryInv, NEW j \in Instances, Evict(j)
    PROVE  \E S \in SUBSET Requests :
              /\ UNCHANGED <<swept, session, mine, token, closed>>
              /\ sweep' = [sweep EXCEPT ![j] = S] /\ evicted' = evicted \cup S
              /\ registry' = [registry EXCEPT ![j] = Without(j, S)]
              /\ \A s \in S : Home(s) = j
<1>1. registry \in [Instances -> [Keys -> Requests \cup {NoSession}]]
  BY DEF Inv, Types, LoopTypes
<1>2. \A k \in Keys : registry[j][k] # NoSession =>
         registry[j][k] \in Requests /\ Home(registry[j][k]) = j
  BY <1>1 DEF RegistryInv, OwnerInv
<1>3. Sessions(j) \subseteq Requests /\ \A s \in Sessions(j) : Home(s) = j
  BY <1>2 DEF Sessions, Registered
<1>4. PICK S \in SUBSET Sessions(j) : /\ sweep' = [sweep EXCEPT ![j] = S]
                                      /\ registry' = [registry EXCEPT ![j] = Without(j, S)]
  BY DEF Evict, EvictIdle
<1>5. sweep'[j] = S
  BY <1>4 DEF RegistryInv, SweepTypes
<1> QED BY <1>3, <1>4, <1>5 DEF Evict, EvictIdle, limiterVars

\* A registered session stays one of its process and conversation.
LEMMA OwnerStep ==
    ASSUME Inv, [Next]_vars, RegistryInv, NEW i \in Instances, NEW k \in Keys
    PROVE  OwnerInv(i, k)'
<1>1. /\ Types /\ LoopTypes /\ HandlerTypes /\ UNCHANGED <<request, scenario>> /\ OwnerInv(i, k)
      /\ NoSession \notin Requests /\ SweepTypes
  BY HistoryStep, TurnLoopAssumption DEF Inv, Types, RegistryInv
<1>2. registry \in [Instances -> [Keys -> Requests \cup {NoSession}]]
  BY <1>1 DEF LoopTypes
<1>3. \A s \in Requests : session[s].loop # "none" => session'[s].loop # "none"
  BY Stays
<1>4. ASSUME registry'[i][k] = registry[i][k] PROVE OwnerInv(i, k)'
  BY <1>1, <1>2, <1>3, <1>4 DEF OwnerInv, Home, Key
<1>5. ASSUME registry'[i][k] = NoSession PROVE OwnerInv(i, k)'
  BY <1>5 DEF OwnerInv
<1>6. ASSUME NEW r \in Requests, MapChange(Home(r), r) PROVE OwnerInv(i, k)'
  <2>1. Home(r) \in Instances /\ Key(r) \in Keys
    BY <1>1 DEF HandlerTypes, RequestType, Home, Key
  <2>2. CASE Home(r) = i /\ Key(r) = k
    <3>1. CASE registry'[i][k] = NoSession
      BY <1>5, <3>1
    <3>2. CASE registry' = [registry EXCEPT ![i][k] = r] /\ session' = [session EXCEPT ![r].loop = "ready"]
      <4>1. registry'[i][k] = r
        BY <1>2, <3>2
      <4>2. session'[r].loop = "ready"
        BY <1>1, <3>2 DEF LoopTypes, SessionRec
      <4> QED BY <1>1, <2>2, <4>1, <4>2 DEF OwnerInv, Home, Key
    <3> QED BY <1>2, <1>6, <2>2, <3>1, <3>2 DEF MapChange
  <2>3. CASE ~(Home(r) = i /\ Key(r) = k)
    BY <1>2, <1>4, <1>6, <2>1, <2>3 DEF MapChange
  <2> QED BY <2>2, <2>3
<1>7. ASSUME NEW j \in Instances, StopAll(j) PROVE OwnerInv(i, k)'
  BY <1>2, <1>4, <1>5, <1>7 DEF StopAll, UnregisterAll
<1>8. ASSUME NEW j \in Instances, Evict(j) PROVE OwnerInv(i, k)'
  <2>1. PICK S \in SUBSET Requests : registry' = [registry EXCEPT ![j] = Without(j, S)]
    BY <1>8, EvictSweeps
  <2>2. registry'[i][k] \in {registry[i][k], NoSession}
    BY <1>2, <2>1 DEF Without
  <2> QED BY <1>4, <1>5, <2>2
<1> QED BY <1>1, <1>4, <1>6, <1>7, <1>8, RegistryChange

\* What a handler got is a session of its conversation.
LEMMA MineStep ==
    ASSUME Inv, [Next]_vars, RegistryInv, NEW r \in Requests
    PROVE  MineInv(r)'
<1>1. /\ Types /\ LoopTypes /\ HandlerTypes /\ LimiterTypes /\ UNCHANGED <<request, scenario>>
      /\ MineInv(r) /\ NoSession \notin Requests /\ HandlerInv(r)
      /\ Home(r) \in Instances /\ Key(r) \in Keys /\ \A s \in Requests : LoopInv(s)
  BY HistoryStep, TurnLoopAssumption DEF Inv, Types, RegistryInv, HandlerTypes, RequestType, Home, Key
<1>2. \A s \in Requests : session[s].loop # "none" => session'[s].loop # "none"
  BY Stays
<1>3. mine[r] \in Requests \cup {NoSession}
  BY <1>1 DEF LoopTypes
<1>4. CASE Session(r)
  <2>1. token'[r] = "none"
    BY <1>1, <1>4 DEF HandlerInv, Session
  <2>2. CASE ReuseSession(r, Home(r), Key(r))
    <3>1. mine'[r] = registry[Home(r)][Key(r)] /\ mine'[r] \in Requests
      BY <1>1, <2>2 DEF ReuseSession, Reusable, LoopTypes
    <3>2. session[mine'[r]].loop # "none" /\ Home(mine'[r]) = Home(r) /\ Key(mine'[r]) = Key(r)
      BY <1>1, <3>1 DEF RegistryInv, OwnerInv
    <3> QED BY <1>1, <1>2, <2>1, <3>1, <3>2 DEF MineInv, Home, Key
  <2>3. CASE CreateSession(r, Home(r), Key(r))
    <3>1. mine'[r] = r /\ session'[r].loop = "ready"
      BY <1>1, <2>3 DEF CreateSession, LoopTypes, SessionRec
    <3> QED BY <1>1, <2>1, <3>1 DEF MineInv, Home, Key
  <2>4. CASE RegistryFull(Home(r), Key(r))
    <3>1. mine'[r] = mine[r]
      BY <2>4 DEF RegistryFull
    <3> QED BY <1>1, <1>2, <1>3, <2>1, <3>1 DEF MineInv, Home, Key
  <2> QED BY <1>4, <2>2, <2>3, <2>4 DEF Session
<1>5. CASE ~Session(r)
  <2>1. mine'[r] = mine[r]
    BY <1>1, <1>5, PcStep, HandlerFrame
  <2>2. token'[r] # "none" => mine[r] # NoSession
    <3>1. CASE Acquire(r)
      BY <1>1, <3>1 DEF Acquire, HandlerInv
    <3>2. CASE ~Acquire(r)
      <4>1. token[r] = "none" => token'[r] = "none"
        BY <1>1, <3>2, NoneKept
      <4> QED BY <1>1, <4>1 DEF MineInv
    <3> QED BY <3>1, <3>2
  <2> QED BY <1>1, <1>2, <1>3, <2>1, <2>2 DEF MineInv, Home, Key
<1> QED BY <1>4, <1>5

\* StopAll is called on a limiter that is closed.
LEMMA ClosedKept ==
    ASSUME Types, \A s \in Requests : LoopInv(s), [Next]_vars, NEW i \in Instances
    PROVE  closed[i] => closed'[i]
<1>1. LimiterTypes /\ HandlerTypes /\ LoopTypes
  BY DEF Types
<1>2. ASSUME NEW q \in Requests, Handler(q) \/ Disconnect(q) PROVE UNCHANGED closed
  BY <1>1, <1>2, HandlerFrame
<1>3. ASSUME NEW t \in Requests, Turn(t) PROVE UNCHANGED closed
  BY <1>3, TurnFrame
<1>4. ASSUME NEW j \in Instances, Close(j) \/ Registry(j) PROVE closed[i] => closed'[i]
  BY <1>1, <1>4 DEF Close, CloseLimiter, Registry, Stops, Evict, StopAll, Sweep, limiterVars, LimiterTypes
<1>5. CASE UNCHANGED vars
  BY <1>5 DEF vars, limiterVars
<1> QED BY <1>2, <1>3, <1>4, <1>5 DEF Next, Finished

\* StopAll takes the sessions of its process off the map,
LEMMA StopAllSweeps ==
    ASSUME Inv, RegistryInv, NEW j \in Instances, StopAll(j)
    PROVE  /\ closed[j] /\ swept' = [swept EXCEPT ![j] = TRUE] /\ UNCHANGED evicted
           /\ sweep' = [sweep EXCEPT ![j] = Sessions(j)]
           /\ registry' = [registry EXCEPT ![j] = [k \in Keys |-> NoSession]]
           /\ Sessions(j) \subseteq Requests /\ \A s \in Sessions(j) : Home(s) = j
<1>1. registry \in [Instances -> [Keys -> Requests \cup {NoSession}]]
  BY DEF Inv, Types, LoopTypes
<1>2. \A k \in Keys : registry[j][k] # NoSession =>
         registry[j][k] \in Requests /\ Home(registry[j][k]) = j
  BY <1>1 DEF RegistryInv, OwnerInv
<1> QED BY <1>2 DEF StopAll, UnregisterAll, Sessions, Registered

\* and a session of a process that is not swept is registered, unless the janitor took it away.
LEMMA SweptStep ==
    ASSUME Inv, [Next]_vars, RegistryInv, NEW i \in Instances
    PROVE  SweptInv(i)'
<1>1. /\ Types /\ LoopTypes /\ HandlerTypes /\ LimiterTypes /\ UNCHANGED <<request, scenario>>
      /\ SweptInv(i) /\ (\A j \in Instances : SweptInv(j)) /\ NoSession \notin Requests
      /\ SweepTypes /\ \A s \in Requests : LoopInv(s)
  BY HistoryStep, TurnLoopAssumption DEF Inv, Types, RegistryInv
<1>2. /\ registry \in [Instances -> [Keys -> Requests \cup {NoSession}]]
      /\ swept \in [Instances -> BOOLEAN] /\ sweep \in [Instances -> SUBSET Requests]
      /\ \A s \in Requests : Home(s) \in Instances /\ Key(s) \in Keys
  BY <1>1 DEF LoopTypes, LimiterTypes, HandlerTypes, RequestType, Home, Key, SweepTypes
<1>3. \A j \in Instances : StopAll(j) =>
         /\ closed[j] /\ swept' = [swept EXCEPT ![j] = TRUE] /\ UNCHANGED evicted
         /\ sweep' = [sweep EXCEPT ![j] = Sessions(j)]
         /\ registry' = [registry EXCEPT ![j] = [k \in Keys |-> NoSession]]
         /\ Sessions(j) \subseteq Requests /\ \A s \in Sessions(j) : Home(s) = j
  BY StopAllSweeps
<1>4. \A j \in Instances : Evict(j) => \E S \in SUBSET Requests :
         /\ UNCHANGED swept /\ evicted' = evicted \cup S
         /\ sweep' = [sweep EXCEPT ![j] = S]
         /\ registry' = [registry EXCEPT ![j] = Without(j, S)]
         /\ \A s \in S : Home(s) = j
  BY EvictSweeps
<1>5. evicted \subseteq evicted'
  BY <1>1, EvictedKept
<1>6. swept'[i] => closed'[i]
  <2>1. swept'[i] => swept[i] \/ StopAll(i)
    BY <1>1, <1>2, <1>3, <1>4, RegistryChange DEF MapChange
  <2> QED BY <1>1, <1>3, <2>1, ClosedKept DEF SweptInv
<1>7. \A s \in sweep'[i] : Home(s) = i
  BY <1>1, <1>2, <1>3, <1>4, RegistryChange DEF MapChange, SweptInv
<1>8. ASSUME ~swept'[i] PROVE ~swept[i] /\ ~StopAll(i)
  BY <1>1, <1>2, <1>3, <1>4, <1>8, RegistryChange DEF MapChange
<1>9. ASSUME ~swept'[i] PROVE sweep'[i] \subseteq evicted'
  <2>1. sweep[i] \subseteq evicted
    BY <1>1, <1>8, <1>9 DEF SweptInv
  <2>2. CASE sweep'[i] \subseteq sweep[i]
    BY <1>5, <2>1, <2>2
  <2>3. ASSUME NEW j \in Instances, Evict(j) PROVE sweep'[i] \subseteq evicted'
    <3>1. PICK S \in SUBSET Requests :
             evicted' = evicted \cup S /\ sweep' = [sweep EXCEPT ![j] = S]
      BY <1>4, <2>3
    <3>2. sweep'[i] = S \/ sweep'[i] = sweep[i]
      BY <1>2, <3>1
    <3> QED BY <2>2, <3>1, <3>2
  <2>4. ASSUME NEW j \in Instances, StopAll(j) PROVE sweep'[i] \subseteq sweep[i]
    <3>1. j # i
      BY <1>8, <1>9, <2>4
    <3> QED BY <1>2, <1>3, <2>4, <3>1
  <2> QED BY <1>1, <2>2, <2>3, <2>4, RegistryChange DEF MapChange
<1>10. ASSUME ~swept'[i], NEW s \in Requests \ evicted', Home(s) = i PROVE ~session'[s].stopped
  <2>1. ~session[s].stopped /\ s \notin evicted
    BY <1>1, <1>5, <1>8, <1>10 DEF SweptInv
  <2>2. \A j \in Instances : s \notin sweep[j]
    BY <1>1, <1>8, <1>10, <2>1 DEF SweptInv
  <2> QED BY <2>1, <2>2, StoppedStep
<1>11. ASSUME ~swept'[i], NEW s \in Requests \ evicted', Home(s) = i, session'[s].loop # "none"
       PROVE  registry'[i][Key(s)] = s
  <2>1. CASE session[s].loop # "none"
    <3>1. registry[i][Key(s)] = s /\ ~session[s].stopped
      BY <1>1, <1>5, <1>8, <1>11, <2>1 DEF SweptInv
    <3>2. Reusable(i, Key(s))
      BY <1>1, <3>1 DEF Reusable
    <3>3. ASSUME NEW r \in Requests, MapChange(Home(r), r) PROVE registry'[i][Key(s)] = s
      <4>1. ~(Home(r) = i /\ Key(r) = Key(s))
        BY <3>2, <3>3 DEF MapChange
      <4> QED BY <1>2, <3>1, <3>3, <4>1 DEF MapChange
    <3>4. ASSUME NEW j \in Instances, StopAll(j) PROVE registry'[i][Key(s)] = s
      <4>1. j # i
        BY <1>8, <1>11, <3>4
      <4> QED BY <1>2, <1>3, <3>1, <3>4, <4>1
    <3>5. ASSUME NEW j \in Instances, Evict(j) PROVE registry'[i][Key(s)] = s
      <4>1. PICK S \in SUBSET Requests : /\ evicted' = evicted \cup S
                                         /\ registry' = [registry EXCEPT ![j] = Without(j, S)]
        BY <1>4, <3>5
      <4>2. s \notin S
        BY <1>11, <4>1
      <4> QED BY <1>2, <3>1, <4>1, <4>2 DEF Without
    <3> QED BY <1>1, <1>2, <3>1, <3>3, <3>4, <3>5, RegistryChange
  <2>2. CASE session[s].loop = "none"
    <3>1. Session(s)
      BY <1>11, <2>2, Stays
    <3>2. CreateSession(s, Home(s), Key(s))
      BY <1>11, <2>2, <3>1 DEF Session, ReuseSession, RegistryFull
    <3> QED BY <1>2, <1>11, <3>2 DEF CreateSession
  <2> QED BY <2>1, <2>2
<1> QED BY <1>1, <1>6, <1>7, <1>9, <1>10, <1>11 DEF SweptInv, Home, Key

\* A request gets past the limiter's first check while the limiter is open.
LEMMA GotStep ==
    ASSUME Inv, [Next]_vars, NEW r \in Requests, Got(r)', ~Got(r)
    PROVE  AcquireChecks(r)
<1>1. Types /\ token[r] = "none" /\ pc[r] # "select" /\ \A s \in Requests : LoopInv(s)
  BY DEF Inv, Got
<1>2. ~Acquire(r)
  BY <1>1 DEF Acquire
<1>3. pc'[r] = "select"
  BY <1>1, <1>2, NoneKept DEF Got
<1> QED BY <1>1, <1>3, PcStep, PcMoves DEF Disconnect

\* Every step keeps requests that are past it in one session of their conversation.
LEMMA SharedStep ==
    ASSUME Inv, [Next]_vars, RegistryInv, NEW r \in Requests, NEW q \in Requests
    PROVE  SharedInv(r, q)'
<1> SUFFICES ASSUME Key(r) = Key(q), Home(r) = Home(q), Got(r)', Got(q)'
             PROVE  mine'[r] = mine'[q] \/ mine'[r] \in evicted' \/ mine'[q] \in evicted'
  BY HistoryStep DEF SharedInv, Key, Home, Inv
<1>1. /\ Types /\ LoopTypes /\ LimiterTypes /\ HandlerTypes /\ UNCHANGED <<request, scenario>>
      /\ evicted \subseteq evicted' /\ \A s \in Requests : LoopInv(s) /\ HandlerInv(s) /\ MineInv(s)
  BY HistoryStep, EvictedKept DEF Inv, Types, RegistryInv
<1>2. ASSUME NEW p \in Requests, Got(p) \/ AcquireChecks(p)
      PROVE  /\ mine'[p] = mine[p] /\ mine[p] \in Requests /\ session[mine[p]].loop # "none"
             /\ Home(mine[p]) = Home(p) /\ Key(mine[p]) = Key(p)
  <2>1. pc[p] # "session"
    BY <1>1, <1>2 DEF Got, HandlerInv, AcquireChecks
  <2>2. mine[p] \in Requests \cup {NoSession} /\ mine[p] # NoSession
    BY <1>1, <1>2, TurnLoopAssumption DEF Got, LoopTypes, MineInv, HandlerInv, AcquireChecks
  <2> QED BY <1>1, <2>1, <2>2, MineKept DEF MineInv
<1>3. CASE Got(r) /\ Got(q)
  BY <1>1, <1>2, <1>3 DEF RegistryInv, SharedInv
<1>4. ASSUME NEW p \in {r, q}, AcquireChecks(p)
      PROVE  mine'[r] = mine'[q] \/ mine'[r] \in evicted' \/ mine'[q] \in evicted'
  <2>1. Home(p) \in Instances /\ Home(r) = Home(p) /\ Home(q) = Home(p) /\ Key(r) = Key(p) /\ Key(q) = Key(p)
    BY <1>1 DEF HandlerTypes, RequestType, Home
  <2>2. ~swept[Home(p)]
    BY <1>4, <2>1 DEF AcquireChecks, RegistryInv, SweptInv
  <2>3. \A x \in {r, q} : Got(x) \/ AcquireChecks(x)
    BY GotStep
  <2>4. \A x \in {r, q} : mine[x] \notin evicted => mine[x] = registry[Home(p)][Key(p)]
    BY <1>2, <2>1, <2>2, <2>3 DEF RegistryInv, SweptInv
  <2> QED BY <1>1, <1>2, <2>3, <2>4
<1> QED BY <1>3, <1>4, GotStep

\* Every step keeps the lock, the registry and what agents read,
LEMMA SerialStep ==
    ASSUME Inv, [Next]_vars, SerialInv
    PROVE  SerialInv'
BY LockInvStep, OwnerStep, MineStep, SweptStep, SharedStep, SweepTypesStep, SeesStep
   DEF SerialInv, RegistryInv

\* as they are at first.
LEMMA SerialInit == Init => SerialInv
<1> SUFFICES ASSUME Init PROVE SerialInv
  OBVIOUS
<1>1. \A s \in Requests : session[s] = NoLoop
  BY DEF Init, LoopInit
<1>2. \A r, s \in Requests : ~Active(r, s)
  BY <1>1 DEF Active, NoLoop, At
<1>3. \A r \in Requests : pc[r] \in {"lock", "done"} /\ mine[r] = NoSession /\ token[r] = "none"
  BY DEF Init, LoopInit
<1>4. \A r \in Requests : LockInv(r)
  BY <1>3 DEF LockInv
<1>5. \A r \in Requests : history[Key(r)] = <<>>
  BY DEF Init, Key, RequestType
<1>6. SeesInv
  BY <1>2, <1>5 DEF SeesInv, TurnSeesHistory, Missed
<1>7. \A i \in Instances : SweptInv(i) /\ \A k \in Keys : OwnerInv(i, k)
  BY <1>1 DEF Init, LoopInit, SweptInv, OwnerInv, NoLoop
<1>8. \A r, q \in Requests : MineInv(r) /\ SharedInv(r, q)
  BY <1>3 DEF MineInv, SharedInv
<1>9. SweepTypes
  BY DEF Init, LoopInit, SweepTypes
<1> QED BY <1>4, <1>6, <1>7, <1>8, <1>9 DEF SerialInv, RegistryInv

\* The turns of a conversation are serial, as far as the loops, the lock and the registries
\* see to it: a turn that was committed while an answer was being made was not one of the same
\* loop; under the lock one of the two clients had been answered with an error before its turn
\* was over; and within a process the janitor had taken away the session of one of the two.
\* This holds whatever fails, whoever goes away and when processes are shut down
\* (turn_loop.go:127-134, chat_new.go:102-111, turn_loop_registry.go:152-164).
THEOREM SerialCorrect == Spec => []TurnSeesHistory
<1>1. Inv /\ SerialInv /\ [Next]_vars => SerialInv'
  BY SerialStep
<1>2. SerialInv => TurnSeesHistory
  BY DEF SerialInv, SeesInv
<1> QED BY <1>1, <1>2, SerialInit, InvHolds, PTL DEF Spec
=============================================================================
