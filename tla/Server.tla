------------------------------- MODULE Server -------------------------------
(***************************************************************************)
(* The life of server processes (src/main.go): the start builds the        *)
(* services one after the other, each with a deferred close; a panic or    *)
(* the end of the server runs the deferred closes, last one first; a       *)
(* process may also be killed.  Processes share Milvus (MilvusClient) and  *)
(* the tokens of the user (Access).                                        *)
(*                                                                         *)
(* Of a serving process one turn is kept, from its token's validation on,  *)
(* with the tools it calls, and uploads as far as they need a Milvus       *)
(* client.                                                                 *)
(***************************************************************************)
EXTENDS MilvusClient, Access

CONSTANTS
    Scenarios      \* what processes are started with and what may go wrong: see ScenarioType

VARIABLES
    pc,            \* pc[p]: where main is
    config,        \* config[p]: what p was started with
    open,          \* open[p]: services of p that are open
    defers,        \* defers[p]: the deferred closes
    hasShutdown,   \* hasShutdown[p]: is the function that stops observability there?
    admitting,     \* admitting[p]: does the run limiter of p take turns?
    turn,          \* turn[p]: the turn of p
    caller,        \* caller[p]: what p's call of NewMilvusClient is for
    starts,        \* number of starts
    scenario,      \* what this behaviour is about
    from,          \* history: from[p]: where main was when it panicked or returned
    late,          \* history: late[p]: did the controller's Close time out?
    granted        \* history: granted[g]: when a process last gave its user the grant g

processVars == <<pc, config, open, defers, hasShutdown, late, from>>
milvusVars == <<serverVars, step, connections>>
accessVars == <<clock, tokens>>
countVars == <<starts, granted, scenario>>
vars == <<processVars, admitting, turn, caller, milvusVars, accessVars, countVars>>

\* The environment of auth, the texts of the store's configuration, observability.enabled
ConfigType ==
    [env : EnvironmentType,
     store : [backend : {"", "memory", "postgres", "other"}, dsn : BOOLEAN, max : Nat,
              ttl : BOOLEAN, redis : {"", "bad", "good"}],
     otel : BOOLEAN]

ScenarioType ==
    [configs : SUBSET ConfigType,
     faults : SUBSET {"new",       \* Milvus has neither database nor collection
                      "milvus",    \* a Milvus call reports an error
                      "kill",      \* a process is killed
                      "service",   \* another service or a configuration is broken
                      "time"},     \* time passes, and tokens expire
     starts : Nat,                 \* bound: starts of processes
     calls : Nat]                  \* bound: Milvus clients a process opens while it serves

ASSUME ServerAssumption == Scenarios \subseteq ScenarioType

May(fault) == fault \in scenario.faults
NoTurn == [phase |-> "none"]
NoConfig == [started |-> FALSE]
Never == MaxClock + 1

\* ParseStoreConfig: the texts that are accepted.  A max of 0 is no text, and ttl says
\* whether cache_ttl is a positive duration.
ParseStoreConfig(v) ==
    /\ v.backend \in {"", "memory", "postgres"}
    /\ v.backend = "postgres" => v.dsn
    /\ v.max # 1
    /\ v.ttl

\* What OpenConfiguredStoreResources opens
StoreOf(v) ==
    IF v.backend # "postgres" THEN {}
    ELSE IF v.redis = "" THEN {"db"} ELSE {"db", "redis"}

\* The deferred closes of the store, in the order of main: the database, then the cache
Defer(s, v) == IF s \in StoreOf(v) THEN <<s>> ELSE <<>>
StoreDefers(v) == Defer("db", v) \o Defer("redis", v)

\* A turn waits for its lock and the limiter, is about to take its place, and runs.
Requested(p) == turn[p].phase # "none"
Running(p) == turn[p].phase = "running"
Serving(p) == pc[p] = "serve"

\* Are there handlers, of which some may be left when s.Run has returned?
Handling(p) == Serving(p) \/ (pc[p] = "unwind" /\ from[p] = "serve")
Alive(p) == pc[p] \notin {"down", "exit"}

\* What a process gives its user: roles, under a signature
Grants == {"s1", "s2"} \X SUBSET Roles
Grant(e) == <<e.secret, RolesOf(e)>>

\* The process is gone, and the system has closed what was left.
Down(p) ==
    /\ pc' = [pc EXCEPT ![p] = "down"]
    /\ config' = [config EXCEPT ![p] = NoConfig]
    /\ open' = [open EXCEPT ![p] = {}]
    /\ defers' = [defers EXCEPT ![p] = <<>>]
    /\ hasShutdown' = [hasShutdown EXCEPT ![p] = TRUE]
    /\ late' = [late EXCEPT ![p] = FALSE]
    /\ from' = [from EXCEPT ![p] = "down"]
    /\ admitting' = [admitting EXCEPT ![p] = FALSE]
    /\ turn' = [turn EXCEPT ![p] = NoTurn]
    /\ caller' = [caller EXCEPT ![p] = "none"]
    /\ step' = [step EXCEPT ![p] = Idle]
    /\ defaults' = [defaults EXCEPT ![p] = 0]
    /\ clients' = [clients EXCEPT ![p] = 0]
    /\ UNCHANGED <<serverVars, accessVars, countVars>>

\* A panic or the return of main: the deferred closes are to run.
Unwind(p) ==
    /\ pc' = [pc EXCEPT ![p] = "unwind"]
    /\ from' = [from EXCEPT ![p] = pc[p]]
    /\ UNCHANGED <<config, defers, hasShutdown, late>>

Goto(p, l) == pc' = [pc EXCEPT ![p] = l]
-----------------------------------------------------------------------------
\* LoadConfig and NewService of auth; an environment they refuse ends the process.
Start(p, c) ==
    /\ pc[p] = "down"
    /\ starts < scenario.starts
    /\ starts' = starts + 1
    /\ config' = [config EXCEPT ![p] = c]
    /\ Goto(p, IF Valid(c.env) THEN "agent" ELSE "unwind")
    /\ UNCHANGED <<open, defers, hasShutdown, late, from, admitting, turn, caller, milvusVars,
                   accessVars, granted, scenario>>

\* The MCP client, or none after an error.
GetLogMcpTool == {{"mcp"}} \cup IF May("service") THEN {{}} ELSE {}

\* newReactAgentLambda goes on without an MCP client.  Then the retriever of the graph
\* needs a Milvus client.
ReactAgent(p) ==
    /\ pc[p] = "agent"
    /\ \E mcp \in GetLogMcpTool : open' = [open EXCEPT ![p] = mcp]
    /\ Goto(p, "runtime")
    /\ caller' = [caller EXCEPT ![p] = "runtime"]
    /\ GotoCall(p, "databases")
    /\ UNCHANGED <<config, defers, hasShutdown, late, from, admitting, turn, serverVars, connections,
                   accessVars, countVars>>

\* A model, a tool or a node of the graph reports an error.  The named result that the
\* deferred functions would close is nil by then, so that an MCP client stays open.
BuildFails(p) ==
    /\ May("service")
    /\ pc[p] = "agent" \/ (pc[p] = "runtime" /\ caller[p] = "none")
    /\ \/ pc[p] = "agent" /\ \E mcp \in GetLogMcpTool : open' = [open EXCEPT ![p] = mcp]
       \/ pc[p] = "runtime" /\ UNCHANGED open
    /\ Unwind(p)
    /\ UNCHANGED <<admitting, turn, caller, milvusVars, accessVars, countVars>>

\* DoubaoEmbedding reports an error: NewMilvusRetriever closes its client.
EmbedderFails(p) ==
    /\ May("service")
    /\ pc[p] = "runtime" /\ caller[p] = "none"
    /\ clients' = [clients EXCEPT ![p] = @ - 1]
    /\ Unwind(p)
    /\ UNCHANGED <<open, admitting, turn, caller, serverVars, step, defaults, accessVars,
                   countVars>>

Compile(p) ==
    /\ pc[p] = "runtime" /\ caller[p] = "none"
    /\ Goto(p, "observability")
    /\ defers' = [defers EXCEPT ![p] = Append(@, "runtime")]
    /\ UNCHANGED <<config, open, hasShutdown, late, from, admitting, turn, caller, milvusVars,
                   accessVars, countVars>>

\* Init of observability.  What it opened before an error stays open, and the second Init,
\* which opens nothing, gives the shutdown function, unless it fails too.
Observability(p) ==
    /\ pc[p] = "observability"
    /\ \/ /\ open' = [open EXCEPT ![p] = @ \cup IF config[p].otel THEN {"trace", "meter"} ELSE {}]
          /\ UNCHANGED hasShutdown
       \/ /\ May("service")
          /\ \E lost \in IF config[p].otel THEN {{}, {"lost trace"}, {"lost trace", "lost meter"}}
                                           ELSE {{}} :
               open' = [open EXCEPT ![p] = @ \cup lost]
          /\ \E b \in BOOLEAN : hasShutdown' = [hasShutdown EXCEPT ![p] = b]
    /\ Goto(p, "store")
    /\ defers' = [defers EXCEPT ![p] = Append(@, "observability")]
    /\ UNCHANGED <<config, late, from, admitting, turn, caller, milvusVars, accessVars, countVars>>

\* Mutant: the controller is closed last.
MutServeDefers(v) == <<"controller">> \o StoreDefers(v)

\* The deferred closes that follow the store: the controller's is the last one.
ServeDefers(v) == Append(StoreDefers(v), "controller")

OpenStore(p) ==
    LET v == config[p].store IN
    /\ pc[p] = "store"
    /\ ParseStoreConfig(v)
    /\ "redis" \in StoreOf(v) => v.redis = "good"
    /\ open' = [open EXCEPT ![p] = @ \cup StoreOf(v)]
    /\ defers' = [defers EXCEPT ![p] = @ \o ServeDefers(v)]
    /\ admitting' = [admitting EXCEPT ![p] = TRUE]
    /\ Goto(p, "serve")
    /\ granted' = [granted EXCEPT ![Grant(config[p].env)] = clock]
    /\ UNCHANGED <<config, hasShutdown, late, from, turn, caller, milvusVars, accessVars, starts, scenario>>

\* The steps of OpenConfiguredStoreResources that may fail, and what is open by then
OpenedBy(stage) ==
    CASE stage = "config" -> {} [] stage = "redis url" -> {"db"} [] stage = "ping" -> {"db", "redis"}

\* Mutant: the database is forgotten.
MutClosedBy(stage) == IF stage = "config" THEN {} ELSE {"redis"}

\* What the error path of the step closes; openPostgres closes its own.
ClosedBy(stage) ==
    CASE stage = "config" -> {} [] stage = "redis url" -> {"db"} [] stage = "ping" -> {"db", "redis"}

Stages(v) ==
    {"config"} \cup (IF "redis" \in StoreOf(v) THEN {IF v.redis = "bad" THEN "redis url" ELSE "ping"}
                                              ELSE {})

\* file_dir or the configuration of the store is refused, or PostgreSQL or Redis is away.
OpenStoreFails(p) ==
    /\ pc[p] = "store"
    /\ May("service")
    /\ \E stage \in Stages(config[p].store) :
         open' = [open EXCEPT ![p] = @ \cup (OpenedBy(stage) \ ClosedBy(stage))]
    /\ Unwind(p)
    /\ UNCHANGED <<admitting, turn, caller, milvusVars, accessVars, countVars>>
-----------------------------------------------------------------------------
MilvusStep(p) ==
    /\ Alive(p)
    /\ Connecting(p)
    /\ UNCHANGED <<processVars, admitting, turn, caller, accessVars, countVars>>

\* The client is there.  The graph goes on; a tool and an upload never close theirs.
MilvusConnected(p) ==
    /\ Alive(p)
    /\ LoadCollection(p)
    /\ caller' = [caller EXCEPT ![p] = "none"]
    /\ UNCHANGED <<processVars, admitting, turn, accessVars, countVars>>

\* A call of the server fails, or cannot but fail.
MilvusMayFail(p) ==
    \/ May("milvus")
    \/ At(p, "create database") /\ database
    \/ At(p, "create collection") /\ collection
    \/ At(p, "load") /\ "vector" \notin indexes

\* There is no client: a start panics, an upload returns the error.
MilvusFails(p) ==
    /\ caller[p] \in {"runtime", "upload"}
    /\ MilvusMayFail(p)
    /\ NewMilvusClientFails(p)
    /\ caller' = [caller EXCEPT ![p] = "none"]
    /\ IF caller[p] = "runtime"
         THEN Unwind(p)
         ELSE UNCHANGED <<pc, config, defers, hasShutdown, late, from>>
    /\ UNCHANGED <<open, admitting, turn, accessVars, countVars>>

\* query_internal_docs has no client or no documents: log.Fatal.
Fatal(p) ==
    /\ caller[p] = "tool"
    /\ MilvusMayFail(p)
    /\ Down(p)

LoginRequest(p) ==
    /\ Handling(p)
    /\ Login(config[p].env)
    /\ UNCHANGED <<processVars, admitting, turn, caller, milvusVars, countVars>>

\* The middleware lets a request with a valid token through, others get 401.  The turn is to
\* wait for the lock of its conversation and for the limiter, however long.
Authenticate(p, t) ==
    /\ Handling(p)
    /\ ~Requested(p)
    /\ Validate(config[p].env, t)
    /\ turn' = [turn EXCEPT ![p] = [phase |-> "waiting", roles |-> t.roles, at |-> clock, tools |-> {}]]
    /\ UNCHANGED <<processVars, admitting, caller, milvusVars, accessVars, countVars>>

\* Acquire finds the limiter open, which may be closed before it takes the place.
Admit(p) ==
    /\ turn[p].phase = "waiting"
    /\ admitting[p]
    /\ turn' = [turn EXCEPT ![p].phase = "admitted"]
    /\ UNCHANGED <<processVars, admitting, caller, milvusVars, accessVars, countVars>>

\* The turn has its place, and its loop, which the controller's Close stops, takes it up with
\* the context of its own request.
BeginTurn(p) ==
    /\ turn[p].phase = "admitted"
    /\ "controller" \in ToSet(defers[p])
    /\ turn' = [turn EXCEPT ![p].phase = "running"]
    /\ UNCHANGED <<processVars, admitting, caller, milvusVars, accessVars, countVars>>

\* newReactAgentLambda gives its tools one of two policies: one tool of each.
Policy == [query_internal_docs |-> {}, mysql_crud |-> {"operator", "admin"}]

\* The model calls a tool; query_internal_docs opens a Milvus client of its own.
CallTool(p, tool) ==
    /\ Alive(p) /\ Running(p)
    /\ caller[p] = "none"
    /\ toolAllowed(Policy[tool], turn[p].roles)
    /\ turn' = [turn EXCEPT ![p].tools = @ \cup {tool}]
    /\ IF tool = "query_internal_docs"
         THEN /\ clients[p] <= scenario.calls
              /\ caller' = [caller EXCEPT ![p] = "tool"]
              /\ GotoCall(p, "databases")
         ELSE UNCHANGED <<caller, step>>
    /\ UNCHANGED <<processVars, admitting, serverVars, connections, accessVars, countVars>>

\* The answer, an error, or a client that does not wait any longer.
EndTurn(p) ==
    /\ Alive(p) /\ Requested(p)
    /\ caller[p] # "tool"
    /\ turn' = [turn EXCEPT ![p] = NoTurn]
    /\ UNCHANGED <<processVars, admitting, caller, milvusVars, accessVars, countVars>>

Upload(p) ==
    /\ Serving(p)
    /\ caller[p] = "none"
    /\ clients[p] <= scenario.calls /\ defaults[p] < scenario.calls
    /\ caller' = [caller EXCEPT ![p] = "upload"]
    /\ GotoCall(p, "databases")
    /\ UNCHANGED <<processVars, admitting, turn, serverVars, connections, accessVars, countVars>>
-----------------------------------------------------------------------------
\* s.Run returns.
StopServing(p) ==
    /\ Serving(p)
    /\ Unwind(p)
    /\ UNCHANGED <<open, admitting, turn, caller, milvusVars, accessVars, countVars>>

\* The controller's Close closes the limiter and then waits for the loops.
CloseLimiter(p) ==
    /\ pc[p] = "unwind" /\ admitting[p]
    /\ admitting' = [admitting EXCEPT ![p] = FALSE]
    /\ UNCHANGED <<processVars, turn, caller, milvusVars, accessVars, countVars>>

\* The shutdown of observability, if Init gave one.
shutdown(p) == IF hasShutdown[p] THEN {"trace", "meter"} ELSE {}

\* What the deferred closes other than the controller's close
Closes(p, d) == CASE d = "runtime" -> {"mcp"} [] d = "observability" -> shutdown(p)
                  [] d \in {"db", "redis"} -> {d}

RunDeferred(p) ==
    LET d == Last(defers[p]) IN
    /\ pc[p] = "unwind"
    /\ defers[p] # <<>>
    /\ defers' = [defers EXCEPT ![p] = Front(@)]
    /\ IF d = "controller"
         THEN /\ ~admitting[p]
              /\ late' = [late EXCEPT ![p] = Running(p)]   \* or the wait has an end before
              /\ UNCHANGED open
         ELSE /\ open' = [open EXCEPT ![p] = @ \ Closes(p, d)]
              /\ UNCHANGED late
    /\ UNCHANGED <<pc, config, hasShutdown, from, admitting, turn, caller, milvusVars,
                   accessVars, countVars>>

Exit(p) ==
    /\ pc[p] = "unwind"
    /\ defers[p] = <<>>
    /\ Goto(p, "exit")
    /\ turn' = [turn EXCEPT ![p] = NoTurn]
    /\ UNCHANGED <<config, open, defers, hasShutdown, late, from, admitting, caller, milvusVars,
                   accessVars, countVars>>

\* A process is killed, at any time, or has ended.
Kill(p) ==
    /\ pc[p] = "exit" \/ (pc[p] # "down" /\ May("kill"))
    /\ Down(p)

\* A second passes.
Tick ==
    /\ May("time")
    /\ clock < MaxClock
    /\ clock' = clock + 1
    /\ granted' = [g \in Grants |->
                     IF \E p \in Processes : Handling(p) /\ Grant(config[p].env) = g
                       THEN clock' ELSE granted[g]]
    /\ UNCHANGED <<processVars, admitting, turn, caller, milvusVars, tokens, starts, scenario>>
-----------------------------------------------------------------------------
Init ==
    /\ scenario \in Scenarios
    /\ MilvusInit(~May("new"))
    /\ clock = 0 /\ tokens = {}
    /\ pc = [p \in Processes |-> "down"]
    /\ config = [p \in Processes |-> NoConfig]
    /\ open = [p \in Processes |-> {}]
    /\ defers = [p \in Processes |-> <<>>]
    /\ hasShutdown = [p \in Processes |-> TRUE]
    /\ late = [p \in Processes |-> FALSE]
    /\ from = [p \in Processes |-> "down"]
    /\ admitting = [p \in Processes |-> FALSE]
    /\ turn = [p \in Processes |-> NoTurn]
    /\ caller = [p \in Processes |-> "none"]
    /\ starts = 0
    /\ granted = [g \in Grants |-> Never]

Starting(p) ==
    \/ \E c \in scenario.configs : Start(p, c)
    \/ ReactAgent(p) \/ BuildFails(p) \/ EmbedderFails(p) \/ Compile(p)
    \/ Observability(p) \/ OpenStore(p) \/ OpenStoreFails(p)

Requests(p) ==
    \/ LoginRequest(p)
    \/ \E t \in tokens : Authenticate(p, t)
    \/ Admit(p)
    \/ BeginTurn(p)
    \/ \E tool \in DOMAIN Policy : CallTool(p, tool)
    \/ EndTurn(p)
    \/ Upload(p)

Milvus(p) == MilvusStep(p) \/ MilvusConnected(p) \/ MilvusFails(p) \/ Fatal(p)

Ending(p) == StopServing(p) \/ CloseLimiter(p) \/ RunDeferred(p) \/ Exit(p) \/ Kill(p)

Over ==
    /\ starts = scenario.starts
    /\ \A p \in Processes : pc[p] = "down"
    /\ UNCHANGED vars

Next ==
    \/ \E p \in Processes : Starting(p) \/ Requests(p) \/ Milvus(p) \/ Ending(p)
    \/ Tick
    \/ Over

Spec == Init /\ [][Next]_vars
-----------------------------------------------------------------------------
Resources == {"mcp", "trace", "meter", "lost trace", "lost meter", "db", "redis"}
Deferred == {"runtime", "observability", "db", "redis", "controller"}

\* Types; a process is in a call of NewMilvusClient exactly when someone waits for it, and
\* what main.go:21-111 defers is deferred once.
TypeOK ==
    /\ MilvusTypeOK
    /\ clock \in 0 .. MaxClock
    /\ tokens \subseteq TokenType
    /\ pc \in [Processes -> {"down", "agent", "runtime", "observability", "store", "serve",
                             "unwind", "exit"}]
    /\ \A p \in Processes :
         /\ open[p] \subseteq Resources
         /\ ToSet(defers[p]) \subseteq Deferred /\ IsInjective(defers[p])
         /\ (caller[p] = "none") <=> (step[p].call = "none")
    /\ starts \in 0 .. scenario.starts

\* A process that serves finds the collection with all its indexes, whatever other
\* processes created, left half created or are creating (client.go:49-111): the vector
\* index, which the load needs, is the last one that is made.
CollectionReady ==
    \A p \in Processes : Serving(p) => database /\ collection /\ indexes = ToSet(Fields)

\* What a turn uses stays open until it has ended or the wait for it has timed out
\* (main.go:38-111, chat_new.go:113-124): the deferred closes run in the right order, and
\* no turn begins behind the controller's Close.
TurnsServed ==
    \A p \in Processes :
        Running(p) /\ ~late[p] =>
            /\ StoreOf(config[p].store) \subseteq open[p]
            /\ "runtime" \in ToSet(defers[p])
            /\ "observability" \in ToSet(defers[p])

\* When main has ended, by return or by a panic of any step of the start, the connections to
\* PostgreSQL and Redis are closed, and so is the MCP client if the runtime had been built
\* (main.go:38-97, config.go:93-136, runtime.go:36-51).  The Milvus clients are not.
ExitClean ==
    \A p \in Processes :
        pc[p] = "exit" =>
            /\ open[p] \cap {"db", "redis"} = {}
            /\ "mcp" \in open[p] => from[p] \in {"agent", "runtime"}
            /\ hasShutdown[p] => open[p] \cap {"trace", "meter"} = {}

\* Was the user given the roles r, under the secret of p, by a process that could still be
\* asked less than a token's life before p's turn was let in?
Current(p, r) ==
    \E c \in scenario.configs :
        /\ Valid(c.env)
        /\ Grant(c.env) = <<config[p].env.secret, r>>
        /\ granted[Grant(c.env)] # Never
        /\ turn[p].at < granted[Grant(c.env)] + c.env.ttl

\* The roles a turn is let in with are those that a process with the secret of the turn's own
\* process gave, less than a token's life before (service.go:105-154, middleware.go:11-28):
\* changing the roles and restarting every process, or rotating the secret of one, has its
\* effect in time on what is let in.  A turn that has been let in keeps its roles however long
\* it waits for its lock and its place.
PrincipalCurrent == \A p \in Processes : Requested(p) => Current(p, turn[p].roles)

\* A tool with roles in its policy has run in a turn only when the turn's own user was given
\* one of them, under the secret of the turn's process, that late (policy.go:46-70,
\* flow.go:49-73): a role that has been taken away opens no tool to what is let in after.
ToolsPermitted ==
    \A p \in Processes :
        Requested(p) =>
            \A tool \in turn[p].tools :
                Policy[tool] # {} =>
                    turn[p].roles \cap Policy[tool] # {} /\ Current(p, turn[p].roles)
=============================================================================
