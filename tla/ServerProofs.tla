---------------------------- MODULE ServerProofs ----------------------------
(***************************************************************************)
(* A serving process has its collection, the services of its turns and     *)
(* users with current roles, and an ending one closes what it opened, for  *)
(* any processes, configurations, roles and failures.                      *)
(***************************************************************************)
EXTENDS Server, SequenceTheorems, TLAPS

Places == {"down", "agent", "runtime", "observability", "store", "serve", "unwind", "exit"}
Tools == {"query_internal_docs", "mysql_crud"}
TurnType == {NoTurn} \cup [phase : {"waiting", "admitted", "running"}, roles : SUBSET Roles,
                           at : Nat, tools : SUBSET Tools]

\* Types, in parts.
MainTypes ==
    /\ pc \in [Processes -> Places]
    /\ config \in [Processes -> ConfigType \cup {NoConfig}]
    /\ scenario \in ScenarioType
    /\ from \in [Processes -> Places]
ServiceTypes ==
    /\ open \in [Processes -> SUBSET Resources]
    /\ defers \in [Processes -> Seq(Deferred)]
    /\ hasShutdown \in [Processes -> BOOLEAN]
TurnTypes ==
    /\ admitting \in [Processes -> BOOLEAN]
    /\ late \in [Processes -> BOOLEAN]
    /\ turn \in [Processes -> TurnType]
    /\ caller \in [Processes -> {"none", "runtime", "tool", "upload"}]
CallTypes ==
    step \in [Processes -> [call : Calls \cup {"none"}, index : 1 .. 3]]
AccessTypes ==
    /\ clock \in 0 .. MaxClock
    /\ tokens \subseteq TokenType
    /\ granted \in [Grants -> Nat]
Types == MainTypes /\ ServiceTypes /\ TurnTypes /\ CallTypes /\ AccessTypes

\* A call of NewMilvusClient has found or created what it has passed, and the vector field's
\* index is the last one.
Ready == database /\ collection /\ {"id", "content", "vector"} \subseteq indexes
CallInv(p) ==
    /\ step[p].call \in {"collections", "create collection", "index", "load"} => database
    /\ step[p].call \in {"index", "load"} => collection
    /\ step[p].call = "index" => \A n \in 1 .. step[p].index - 1 : Fields[n] \in indexes
IndexInv ==
    /\ indexes \subseteq {"id", "content", "vector"}
    /\ "vector" \in indexes => {"id", "content"} \subseteq indexes

\* A process that has its client, and who else waits for one.
ReadyInv(p) ==
    /\ pc[p] \in {"observability", "store", "serve"} => Ready
    /\ pc[p] = "runtime" /\ caller[p] = "none" => Ready
    /\ pc[p] \in {"down", "agent", "observability", "store"} => caller[p] = "none"
    /\ pc[p] = "runtime" => caller[p] \in {"runtime", "none"}
    /\ caller[p] = "runtime" => pc[p] = "runtime"
    /\ Requested(p) => pc[p] \in {"serve", "unwind"}

\* What a process that serves has deferred
AllDefers(v) == <<"runtime", "observability">> \o ServeDefers(v)
Whole(p) ==
    /\ defers[p] = AllDefers(config[p].store)
    /\ StoreOf(config[p].store) \subseteq open[p]
DefersInv(p) ==
    /\ pc[p] \in {"down", "agent", "runtime"} => defers[p] = <<>>
    /\ pc[p] = "observability" => defers[p] = <<"runtime">>
    /\ pc[p] = "store" => defers[p] = <<"runtime", "observability">>
    /\ pc[p] = "exit" => defers[p] = <<>>
    /\ pc[p] \notin {"unwind", "exit"} => ~late[p]
    /\ pc[p] = "serve" => admitting[p]
    /\ pc[p] \notin {"serve", "unwind"} => ~admitting[p]
    /\ admitting[p] => ~late[p]
    /\ admitting[p] => Whole(p)
    /\ Running(p) /\ ~late[p] => Whole(p)

\* As long as the loops run, everything is deferred and open.
LoopsInv(p) == "controller" \in ToSet(defers[p]) => Whole(p) /\ ~late[p]

\* What is open is closed by something deferred, but for what a failed start loses.
OpenInv(p) ==
    /\ pc[p] \in {"down", "agent"} => open[p] = {}
    /\ open[p] \cap {"db", "redis"} \subseteq ToSet(defers[p])
    /\ "mcp" \in open[p] =>
          \/ pc[p] = "runtime"
          \/ "runtime" \in ToSet(defers[p])
          \/ pc[p] \in {"unwind", "exit"} /\ from[p] \in {"agent", "runtime"}
    /\ hasShutdown[p] /\ open[p] \cap {"trace", "meter"} # {} => "observability" \in ToSet(defers[p])

\* What a process was started with, and what it gives its user
ConfigInv(p) ==
    /\ pc[p] # "down" => config[p] \in scenario.configs
    /\ pc[p] = "down" => from[p] = "down"
    /\ pc[p] \in {"agent", "runtime", "observability", "store"} \/ Handling(p) => Valid(config[p].env)
    /\ Handling(p) => granted[Grant(config[p].env)] = clock

\* What a token shows
Shown(t) == <<t.secret, t.roles>>
GrantInv ==
    /\ \A g \in Grants : granted[g] = Never \/ granted[g] <= clock
    /\ \A t \in tokens :
          /\ granted[Shown(t)] # Never /\ t.issued <= granted[Shown(t)]
          /\ \E c \in scenario.configs :
                /\ Valid(c.env) /\ Grant(c.env) = Shown(t)
                /\ t.expires = t.issued + c.env.ttl
TurnInv(p) ==
    Requested(p) =>
        /\ Current(p, turn[p].roles)
        /\ \A tool \in turn[p].tools : toolAllowed(Policy[tool], turn[p].roles)

MilvusInv == IndexInv /\ \A p \in Processes : CallInv(p) /\ ReadyInv(p)
ServiceInv == \A p \in Processes : DefersInv(p) /\ OpenInv(p) /\ LoopsInv(p)
AccessInv == GrantInv /\ \A p \in Processes : ConfigInv(p) /\ TurnInv(p)
Inv == Types /\ MilvusInv /\ ServiceInv /\ AccessInv
-----------------------------------------------------------------------------
\* The elements of a sequence without its last one,
LEMMA FrontSet ==
    ASSUME NEW S, NEW q \in Seq(S), q # <<>>
    PROVE  /\ Front(q) \in Seq(S) /\ Last(q) \in S
           /\ ToSet(q) = ToSet(Front(q)) \cup {Last(q)}
<1>1. Len(q) \in Nat /\ Len(q) > 0 /\ DOMAIN q = 1 .. Len(q)
  OBVIOUS
<1>2. Front(q) \in Seq(S) /\ DOMAIN Front(q) = 1 .. Len(q) - 1
      /\ \A i \in 1 .. Len(q) - 1 : Front(q)[i] = q[i]
  BY <1>1 DEF Front
<1>3. ToSet(q) \subseteq ToSet(Front(q)) \cup {Last(q)}
  <2> SUFFICES ASSUME NEW i \in 1 .. Len(q) PROVE q[i] \in ToSet(Front(q)) \cup {Last(q)}
    BY <1>1 DEF ToSet
  <2> QED BY <1>1, <1>2 DEF ToSet, Last
<1>4. Last(q) \in S /\ Last(q) \in ToSet(q) /\ ToSet(Front(q)) \subseteq ToSet(q)
  BY <1>1, <1>2 DEF ToSet, Last
<1> QED BY <1>2, <1>3, <1>4

\* with one more,
LEMMA AppendSet ==
    ASSUME NEW S, NEW q \in Seq(S), NEW x \in S
    PROVE  ToSet(Append(q, x)) = ToSet(q) \cup {x} /\ Last(Append(q, x)) = x
<1>1. PICK c : c = Append(q, x)
  OBVIOUS
<1>2. /\ c \in Seq(S) /\ DOMAIN c = 1 .. Len(q) + 1 /\ c[Len(q) + 1] = x
      /\ Len(c) = Len(q) + 1
      /\ \A i \in 1 .. Len(q) : c[i] = q[i]
  BY <1>1
<1>3. ToSet(c) \subseteq ToSet(q) \cup {x}
  <2> SUFFICES ASSUME NEW i \in 1 .. Len(q) + 1 PROVE c[i] \in ToSet(q) \cup {x}
    BY <1>2 DEF ToSet
  <2> QED BY <1>2 DEF ToSet
<1>4. ToSet(q) \cup {x} \subseteq ToSet(c)
  BY <1>2 DEF ToSet
<1> QED BY <1>1, <1>2, <1>3, <1>4 DEF Last

Both(q, b) == q \o b

\* and of two sequences, one after the other.
LEMMA ConcatSet ==
    ASSUME NEW S, NEW q \in Seq(S), NEW b \in Seq(S)
    PROVE  /\ ToSet(Both(q, b)) = ToSet(q) \cup ToSet(b) /\ Both(q, b) \in Seq(S)
           /\ b # <<>> => Last(Both(q, b)) = Last(b) /\ Both(q, b) # <<>>
<1> PICK c : c = q \o b
  OBVIOUS
<1>0. Both(q, b) = c
  BY DEF Both
<1>1. PICK m \in Nat, l \in Nat :
         /\ m = Len(q) /\ l = Len(b) /\ DOMAIN q = 1 .. m /\ DOMAIN b = 1 .. l
         /\ DOMAIN c = 1 .. m + l /\ c \in Seq(S) /\ Len(c) = m + l
         /\ \A n \in 1 .. m : c[n] = q[n]
         /\ \A n \in 1 .. l : c[n + m] = b[n]
         /\ \A n \in 1 .. m + l : n > m => c[n] = b[n - m] /\ n - m \in 1 .. l
  OBVIOUS
<1>2. \A n \in DOMAIN c : \/ n \in DOMAIN q /\ c[n] = q[n]
                          \/ n > m /\ n - m \in DOMAIN b /\ c[n] = b[n - m]
  BY <1>1
<1>3. (\A n \in DOMAIN q : n \in DOMAIN c) /\ \A n \in DOMAIN b : n + m \in DOMAIN c
  BY <1>1
<1>4. ToSet(c) = ToSet(q) \cup ToSet(b)
  BY <1>1, <1>2, <1>3 DEF ToSet
<1>5. ASSUME b # <<>> PROVE Last(c) = Last(b) /\ c # <<>>
  <2>1. l > 0
    BY <1>1, <1>5
  <2>2. c[l + m] = b[l] /\ m + l = l + m /\ m + l # 0
    BY <1>1, <2>1
  <2> QED BY <1>1, <2>2 DEF Last
<1> QED BY <1>0, <1>1, <1>4, <1>5

\* A service of the store is deferred exactly when it is opened.
LEMMA DeferSet ==
    ASSUME NEW v, NEW s \in {"db", "redis"}
    PROVE  Defer(s, v) \in Seq(Deferred) /\ ToSet(Defer(s, v)) = StoreOf(v) \cap {s}
<1>1. PICK o : o = <<s>>
  OBVIOUS
<1>2. o \in Seq(Deferred) /\ ToSet(o) = {s}
  BY <1>1 DEF Deferred, ToSet
<1>3. PICK n : n = <<>>
  OBVIOUS
<1>4. n \in Seq(Deferred) /\ ToSet(n) = {}
  BY <1>3 DEF ToSet
<1>5. Defer(s, v) = IF s \in StoreOf(v) THEN o ELSE n
  BY <1>1, <1>3 DEF Defer
<1> QED BY <1>2, <1>4, <1>5

\* The controller's close is the first to run, and there is one for whatever is open.
LEMMA AllDeferred ==
    ASSUME NEW v
    PROVE  /\ ServeDefers(v) \in Seq(Deferred)
           /\ AllDefers(v) \in Seq(Deferred) /\ AllDefers(v) # <<>>
           /\ Last(AllDefers(v)) = "controller"
           /\ ToSet(AllDefers(v)) = {"runtime", "observability", "controller"} \cup StoreOf(v)
<1>1. PICK x, y : x = Defer("db", v) /\ y = Defer("redis", v)
  OBVIOUS
<1>2. x \in Seq(Deferred) /\ ToSet(x) = StoreOf(v) \cap {"db"}
  BY <1>1, DeferSet
<1>3. y \in Seq(Deferred) /\ ToSet(y) = StoreOf(v) \cap {"redis"}
  BY <1>1, DeferSet
<1>4. PICK c : c = Both(x, y)
  OBVIOUS
<1>5. c \in Seq(Deferred) /\ ToSet(c) = ToSet(x) \cup ToSet(y)
  <2>1. x \in Seq(Deferred) /\ y \in Seq(Deferred)
    BY <1>2, <1>3
  <2> QED BY <1>4, <2>1, ConcatSet
<1>6. StoreOf(v) \subseteq {"db", "redis"}
  BY DEF StoreOf
<1>7. ToSet(c) = StoreOf(v)
  BY <1>2, <1>3, <1>5, <1>6
<1>8. PICK d : d = Append(c, "controller")
  OBVIOUS
<1>9. /\ d \in Seq(Deferred) /\ d # <<>>
      /\ ToSet(d) = StoreOf(v) \cup {"controller"} /\ Last(d) = "controller"
  <2>1. "controller" \in Deferred
    BY DEF Deferred
  <2>2. ToSet(d) = ToSet(c) \cup {"controller"} /\ Last(d) = "controller"
    BY <1>5, <1>8, <2>1, AppendSet
  <2>3. d \in Seq(Deferred) /\ d # <<>>
    BY <1>5, <1>8, <2>1
  <2> QED BY <1>7, <2>2, <2>3
<1>10. PICK a : a = <<"runtime", "observability">>
  OBVIOUS
<1>11. a \in Seq(Deferred) /\ ToSet(a) = {"runtime", "observability"}
  BY <1>10 DEF Deferred, ToSet
<1>12. PICK e : e = Both(a, d)
  OBVIOUS
<1>13. /\ ToSet(e) = ToSet(a) \cup ToSet(d) /\ e \in Seq(Deferred)
       /\ Last(e) = Last(d) /\ e # <<>>
  <2>1. a \in Seq(Deferred) /\ d \in Seq(Deferred) /\ d # <<>>
    BY <1>9, <1>11
  <2> QED BY <1>12, <2>1, ConcatSet
<1>14. AllDefers(v) = e /\ ServeDefers(v) = d
  BY <1>1, <1>4, <1>8, <1>10, <1>12 DEF AllDefers, ServeDefers, StoreDefers, Both
<1> QED BY <1>9, <1>11, <1>13, <1>14
\* Two sequences without repetitions and with nothing in common have none together.
LEMMA ConcatDistinct ==
    ASSUME NEW S, NEW q \in Seq(S), NEW b \in Seq(S), IsInjective(q), IsInjective(b),
           ToSet(q) \cap ToSet(b) = {}
    PROVE  IsInjective(Both(q, b))
<1>0. Len(q) \in Nat /\ Len(b) \in Nat
  OBVIOUS
<1>1. PICK c, m, l : c = q \o b /\ m = Len(q) /\ l = Len(b)
  OBVIOUS
<1>2. m \in Nat /\ l \in Nat /\ DOMAIN q = 1 .. m /\ DOMAIN b = 1 .. l /\ DOMAIN c = 1 .. m + l
  BY <1>0, <1>1
<1>3. \A n \in DOMAIN c : n <= m => n \in DOMAIN q /\ c[n] = q[n]
  BY <1>0, <1>1
<1>4. \A n \in DOMAIN c : ~(n <= m) => n - m \in DOMAIN b /\ c[n] = b[n - m]
  BY <1>0, <1>1
<1>5. ASSUME NEW i \in DOMAIN c, NEW j \in DOMAIN c, c[i] = c[j] PROVE i = j
  <2>1. CASE i <= m /\ j <= m
    BY <1>3, <1>5, <2>1, Zenon DEF IsInjective
  <2>2. CASE ~(i <= m) /\ ~(j <= m)
    <3>1. i - m = j - m
      BY <1>4, <1>5, <2>2, Zenon DEF IsInjective
    <3>2. i \in Nat /\ j \in Nat
      BY <1>2
    <3> QED BY <1>2, <3>1, <3>2
  <2>3. CASE i <= m /\ ~(j <= m)
    <3>1. c[i] \in ToSet(q) /\ c[j] \in ToSet(b)
      BY <1>3, <1>4, <2>3, Zenon DEF ToSet
    <3> QED BY <1>5, <3>1
  <2>4. CASE ~(i <= m) /\ j <= m
    <3>1. c[i] \in ToSet(b) /\ c[j] \in ToSet(q)
      BY <1>3, <1>4, <2>4, Zenon DEF ToSet
    <3> QED BY <1>5, <3>1
  <2> QED BY <2>1, <2>2, <2>3, <2>4, Zenon
<1>6. Both(q, b) = c
  BY <1>1 DEF Both
<1> QED BY <1>5, <1>6, Zenon DEF IsInjective

\* What a serving process has deferred has none.
LEMMA AllDistinct ==
    ASSUME NEW v
    PROVE  IsInjective(AllDefers(v))
<1>1. PICK x, y, c, a, e : /\ x = Defer("db", v) /\ y = Defer("redis", v) /\ c = <<"controller">>
                           /\ a = <<"runtime", "observability">> /\ e = <<>>
  OBVIOUS
<1>2. /\ x \in Seq(Deferred) /\ ToSet(x) \subseteq {"db"}
      /\ y \in Seq(Deferred) /\ ToSet(y) \subseteq {"redis"}
  BY <1>1, DeferSet
<1>3. /\ c \in Seq(Deferred) /\ ToSet(c) = {"controller"} /\ IsInjective(c)
      /\ a \in Seq(Deferred) /\ ToSet(a) = {"runtime", "observability"} /\ IsInjective(a)
      /\ IsInjective(e)
  BY <1>1 DEF Deferred, ToSet, IsInjective
<1>4. IsInjective(x) /\ IsInjective(y)
  <2>1. PICK d, r : d = <<"db">> /\ r = <<"redis">>
    OBVIOUS
  <2>2. IsInjective(d) /\ IsInjective(r)
    BY <2>1 DEF IsInjective
  <2>3. x \in {d, e} /\ y \in {r, e}
    BY <1>1, <2>1 DEF Defer
  <2> QED BY <1>3, <2>2, <2>3
<1>5. PICK s : s = Both(x, y)
  OBVIOUS
<1>6. s \in Seq(Deferred) /\ ToSet(s) = ToSet(x) \cup ToSet(y) /\ IsInjective(s)
  <2>1. ToSet(x) \cap ToSet(y) = {}
    BY <1>2
  <2> QED BY <1>2, <1>4, <1>5, <2>1, ConcatSet, ConcatDistinct
<1>7. PICK t : t = Both(s, c)
  OBVIOUS
<1>8. t \in Seq(Deferred) /\ ToSet(t) = ToSet(s) \cup ToSet(c) /\ IsInjective(t)
  <2>1. ToSet(s) \cap ToSet(c) = {}
    BY <1>2, <1>3, <1>6
  <2> QED BY <1>3, <1>6, <1>7, <2>1, ConcatSet, ConcatDistinct
<1>9. IsInjective(Both(a, t))
  <2>1. ToSet(a) \cap ToSet(t) = {}
    BY <1>2, <1>3, <1>6, <1>8
  <2> QED BY <1>3, <1>8, <2>1, ConcatDistinct
<1>10. AllDefers(v) = Both(a, t)
  <2>1. t = Append(s, "controller")
    BY <1>1, <1>6, <1>7 DEF Both
  <2> QED BY <1>1, <1>5, <2>1, Zenon DEF AllDefers, ServeDefers, StoreDefers, Both
<1> QED BY <1>9, <1>10

\* When the controller has been closed, its close is no longer deferred.
LEMMA FrontOfAll ==
    ASSUME NEW v
    PROVE  "controller" \notin ToSet(Front(AllDefers(v)))
<1>1. PICK q : q = AllDefers(v)
  OBVIOUS
<1>2. q \in Seq(Deferred) /\ q # <<>> /\ Last(q) = "controller" /\ IsInjective(q)
  BY <1>1, AllDeferred, AllDistinct
<1>3. PICK m \in Nat : m = Len(q) /\ DOMAIN q = 1 .. m /\ m > 0
  BY <1>2
<1>4. PICK f : f = Front(q)
  OBVIOUS
<1>5. DOMAIN f = 1 .. m - 1 /\ \A n \in 1 .. m - 1 : f[n] = q[n]
  BY <1>2, <1>3, <1>4 DEF Front
<1>6. q[m] = "controller" /\ m \in DOMAIN q
  BY <1>2, <1>3 DEF Last
<1>7. \A n \in DOMAIN f : n \in DOMAIN q /\ n # m /\ f[n] = q[n]
  BY <1>3, <1>5
<1>8. \A n \in DOMAIN f : f[n] # "controller"
  BY <1>2, <1>6, <1>7, Zenon DEF IsInjective
<1>9. "controller" \notin ToSet(f)
  BY <1>8, Zenon DEF ToSet
<1> QED BY <1>1, <1>4, <1>9
-----------------------------------------------------------------------------
\* The configurations of a scenario are configurations.
LEMMA ScenarioFacts ==
    ASSUME scenario \in ScenarioType
    PROVE  scenario.configs \subseteq ConfigType
BY DEF ScenarioType

\* The roles of a configuration are roles, and so is what it grants.
LEMMA ConfigFacts ==
    ASSUME NEW c \in ConfigType
    PROVE  /\ c.env \in EnvironmentType /\ RolesOf(c.env) \in SUBSET Roles
           /\ Valid(c.env) => Grant(c.env) \in Grants
<1>1. c.env \in EnvironmentType
  BY DEF ConfigType
<1>2. c.env.roles \in SUBSET Roles
  BY <1>1 DEF EnvironmentType
<1>3. RolesOf(c.env) \in SUBSET Roles
  BY <1>2, AccessAssumption DEF RolesOf
<1>4. Valid(c.env) => c.env.secret \in {"s1", "s2"}
  BY <1>1 DEF EnvironmentType, Valid
<1> QED BY <1>1, <1>3, <1>4 DEF Grant, Grants

\* A token shows a grant.
LEMMA TokenFacts ==
    ASSUME NEW t \in TokenType
    PROVE  /\ t.roles \in SUBSET Roles /\ t.issued \in Nat /\ t.expires \in Nat
           /\ Shown(t) \in Grants
<1>1. t.roles \in SUBSET Roles /\ t.secret \in {"s1", "s2"} /\ t.issued \in 0 .. MaxClock
      /\ t.expires \in Nat
  BY DEF TokenType
<1> QED BY <1>1, AccessAssumption DEF Shown, Grants

\* No turn is one of the type that nobody has asked for.
LEMMA NoTurnFacts == NoTurn \in TurnType /\ NoTurn.phase = "none"
BY DEF TurnType, NoTurn

\* A turn that has called one more tool, or goes on, is the same turn otherwise.
LEMMA TurnFacts ==
    ASSUME NEW t \in TurnType, t.phase # "none"
    PROVE  /\ t.roles \in SUBSET Roles /\ t.at \in Nat /\ t.tools \in SUBSET Tools
           /\ \A tool \in Tools : LET u == [t EXCEPT !.tools = @ \cup {tool}] IN
                /\ u \in TurnType /\ u.phase = t.phase /\ u.roles = t.roles /\ u.at = t.at
                /\ u.tools = t.tools \cup {tool}
           /\ \A l \in {"admitted", "running"} : LET u == [t EXCEPT !.phase = l] IN
                /\ u \in TurnType /\ u.phase = l /\ u.roles = t.roles /\ u.at = t.at
                /\ u.tools = t.tools
<1>1. t \in [phase : {"waiting", "admitted", "running"}, roles : SUBSET Roles, at : Nat,
            tools : SUBSET Tools]
  BY NoTurnFacts DEF TurnType
<1> QED BY <1>1 DEF TurnType

\* The record of a request that has been let in is a turn.
LEMMA NewTurn ==
    ASSUME NEW r \in SUBSET Roles, NEW n \in Nat
    PROVE  LET t == [phase |-> "waiting", roles |-> r, at |-> n, tools |-> {}] IN
           t \in TurnType /\ t.phase = "waiting" /\ t.roles = r /\ t.at = n /\ t.tools = {}
BY DEF TurnType

\* Every step keeps the types of the place of main,
LEMMA MainTyped == Types /\ Next => MainTypes'
<1> SUFFICES ASSUME Types, Next PROVE MainTypes'
  OBVIOUS
<1> USE DEF MainTypes, Types, Places
<1>1. ASSUME NEW p \in Processes,
             \/ LoginRequest(p) \/ (\E t \in tokens : Authenticate(p, t)) \/ Admit(p) \/ BeginTurn(p)
             \/ (\E tool \in DOMAIN Policy : CallTool(p, tool)) \/ EndTurn(p) \/ Upload(p)
             \/ MilvusStep(p) \/ MilvusConnected(p) \/ CloseLimiter(p)
      PROVE  MainTypes'
  BY <1>1 DEF LoginRequest, Authenticate, Admit, BeginTurn, CallTool, EndTurn, Upload, MilvusStep,
              MilvusConnected, CloseLimiter, processVars, countVars
<1>2. ASSUME NEW p \in Processes, NEW c \in scenario.configs, Start(p, c) PROVE MainTypes'
  BY <1>2, ScenarioFacts DEF Start, Goto
<1>3. ASSUME NEW p \in Processes, ReactAgent(p) \/ Compile(p) \/ Observability(p) \/ OpenStore(p)
      PROVE  MainTypes'
  BY <1>3 DEF ReactAgent, Compile, Observability, OpenStore, Goto, countVars
<1>4. ASSUME NEW p \in Processes, Unwind(p), UNCHANGED scenario PROVE MainTypes'
  BY <1>4 DEF Unwind
<1>5. ASSUME NEW p \in Processes,
             BuildFails(p) \/ EmbedderFails(p) \/ OpenStoreFails(p) \/ StopServing(p)
      PROVE  MainTypes'
  BY <1>5, <1>4 DEF BuildFails, EmbedderFails, OpenStoreFails, StopServing, countVars
<1>6. ASSUME NEW p \in Processes, MilvusFails(p) PROVE MainTypes'
  BY <1>6, <1>4 DEF MilvusFails, countVars
<1>7. ASSUME NEW p \in Processes, Fatal(p) \/ Kill(p) PROVE MainTypes'
  BY <1>7 DEF Fatal, Kill, Down, countVars
<1>8. ASSUME NEW p \in Processes, RunDeferred(p) \/ Exit(p) PROVE MainTypes'
  BY <1>8 DEF RunDeferred, Exit, Goto, countVars
<1>9. ASSUME Tick \/ Over PROVE MainTypes'
  BY <1>9 DEF Tick, Over, vars, processVars, countVars
<1> QED BY <1>1, <1>2, <1>3, <1>5, <1>6, <1>7, <1>8, <1>9
           DEF Next, Starting, Requests, Milvus, Ending

\* of the services of a process,
LEMMA ServiceTyped == Types /\ Next => ServiceTypes'
<1> SUFFICES ASSUME Types, Next PROVE ServiceTypes'
  OBVIOUS
<1> USE DEF ServiceTypes, Types
<1>1. ASSUME NEW p \in Processes,
             \/ LoginRequest(p) \/ (\E t \in tokens : Authenticate(p, t)) \/ Admit(p) \/ BeginTurn(p)
             \/ (\E tool \in DOMAIN Policy : CallTool(p, tool)) \/ EndTurn(p) \/ Upload(p)
             \/ MilvusStep(p) \/ MilvusConnected(p) \/ CloseLimiter(p)
      PROVE  ServiceTypes'
  BY <1>1 DEF LoginRequest, Authenticate, Admit, BeginTurn, CallTool, EndTurn, Upload, MilvusStep,
              MilvusConnected, CloseLimiter, processVars
<1>2. ASSUME NEW p \in Processes, NEW c \in scenario.configs, Start(p, c) PROVE ServiceTypes'
  BY <1>2 DEF Start
<1>3. ASSUME NEW p \in Processes, ReactAgent(p) PROVE ServiceTypes'
  <2>1. \A mcp \in GetLogMcpTool : mcp \subseteq Resources
    BY DEF GetLogMcpTool, Resources
  <2> QED BY <1>3, <2>1 DEF ReactAgent
<1>4. ASSUME NEW p \in Processes, BuildFails(p) PROVE ServiceTypes'
  <2>1. \A mcp \in GetLogMcpTool : mcp \subseteq Resources
    BY DEF GetLogMcpTool, Resources
  <2> QED BY <1>4, <2>1 DEF BuildFails, Unwind
<1>5. ASSUME NEW p \in Processes,
             EmbedderFails(p) \/ StopServing(p) \/ MilvusFails(p) \/ Exit(p)
      PROVE  ServiceTypes'
  BY <1>5 DEF EmbedderFails, StopServing, MilvusFails, Exit, Unwind
<1>6. ASSUME NEW p \in Processes, Compile(p) PROVE ServiceTypes'
  <2>1. Append(defers[p], "runtime") \in Seq(Deferred)
    BY DEF Deferred
  <2> QED BY <1>6, <2>1 DEF Compile
<1>7. ASSUME NEW p \in Processes, Observability(p) PROVE ServiceTypes'
  <2>1. Append(defers[p], "observability") \in Seq(Deferred)
    BY DEF Deferred
  <2>2. PICK x : x \subseteq {"trace", "meter", "lost trace", "lost meter"}
                 /\ open' = [open EXCEPT ![p] = @ \cup x]
    BY <1>7 DEF Observability
  <2>3. open' \in [Processes -> SUBSET Resources]
    BY <2>2 DEF Resources
  <2>4. hasShutdown' \in [Processes -> BOOLEAN]
    BY <1>7 DEF Observability
  <2> QED BY <1>7, <2>1, <2>3, <2>4 DEF Observability
<1>8. ASSUME NEW p \in Processes, OpenStore(p) PROVE ServiceTypes'
  <2>1. StoreOf(config[p].store) \subseteq Resources
    BY DEF StoreOf, Resources
  <2>2. defers[p] \o ServeDefers(config[p].store) \in Seq(Deferred)
    BY AllDeferred
  <2> QED BY <1>8, <2>1, <2>2 DEF OpenStore
<1>9. ASSUME NEW p \in Processes, OpenStoreFails(p) PROVE ServiceTypes'
  <2>1. open' = [open EXCEPT ![p] = @]
    BY <1>9 DEF OpenStoreFails, OpenedBy, ClosedBy
  <2> QED BY <1>9, <2>1 DEF OpenStoreFails, Unwind
<1>10. ASSUME NEW p \in Processes, Fatal(p) \/ Kill(p) PROVE ServiceTypes'
  <2>1. Down(p)
    BY <1>10 DEF Fatal, Kill
  <2>2. defers' = [defers EXCEPT ![p] = <<>>] /\ open' = [open EXCEPT ![p] = {}]
        /\ hasShutdown' = [hasShutdown EXCEPT ![p] = TRUE]
    BY <2>1 DEF Down
  <2>3. <<>> \in Seq(Deferred)
    OBVIOUS
  <2> QED BY <2>2, <2>3
<1>11. ASSUME NEW p \in Processes, RunDeferred(p) PROVE ServiceTypes'
  <2>1. Front(defers[p]) \in Seq(Deferred)
    BY <1>11, FrontSet DEF RunDeferred
  <2>2. open' = open \/ \E x : open' = [open EXCEPT ![p] = @ \ x]
    BY <1>11 DEF RunDeferred
  <2>3. open' \in [Processes -> SUBSET Resources]
    BY <2>2
  <2> QED BY <1>11, <2>1, <2>3 DEF RunDeferred
<1>12. ASSUME Tick \/ Over PROVE ServiceTypes'
  BY <1>12 DEF Tick, Over, vars, processVars
<1> QED BY <1>1, <1>2, <1>3, <1>4, <1>5, <1>6, <1>7, <1>8, <1>9, <1>10, <1>11, <1>12
           DEF Next, Starting, Requests, Milvus, Ending

\* of its turn,
LEMMA TurnTyped == Types /\ Next => TurnTypes'
<1> SUFFICES ASSUME Types, Next PROVE TurnTypes'
  OBVIOUS
<1> USE DEF TurnTypes, Types
<1>1. ASSUME NEW p \in Processes,
             LoginRequest(p) \/ Upload(p) \/ MilvusStep(p) \/ MilvusConnected(p) \/ CloseLimiter(p)
      PROVE  TurnTypes'
  BY <1>1 DEF LoginRequest, Upload, MilvusStep, MilvusConnected, CloseLimiter, processVars
<1>2. ASSUME NEW p \in Processes,
             \/ \E c \in scenario.configs : Start(p, c)
             \/ ReactAgent(p) \/ BuildFails(p) \/ EmbedderFails(p) \/ Compile(p)
             \/ Observability(p) \/ OpenStore(p) \/ OpenStoreFails(p) \/ StopServing(p)
             \/ MilvusFails(p)
      PROVE  TurnTypes'
  BY <1>2 DEF Start, ReactAgent, BuildFails, EmbedderFails, Compile, Observability, OpenStore,
              OpenStoreFails, StopServing, MilvusFails, Unwind
<1>3. ASSUME NEW p \in Processes,
             (\E t \in tokens : Authenticate(p, t)) \/ Admit(p) \/ BeginTurn(p)
      PROVE  TurnTypes'
  <2>1. ASSUME NEW t \in tokens, Authenticate(p, t) PROVE TurnTypes'
    <3>1. t.roles \in SUBSET Roles /\ clock \in Nat
      BY AccessAssumption, TokenFacts DEF AccessTypes
    <3> QED BY <2>1, <3>1, NewTurn DEF Authenticate, processVars
  <2>2. CASE Admit(p) \/ BeginTurn(p)
    <3>1. PICK l \in {"admitted", "running"} : turn' = [turn EXCEPT ![p].phase = l]
      BY <2>2 DEF Admit, BeginTurn
    <3>2. turn[p] \in TurnType /\ turn[p].phase # "none"
      BY <2>2 DEF Admit, BeginTurn
    <3>3. PICK u : u = [turn[p] EXCEPT !.phase = l]
      OBVIOUS
    <3>4. u \in TurnType
      BY <3>2, <3>3, TurnFacts
    <3>5. turn' = [turn EXCEPT ![p] = u]
      BY <3>1, <3>3
    <3>6. turn' \in [Processes -> TurnType]
      BY <3>4, <3>5
    <3> QED BY <2>2, <3>6 DEF Admit, BeginTurn, processVars
  <2> QED BY <1>3, <2>1, <2>2
<1>4. ASSUME NEW p \in Processes, NEW tool \in DOMAIN Policy, CallTool(p, tool) PROVE TurnTypes'
  <2>1. tool \in Tools
    BY DEF Policy, Tools
  <2>2. turn' \in [Processes -> TurnType]
    BY <1>4, <2>1, TurnFacts DEF CallTool, Running
  <2> QED BY <1>4, <2>2 DEF CallTool, processVars
<1>5. ASSUME NEW p \in Processes, EndTurn(p) \/ Exit(p) PROVE TurnTypes'
  BY <1>5, NoTurnFacts DEF EndTurn, Exit, processVars
<1>6. ASSUME NEW p \in Processes, Fatal(p) \/ Kill(p) PROVE TurnTypes'
  <2>1. Down(p)
    BY <1>6 DEF Fatal, Kill
  <2>2. /\ admitting' = [admitting EXCEPT ![p] = FALSE] /\ late' = [late EXCEPT ![p] = FALSE]
        /\ turn' = [turn EXCEPT ![p] = NoTurn] /\ caller' = [caller EXCEPT ![p] = "none"]
    BY <2>1 DEF Down
  <2> QED BY <2>2, NoTurnFacts
<1>7. ASSUME NEW p \in Processes, RunDeferred(p) PROVE TurnTypes'
  <2>1. Running(p) \in BOOLEAN
    BY NoTurnFacts DEF Running, TurnType
  <2> QED BY <1>7, <2>1 DEF RunDeferred
<1>8. ASSUME Tick \/ Over PROVE TurnTypes'
  BY <1>8 DEF Tick, Over, vars, processVars
<1> QED BY <1>1, <1>2, <1>3, <1>4, <1>5, <1>6, <1>7, <1>8
           DEF Next, Starting, Requests, Milvus, Ending

\* of its call of NewMilvusClient,
LEMMA CallTyped == Types /\ Next => CallTypes'
<1> SUFFICES ASSUME Types, Next PROVE CallTypes'
  OBVIOUS
<1> USE DEF CallTypes, Types
<1>0. ASSUME NEW p \in Processes, NEW call \in Calls \cup {"none"}, GotoCall(p, call)
      PROVE  CallTypes'
  BY <1>0 DEF GotoCall
<1>1. ASSUME NEW p \in Processes,
             \/ \E c \in scenario.configs : Start(p, c)
             \/ BuildFails(p) \/ EmbedderFails(p) \/ Compile(p)
             \/ Observability(p) \/ OpenStore(p) \/ OpenStoreFails(p)
             \/ StopServing(p) \/ CloseLimiter(p) \/ RunDeferred(p) \/ Exit(p)
             \/ LoginRequest(p) \/ (\E t \in tokens : Authenticate(p, t)) \/ Admit(p) \/ BeginTurn(p) \/ EndTurn(p)
      PROVE  UNCHANGED step
  BY <1>1 DEF Start, BuildFails, EmbedderFails, Compile, Observability, OpenStore, OpenStoreFails,
              StopServing, CloseLimiter, RunDeferred, Exit, LoginRequest, Authenticate, Admit,
              BeginTurn, EndTurn, milvusVars
<1>2. ASSUME NEW p \in Processes, ReactAgent(p) \/ Upload(p) PROVE CallTypes'
  BY <1>2, <1>0 DEF ReactAgent, Upload, Calls
<1>3. ASSUME NEW p \in Processes, NEW tool \in DOMAIN Policy, CallTool(p, tool) PROVE CallTypes'
  BY <1>3, <1>0 DEF CallTool, Calls
<1>4. ASSUME NEW p \in Processes, MilvusConnected(p) \/ MilvusFails(p) PROVE CallTypes'
  BY <1>4, <1>0 DEF MilvusConnected, LoadCollection, MilvusFails, NewMilvusClientFails
<1>5. ASSUME NEW p \in Processes,
             ListDatabases(p) \/ CreateDatabase(p) \/ ListCollections(p) \/ CreateCollection(p)
      PROVE  CallTypes'
  BY <1>5, <1>0 DEF ListDatabases, CreateDatabase, ListCollections, CreateCollection, Calls
<1>6. ASSUME NEW p \in Processes, CreateIndex(p) PROVE CallTypes'
  <2>1. CASE step[p].index = Len(Fields)
    BY <1>6, <1>0, <2>1 DEF CreateIndex, Calls
  <2>2. CASE step[p].index # Len(Fields)
    <3>1. step' = [step EXCEPT ![p].index = @ + 1]
      BY <1>6, <2>2 DEF CreateIndex
    <3>2. step[p].index # 3
      BY <2>2 DEF Fields
    <3>3. step[p] \in [call : Calls \cup {"none"}, index : 1 .. 3]
      OBVIOUS
    <3>4. [step[p] EXCEPT !.index = @ + 1] \in [call : Calls \cup {"none"}, index : 1 .. 3]
      BY <3>2, <3>3
    <3>5. PICK R : R = [call : Calls \cup {"none"}, index : 1 .. 3]
      OBVIOUS
    <3>6. step \in [Processes -> R]
      BY <3>5
    <3>7. PICK r : r = [step[p] EXCEPT !.index = @ + 1]
      OBVIOUS
    <3>8. step' = [step EXCEPT ![p] = r] /\ r \in R
      BY <3>1, <3>4, <3>5, <3>7
    <3>9. step' \in [Processes -> R]
      BY <3>6, <3>8
    <3> QED BY <3>5, <3>9
  <2> QED BY <2>1, <2>2
<1>7. ASSUME NEW p \in Processes, Fatal(p) \/ Kill(p) PROVE CallTypes'
  BY <1>7 DEF Fatal, Kill, Down, Idle
<1>8. ASSUME Tick \/ Over PROVE UNCHANGED step
  BY <1>8 DEF Tick, Over, vars, milvusVars
<1>9. UNCHANGED step => CallTypes'
  OBVIOUS
<1> QED BY <1>1, <1>2, <1>3, <1>4, <1>5, <1>6, <1>7, <1>8, <1>9
           DEF Next, Starting, Requests, Milvus, Ending, MilvusStep, Connecting

\* and of what everybody knows of users.
LEMMA AccessTyped == Types /\ (\A p \in Processes : ConfigInv(p)) /\ Next => AccessTypes'
<1> SUFFICES ASSUME Types, \A p \in Processes : ConfigInv(p), Next PROVE AccessTypes'
  OBVIOUS
<1> USE DEF AccessTypes, Types
<1>0. clock \in Nat /\ clock <= MaxClock
  BY AccessAssumption
<1>1. ASSUME NEW p \in Processes,
             \/ \E c \in scenario.configs : Start(p, c)
             \/ ReactAgent(p) \/ BuildFails(p) \/ EmbedderFails(p) \/ Compile(p)
             \/ Observability(p) \/ OpenStoreFails(p)
             \/ StopServing(p) \/ CloseLimiter(p) \/ RunDeferred(p) \/ Exit(p)
             \/ (\E t \in tokens : Authenticate(p, t)) \/ Admit(p) \/ BeginTurn(p) \/ EndTurn(p)
      PROVE  UNCHANGED <<clock, tokens, granted>>
  BY <1>1 DEF Start, ReactAgent, BuildFails, EmbedderFails, Compile, Observability,
              OpenStoreFails, StopServing, CloseLimiter, RunDeferred, Exit, Authenticate, Admit,
              BeginTurn, EndTurn, accessVars, countVars
<1>2. ASSUME NEW p \in Processes,
             \/ Upload(p) \/ (\E tool \in DOMAIN Policy : CallTool(p, tool))
             \/ MilvusStep(p) \/ MilvusConnected(p) \/ MilvusFails(p) \/ Fatal(p) \/ Kill(p)
      PROVE  UNCHANGED <<clock, tokens, granted>>
  BY <1>2 DEF Upload, CallTool, MilvusStep, MilvusConnected, MilvusFails, Fatal, Kill, Down,
              accessVars, countVars
<1>3. ASSUME NEW p \in Processes, OpenStore(p) PROVE AccessTypes'
  <2>1. granted' \in [Grants -> Nat]
    BY <1>0, <1>3 DEF OpenStore
  <2> QED BY <1>3, <2>1 DEF OpenStore, accessVars
<1>4. ASSUME NEW p \in Processes, LoginRequest(p) PROVE AccessTypes'
  <2>0. config[p] \in ConfigType /\ Valid(config[p].env)
    BY <1>4, ScenarioFacts DEF LoginRequest, Handling, Serving, ConfigInv, MainTypes
  <2>1. config[p].env \in EnvironmentType /\ RolesOf(config[p].env) \in SUBSET Roles
    BY <2>0, ConfigFacts
  <2>2. config[p].env.ttl \in Nat /\ config[p].env.secret \in {"s1", "s2"}
    BY <2>0, <2>1 DEF EnvironmentType, Valid
  <2>3. issue(config[p].env) \in TokenType
    BY <2>1, <2>2, <1>0 DEF issue, TokenType
  <2> QED BY <1>4, <2>3 DEF LoginRequest, Login, countVars
<1>5. ASSUME Tick PROVE AccessTypes'
  <2>1. clock' \in 0 .. MaxClock /\ clock' \in Nat
    BY <1>0, <1>5, AccessAssumption DEF Tick
  <2>2. granted' \in [Grants -> Nat]
    BY <1>5, <2>1 DEF Tick
  <2> QED BY <1>5, <2>1, <2>2 DEF Tick
<1>6. ASSUME Over PROVE UNCHANGED <<clock, tokens, granted>>
  BY <1>6 DEF Over, vars, accessVars, countVars
<1>7. UNCHANGED <<clock, tokens, granted>> => AccessTypes'
  OBVIOUS
<1> QED BY <1>1, <1>2, <1>3, <1>4, <1>5, <1>6, <1>7
           DEF Next, Starting, Requests, Milvus, Ending
-----------------------------------------------------------------------------
\* A step of a process, and a process that a step leaves alone
Acts(p) == Starting(p) \/ Requests(p) \/ Milvus(p) \/ Ending(p)

Same(q) ==
    /\ pc'[q] = pc[q] /\ config'[q] = config[q] /\ from'[q] = from[q]
    /\ open'[q] = open[q] /\ defers'[q] = defers[q] /\ hasShutdown'[q] = hasShutdown[q]
    /\ admitting'[q] = admitting[q] /\ late'[q] = late[q]
    /\ turn'[q] = turn[q] /\ caller'[q] = caller[q] /\ step'[q] = step[q]

\* A step of one process leaves alone what the others keep of themselves.
LEMMA Others ==
    ASSUME Types, NEW p \in Processes, Acts(p), NEW q \in Processes, q # p
    PROVE  Same(q)
<1> DEFINE Dom == /\ DOMAIN pc = Processes /\ DOMAIN config = Processes /\ DOMAIN from = Processes
                  /\ DOMAIN open = Processes /\ DOMAIN defers = Processes
                  /\ DOMAIN hasShutdown = Processes /\ DOMAIN admitting = Processes
                  /\ DOMAIN late = Processes /\ DOMAIN turn = Processes
                  /\ DOMAIN caller = Processes /\ DOMAIN step = Processes
<1>0. Dom
  BY DEF Types, MainTypes, ServiceTypes, TurnTypes, CallTypes
<1> USE <1>0 DEF Same, processVars, milvusVars
<1>1. ASSUME NEW c \in scenario.configs, Start(p, c) PROVE Same(q)
  BY <1>1 DEF Start, Goto
<1>2. ASSUME ReactAgent(p) PROVE Same(q)
  BY <1>2 DEF ReactAgent, Goto, GotoCall
<1>3. ASSUME BuildFails(p) \/ EmbedderFails(p) \/ StopServing(p) PROVE Same(q)
  BY <1>3 DEF BuildFails, EmbedderFails, StopServing, Unwind
<1>4. ASSUME Compile(p) PROVE Same(q)
  BY <1>4 DEF Compile, Goto
<1>5. ASSUME Observability(p) PROVE Same(q)
  <2>1. open'[q] = open[q] /\ hasShutdown'[q] = hasShutdown[q]
    BY <1>5 DEF Observability
  <2> QED BY <1>5, <2>1 DEF Observability, Goto
<1>6. ASSUME OpenStore(p) PROVE Same(q)
  BY <1>6 DEF OpenStore, Goto
<1>7. ASSUME OpenStoreFails(p) PROVE Same(q)
  BY <1>7 DEF OpenStoreFails, Unwind
<1>8. ASSUME MilvusStep(p) PROVE Same(q)
  <2>1. step'[q] = step[q]
    BY <1>8 DEF MilvusStep, Connecting, ListDatabases, CreateDatabase, ListCollections,
                CreateCollection, CreateIndex, GotoCall
  <2> QED BY <1>8, <2>1 DEF MilvusStep
<1>9. ASSUME MilvusConnected(p) PROVE Same(q)
  BY <1>9 DEF MilvusConnected, LoadCollection, GotoCall
<1>10. ASSUME MilvusFails(p) PROVE Same(q)
  <2>1. step'[q] = step[q]
    BY <1>10 DEF MilvusFails, NewMilvusClientFails, GotoCall
  <2> QED BY <1>10, <2>1 DEF MilvusFails, Unwind
<1>11. ASSUME Fatal(p) \/ Kill(p) PROVE Same(q)
  <2>1. Down(p)
    BY <1>11 DEF Fatal, Kill
  <2> QED BY <2>1 DEF Down
<1>12. ASSUME \/ LoginRequest(p) \/ (\E t \in tokens : Authenticate(p, t)) \/ Admit(p) \/ BeginTurn(p) \/ EndTurn(p)
              \/ CloseLimiter(p)
       PROVE  Same(q)
  BY <1>12 DEF LoginRequest, Authenticate, Admit, BeginTurn, EndTurn, CloseLimiter
<1>13. ASSUME NEW tool \in DOMAIN Policy, CallTool(p, tool) PROVE Same(q)
  BY <1>13 DEF CallTool, GotoCall
<1>14. ASSUME Upload(p) PROVE Same(q)
  BY <1>14 DEF Upload, GotoCall
<1>15. ASSUME RunDeferred(p) PROVE Same(q)
  BY <1>15 DEF RunDeferred
<1>16. ASSUME Exit(p) PROVE Same(q)
  BY <1>16 DEF Exit, Goto
<1> HIDE DEF Same
<1> QED BY <1>1, <1>2, <1>3, <1>4, <1>5, <1>6, <1>7, <1>8, <1>9, <1>10, <1>11, <1>12, <1>13,
           <1>14, <1>15, <1>16
           DEF Acts, Starting, Requests, Milvus, Ending

\* Time, and the end, change nothing that a process keeps of itself.
LEMMA AllSame == Tick \/ Over => \A q \in Processes : Same(q)
BY DEF Tick, Over, Same, vars, processVars, milvusVars

\* Every other step is one of a process.
LEMMA Actors == Next => (\E p \in Processes : Acts(p)) \/ Tick \/ Over
BY DEF Next, Acts
-----------------------------------------------------------------------------
\* Nobody but a call of NewMilvusClient changes the Milvus server.
LEMMA ServerKept ==
    Next => \/ UNCHANGED serverVars
            \/ \E p \in Processes : CreateDatabase(p) \/ CreateCollection(p) \/ CreateIndex(p)
<1> SUFFICES ASSUME Next
             PROVE  \/ UNCHANGED serverVars
                    \/ \E p \in Processes : CreateDatabase(p) \/ CreateCollection(p) \/ CreateIndex(p)
  OBVIOUS
<1> USE DEF milvusVars
<1>1. ASSUME NEW p \in Processes, Starting(p) PROVE UNCHANGED serverVars
  BY <1>1 DEF Starting, Start, ReactAgent, BuildFails, EmbedderFails, Compile, Observability,
              OpenStore, OpenStoreFails
<1>2. ASSUME NEW p \in Processes, Requests(p) PROVE UNCHANGED serverVars
  BY <1>2 DEF Requests, LoginRequest, Authenticate, Admit, BeginTurn, CallTool, EndTurn, Upload
<1>3. ASSUME NEW p \in Processes, MilvusStep(p)
      PROVE  \/ UNCHANGED serverVars
             \/ CreateDatabase(p) \/ CreateCollection(p) \/ CreateIndex(p)
  BY <1>3 DEF MilvusStep, Connecting, ListDatabases, ListCollections
<1>4. ASSUME NEW p \in Processes, MilvusConnected(p) \/ MilvusFails(p) \/ Fatal(p) \/ Kill(p)
      PROVE  UNCHANGED serverVars
  BY <1>4 DEF MilvusConnected, LoadCollection, MilvusFails, NewMilvusClientFails, Fatal, Kill, Down
<1>5. ASSUME NEW p \in Processes, StopServing(p) \/ CloseLimiter(p) \/ RunDeferred(p) \/ Exit(p)
      PROVE  UNCHANGED serverVars
  BY <1>5 DEF StopServing, CloseLimiter, RunDeferred, Exit
<1>6. ASSUME Tick \/ Over PROVE UNCHANGED serverVars
  BY <1>6 DEF Tick, Over, vars
<1> QED BY <1>1, <1>2, <1>3, <1>4, <1>5, <1>6 DEF Next, Milvus, Ending

\* The server has no less than before.
Grows ==
    /\ database => database'
    /\ collection => collection'
    /\ indexes \subseteq indexes'

\* It only grows, the vector field's index last.
LEMMA ServerGrows == Types /\ MilvusInv /\ Next => Grows /\ IndexInv'
<1> SUFFICES ASSUME Types, MilvusInv, Next PROVE Grows /\ IndexInv'
  OBVIOUS
<1>0. IndexInv
  BY DEF MilvusInv
<1>1. CASE UNCHANGED serverVars
  BY <1>0, <1>1 DEF serverVars, Grows, IndexInv
<1>2. ASSUME NEW p \in Processes, CreateDatabase(p) \/ CreateCollection(p)
      PROVE  Grows /\ IndexInv'
  <2>1. indexes' = indexes
    BY <1>2 DEF CreateDatabase, CreateCollection
  <2>2. (database => database') /\ (collection => collection')
    <3>1. CASE CreateDatabase(p)
      BY <3>1, Zenon DEF CreateDatabase
    <3>2. CASE CreateCollection(p)
      BY <3>2, Zenon DEF CreateCollection
    <3> QED BY <1>2, <3>1, <3>2
  <2> QED BY <1>0, <2>1, <2>2 DEF Grows, IndexInv
<1>3. ASSUME NEW p \in Processes, CreateIndex(p) PROVE Grows /\ IndexInv'
  <2>1. PICK n \in 1 .. 3 : n = step[p].index
    BY DEF Types, CallTypes
  <2>2. /\ indexes' = indexes \cup {Fields[n]} /\ UNCHANGED <<database, collection>>
        /\ \A k \in 1 .. n - 1 : Fields[k] \in indexes
    BY <1>3, <2>1 DEF CreateIndex, At, MilvusInv, CallInv
  <2>3. Fields[1] = "id" /\ Fields[2] = "content" /\ Fields[3] = "vector"
    BY DEF Fields
  <2>4. CASE n = 3
    <3>1. Fields[1] \in indexes /\ Fields[2] \in indexes
      BY <2>2, <2>4
    <3> QED BY <1>0, <2>2, <2>3, <2>4, <3>1 DEF Grows, IndexInv
  <2>5. CASE n \in {1, 2}
    BY <1>0, <2>2, <2>3, <2>5 DEF Grows, IndexInv
  <2> QED BY <2>1, <2>4, <2>5
<1> QED BY <1>1, <1>2, <1>3, ServerKept

\* A call that does not go on keeps what it has passed,
LEMMA CallKept ==
    ASSUME NEW q \in Processes, Grows, CallInv(q), step'[q] = step[q]
    PROVE  CallInv(q)'
BY DEF Grows, CallInv

\* and a process that does not go on its client.
LEMMA ReadyKept ==
    ASSUME NEW q \in Processes, Grows, ReadyInv(q),
           pc'[q] = pc[q], caller'[q] = caller[q], turn'[q] = turn[q]
    PROVE  ReadyInv(q)'
BY DEF Grows, ReadyInv, Ready, Requested

\* Whatever a step of a process makes of its call, it keeps what the call has passed.
LEMMA CallStep ==
    ASSUME Types, MilvusInv, Next, Grows, NEW p \in Processes, Acts(p)
    PROVE  CallInv(p)'
<1>0. CallInv(p) /\ step \in [Processes -> [call : Calls \cup {"none"}, index : 1 .. 3]]
  BY DEF MilvusInv, Types, CallTypes
<1>1. ASSUME NEW c, GotoCall(p, c) PROVE step'[p].call = c /\ step'[p].index = 1
  BY <1>0, <1>1 DEF GotoCall
<1>2. ASSUME NEW c \in {"none", "databases", "create database"}, GotoCall(p, c) PROVE CallInv(p)'
  BY <1>1, <1>2 DEF CallInv
<1>3. CASE UNCHANGED step
  BY <1>0, <1>3, CallKept
<1>4. CASE ReactAgent(p) \/ Upload(p)
  BY <1>2, <1>4 DEF ReactAgent, Upload
<1>5. ASSUME NEW tool \in DOMAIN Policy, CallTool(p, tool) PROVE CallInv(p)'
  BY <1>2, <1>3, <1>5 DEF CallTool
<1>6. CASE MilvusConnected(p) \/ MilvusFails(p)
  BY <1>2, <1>6 DEF MilvusConnected, LoadCollection, MilvusFails, NewMilvusClientFails
<1>7. CASE ListDatabases(p)
  <2>1. step'[p].call \in {"collections", "create database"}
        /\ (step'[p].call = "collections" => database)
    <3>1. CASE database
      <4>1. GotoCall(p, "collections")
        BY <1>7, <3>1 DEF ListDatabases
      <4> QED BY <1>1, <3>1, <4>1
    <3>2. CASE ~database
      <4>1. GotoCall(p, "create database")
        BY <1>7, <3>2 DEF ListDatabases
      <4>2. step'[p].call = "create database"
        BY <1>1, <4>1
      <4> QED BY <4>2
    <3> QED BY <3>1, <3>2
  <2> QED BY <2>1 DEF CallInv, Grows
<1>8. CASE CreateDatabase(p)
  <2>1. step'[p].call = "collections" /\ database'
    BY <1>1, <1>8 DEF CreateDatabase
  <2> QED BY <2>1 DEF CallInv
<1>9. CASE ListCollections(p)
  <2>1. step'[p].call \in {"load", "create collection"}
        /\ (step'[p].call = "load" => collection) /\ database
    <3>0. database
      BY <1>0, <1>9 DEF ListCollections, CallInv, At
    <3>1. CASE collection
      <4>1. GotoCall(p, "load")
        BY <1>9, <3>1 DEF ListCollections
      <4> QED BY <1>1, <3>0, <3>1, <4>1
    <3>2. CASE ~collection
      <4>1. GotoCall(p, "create collection")
        BY <1>9, <3>2 DEF ListCollections
      <4>2. step'[p].call = "create collection"
        BY <1>1, <4>1
      <4> QED BY <3>0, <4>2
    <3> QED BY <3>1, <3>2
  <2> QED BY <2>1 DEF CallInv, Grows
<1>10. CASE CreateCollection(p)
  <2>1. step'[p].call = "index" /\ step'[p].index = 1 /\ collection' /\ database
    BY <1>0, <1>1, <1>10 DEF CreateCollection, CallInv, At
  <2> QED BY <2>1 DEF CallInv, Grows
<1>11. CASE CreateIndex(p)
  <2>1. database /\ collection /\ \A n \in 1 .. step[p].index - 1 : Fields[n] \in indexes
    BY <1>0, <1>11 DEF CreateIndex, CallInv, At
  <2>2. Fields[step[p].index] \in indexes'
    BY <1>11 DEF CreateIndex
  <2>3. CASE step[p].index = Len(Fields)
    <3>1. step'[p].call = "load"
      BY <1>1, <1>11, <2>3 DEF CreateIndex
    <3> QED BY <2>1, <3>1 DEF CallInv, Grows
  <2>4. CASE step[p].index # Len(Fields)
    <3>1. step'[p].call = "index" /\ step'[p].index = step[p].index + 1 /\ step[p].index \in 1 .. 3
      BY <1>0, <1>11, <2>4 DEF CreateIndex, At
    <3>2. \A n \in 1 .. step[p].index : Fields[n] \in indexes'
      BY <2>1, <2>2, <3>1 DEF Grows
    <3>3. \A n \in 1 .. step'[p].index - 1 : Fields[n] \in indexes'
      BY <3>1, <3>2
    <3> QED BY <2>1, <3>1, <3>3 DEF CallInv, Grows
  <2> QED BY <2>3, <2>4
<1>12. CASE Fatal(p) \/ Kill(p)
  <2>1. step'[p].call = "none"
    BY <1>0, <1>12 DEF Fatal, Kill, Down, Idle
  <2> QED BY <2>1 DEF CallInv
<1>13. ASSUME \/ \E c \in scenario.configs : Start(p, c)
              \/ BuildFails(p) \/ EmbedderFails(p) \/ Compile(p)
              \/ Observability(p) \/ OpenStore(p) \/ OpenStoreFails(p)
              \/ StopServing(p) \/ CloseLimiter(p) \/ RunDeferred(p) \/ Exit(p)
              \/ LoginRequest(p) \/ (\E t \in tokens : Authenticate(p, t)) \/ Admit(p) \/ BeginTurn(p) \/ EndTurn(p)
       PROVE  UNCHANGED step
  BY <1>13 DEF Start, BuildFails, EmbedderFails, Compile, Observability, OpenStore,
               OpenStoreFails, StopServing, CloseLimiter, RunDeferred, Exit, LoginRequest,
               Authenticate, Admit, BeginTurn, EndTurn, milvusVars
<1> QED BY <1>3, <1>4, <1>5, <1>6, <1>7, <1>8, <1>9, <1>10, <1>11, <1>12, <1>13
           DEF Acts, Starting, Requests, Milvus, MilvusStep, Connecting, Ending

\* A process has its client before it goes on.
LEMMA ReadyStep ==
    ASSUME Types, MilvusInv, Next, Grows, NEW p \in Processes, Acts(p)
    PROVE  ReadyInv(p)'
<1>0. /\ ReadyInv(p) /\ CallInv(p) /\ IndexInv
      /\ p \in DOMAIN pc /\ p \in DOMAIN caller /\ p \in DOMAIN turn
      /\ pc[p] \in Places /\ caller[p] \in {"none", "runtime", "tool", "upload"}
  BY DEF MilvusInv, Types, MainTypes, TurnTypes
<1>00. Ready => Ready'
  BY DEF Ready, Grows
<1> USE <1>0, <1>00 DEF ReadyInv, Places
<1>1. ASSUME NEW c \in scenario.configs, Start(p, c) PROVE ReadyInv(p)'
  <2>1. pc'[p] \in {"agent", "unwind"} /\ caller' = caller /\ turn' = turn /\ pc[p] = "down"
    BY <1>1 DEF Start, Goto
  <2> QED BY <2>1 DEF Requested
<1>2. CASE ReactAgent(p)
  BY <1>2 DEF ReactAgent, Goto, Requested
<1>3. ASSUME pc' = [pc EXCEPT ![p] = "unwind"], UNCHANGED turn,
             \/ caller[p] # "runtime" /\ UNCHANGED caller
             \/ caller' = [caller EXCEPT ![p] = "none"]
      PROVE  ReadyInv(p)'
  BY <1>3 DEF Requested
<1>4. CASE BuildFails(p) \/ EmbedderFails(p) \/ OpenStoreFails(p) \/ StopServing(p)
  BY <1>3, <1>4 DEF BuildFails, EmbedderFails, OpenStoreFails, StopServing, Unwind, Serving
<1>5. CASE Compile(p)
  BY <1>5 DEF Compile, Goto, Requested
<1>6. CASE Observability(p) \/ OpenStore(p)
  BY <1>6 DEF Observability, OpenStore, Goto, Requested
<1>7. CASE MilvusStep(p) \/ LoginRequest(p) \/ CloseLimiter(p) \/ RunDeferred(p)
  BY <1>7 DEF MilvusStep, LoginRequest, CloseLimiter, RunDeferred, processVars, Requested
<1>8. CASE MilvusConnected(p)
  <2>1. Ready
    BY <1>8 DEF MilvusConnected, LoadCollection, At, CallInv, IndexInv, Ready
  <2>2. pc' = pc /\ turn' = turn /\ caller'[p] = "none"
    BY <1>8 DEF MilvusConnected, processVars
  <2> QED BY <2>1, <2>2 DEF Requested
<1>9. CASE MilvusFails(p)
  <2>1. CASE caller[p] = "runtime"
    BY <1>3, <1>9, <2>1 DEF MilvusFails, Unwind
  <2>2. CASE caller[p] # "runtime"
    <3>1. pc' = pc /\ turn' = turn /\ caller'[p] = "none" /\ caller[p] = "upload"
      BY <1>9, <2>2 DEF MilvusFails
    <3> QED BY <3>1 DEF Requested
  <2> QED BY <2>1, <2>2
<1>10. CASE Fatal(p) \/ Kill(p)
  <2>1. pc'[p] = "down" /\ caller'[p] = "none" /\ turn'[p] = NoTurn
    BY <1>10 DEF Fatal, Kill, Down
  <2> QED BY <2>1, NoTurnFacts DEF Requested
<1>11. ASSUME (\E t \in tokens : Authenticate(p, t)) \/ Admit(p) \/ BeginTurn(p) PROVE ReadyInv(p)'
  <2>1. UNCHANGED <<pc, caller>> /\ pc[p] \in {"serve", "unwind"}
    BY <1>11 DEF Authenticate, Admit, BeginTurn, processVars, Handling, Serving, Requested
  <2> QED BY <2>1
<1>12. ASSUME NEW tool \in DOMAIN Policy, CallTool(p, tool) PROVE ReadyInv(p)'
  <2>1. pc' = pc /\ caller'[p] \in {caller[p], "tool"} /\ pc[p] \in {"serve", "unwind"}
    BY <1>12 DEF CallTool, processVars, Running, Requested
  <2> QED BY <2>1
<1>13. CASE EndTurn(p) \/ Exit(p)
  <2>1. caller' = caller /\ ~Requested(p)' 
        /\ (pc' = pc \/ (pc[p] = "unwind" /\ pc'[p] = "exit"))
    BY <1>13, NoTurnFacts DEF EndTurn, Exit, Goto, processVars, Requested
  <2> QED BY <2>1
<1>14. CASE Upload(p)
  BY <1>14 DEF Upload, processVars, Requested, Serving
<1> HIDE DEF ReadyInv
<1> QED BY <1>1, <1>2, <1>4, <1>5, <1>6, <1>7, <1>8, <1>9, <1>10, <1>11, <1>12, <1>13, <1>14
           DEF Acts, Starting, Requests, Milvus, Ending

\* Every step keeps the collection, and with it whoever relies on it.
LEMMA MilvusKept == Types /\ MilvusInv /\ Next => MilvusInv'
<1> SUFFICES ASSUME Types, MilvusInv, Next PROVE MilvusInv'
  OBVIOUS
<1>1. Grows /\ IndexInv'
  BY ServerGrows
<1>2. ASSUME NEW q \in Processes, Same(q) PROVE CallInv(q)' /\ ReadyInv(q)'
  BY <1>1, <1>2, CallKept, ReadyKept DEF Same, MilvusInv
<1>3. ASSUME NEW q \in Processes PROVE CallInv(q)' /\ ReadyInv(q)'
  <2>1. ASSUME NEW p \in Processes, Acts(p) PROVE CallInv(q)' /\ ReadyInv(q)'
    <3>1. CASE p = q
      BY <1>1, <2>1, <3>1, CallStep, ReadyStep
    <3>2. CASE p # q
      BY <1>2, <2>1, <3>2, Others
    <3> QED BY <3>1, <3>2
  <2> QED BY <1>2, <2>1, AllSame, Actors
<1> QED BY <1>1, <1>3 DEF MilvusInv
-----------------------------------------------------------------------------
\* The services of a process change with it only.
LEMMA ServicesKept ==
    ASSUME NEW q \in Processes, Same(q), DefersInv(q), OpenInv(q), LoopsInv(q)
    PROVE  DefersInv(q)' /\ OpenInv(q)' /\ LoopsInv(q)'
BY DEF Same, DefersInv, OpenInv, LoopsInv, Whole, Running

\* A process that stays where it is keeps its closes, if turns begin while the loops run only.
LEMMA TurnEnds ==
    ASSUME NEW p \in Processes, DefersInv(p), OpenInv(p),
           pc'[p] = pc[p], config'[p] = config[p], from'[p] = from[p], open'[p] = open[p],
           defers'[p] = defers[p], hasShutdown'[p] = hasShutdown[p], late'[p] = late[p],
           \/ admitting'[p] = admitting[p] /\ (Running(p)' => Running(p) \/ Whole(p))
           \/ pc[p] = "unwind" /\ admitting'[p] = FALSE /\ turn'[p] = turn[p]
    PROVE  DefersInv(p)' /\ OpenInv(p)'
<1>1. OpenInv(p)'
  BY DEF OpenInv
<1>2. Whole(p)' <=> Whole(p)
  BY DEF Whole
<1>3. (Running(p)' /\ ~late[p] => Whole(p)) /\ (admitting'[p] => admitting[p])
  BY DEF DefersInv, Running
<1> HIDE DEF Whole
<1>4. DefersInv(p)'
  BY <1>2, <1>3 DEF DefersInv
<1> QED BY <1>1, <1>4

\* A panic, or the return of main, leaves the closes to run (main.go:38-97).
LEMMA UnwindKept ==
    ASSUME NEW p \in Processes, Types, ReadyInv(p), DefersInv(p), OpenInv(p),
           Unwind(p), pc[p] \notin {"unwind", "exit"},
           UNCHANGED <<admitting, turn>>,
           \/ UNCHANGED open
           \/ pc[p] = "agent" /\ open'[p] \subseteq {"mcp"}
    PROVE  DefersInv(p)' /\ OpenInv(p)'
<1>0. p \in DOMAIN pc /\ p \in DOMAIN from
  BY DEF Types, MainTypes
<1>1. /\ pc'[p] = "unwind" /\ from'[p] = pc[p]
      /\ UNCHANGED <<config, defers, hasShutdown, late, admitting, turn>>
  BY <1>0 DEF Unwind
<1>2. DefersInv(p)'
  <2>1. CASE pc[p] = "agent"
    <3>1. ~Running(p) /\ ~admitting[p] /\ defers[p] = <<>>
      BY <2>1 DEF ReadyInv, DefersInv, Running, Requested
    <3> QED BY <1>1, <2>1, <3>1 DEF DefersInv, Running
  <2>2. CASE UNCHANGED open
    BY <1>1, <2>2 DEF DefersInv, Whole, Running
  <2> QED BY <2>1, <2>2
<1>3. OpenInv(p)'
  <2>1. CASE pc[p] = "agent" /\ open'[p] \subseteq {"mcp"}
    BY <1>1, <2>1 DEF OpenInv
  <2>2. CASE UNCHANGED open
    BY <1>1, <2>2 DEF OpenInv
  <2> QED BY <2>1, <2>2
<1> QED BY <1>2, <1>3

\* A step of a start defers the close of what it opens.
LEMMA StartKept ==
    ASSUME Types, MilvusInv, NEW p \in Processes, Starting(p), DefersInv(p), OpenInv(p)
    PROVE  DefersInv(p)' /\ OpenInv(p)'
<1>0. /\ p \in DOMAIN pc /\ p \in DOMAIN config /\ p \in DOMAIN from /\ p \in DOMAIN open
      /\ p \in DOMAIN defers /\ p \in DOMAIN admitting
      /\ ReadyInv(p)
  BY DEF Types, MainTypes, ServiceTypes, TurnTypes, MilvusInv
<1>1. ASSUME NEW c \in scenario.configs, Start(p, c) PROVE DefersInv(p)' /\ OpenInv(p)'
  <2>1. /\ pc[p] = "down" /\ pc'[p] \in {"agent", "unwind"}
        /\ UNCHANGED <<open, defers, hasShutdown, late, from, admitting, turn>>
    BY <1>0, <1>1 DEF Start, Goto
  <2>2. ~Running(p) /\ ~admitting[p] /\ defers[p] = <<>> /\ ~late[p] /\ open[p] = {}
    BY <1>0, <2>1 DEF ReadyInv, DefersInv, OpenInv, Running, Requested
  <2>3. DefersInv(p)'
    BY <2>1, <2>2 DEF DefersInv, Running
  <2>4. OpenInv(p)'
    BY <2>1, <2>2 DEF OpenInv
  <2> QED BY <2>3, <2>4
<1>2. ASSUME ReactAgent(p) PROVE DefersInv(p)' /\ OpenInv(p)'
  <2>1. /\ pc[p] = "agent" /\ pc'[p] = "runtime" /\ open'[p] \subseteq {"mcp"}
        /\ UNCHANGED <<config, defers, hasShutdown, late, from, admitting, turn>>
    BY <1>0, <1>2 DEF ReactAgent, Goto, GetLogMcpTool
  <2>2. ~Running(p) /\ ~admitting[p] /\ defers[p] = <<>> /\ ~late[p]
    BY <1>0, <2>1 DEF ReadyInv, DefersInv, Running, Requested
  <2>3. DefersInv(p)'
    BY <2>1, <2>2 DEF DefersInv, Running
  <2>4. OpenInv(p)'
    BY <2>1, <2>2 DEF OpenInv
  <2> QED BY <2>3, <2>4
<1>3. ASSUME BuildFails(p) PROVE DefersInv(p)' /\ OpenInv(p)'
  <2>1. Unwind(p) /\ UNCHANGED <<admitting, turn>> /\ pc[p] \in {"agent", "runtime"}
    BY <1>3 DEF BuildFails
  <2>2. \/ UNCHANGED open
        \/ pc[p] = "agent" /\ open'[p] \subseteq {"mcp"}
    <3>1. CASE pc[p] = "agent"
      <4>1. PICK mcp \in GetLogMcpTool : open' = [open EXCEPT ![p] = mcp]
        BY <1>3, <3>1 DEF BuildFails
      <4>2. mcp \subseteq {"mcp"}
        BY DEF GetLogMcpTool
      <4> QED BY <1>0, <3>1, <4>1, <4>2
    <3>2. CASE pc[p] # "agent"
      BY <1>3, <3>2 DEF BuildFails
    <3> QED BY <3>1, <3>2
  <2> QED BY <1>0, <2>1, <2>2, UnwindKept
<1>4. ASSUME EmbedderFails(p) PROVE DefersInv(p)' /\ OpenInv(p)'
  <2>1. Unwind(p) /\ UNCHANGED <<open, admitting, turn>> /\ pc[p] = "runtime"
    BY <1>4 DEF EmbedderFails
  <2> QED BY <1>0, <2>1, UnwindKept
<1>5. ASSUME OpenStoreFails(p) PROVE DefersInv(p)' /\ OpenInv(p)'
  <2>1. Unwind(p) /\ UNCHANGED <<admitting, turn>> /\ pc[p] = "store"
    BY <1>5 DEF OpenStoreFails
  <2>2. \A stage : stage \in Stages(config[p].store) => OpenedBy(stage) \ ClosedBy(stage) = {}
    BY DEF OpenedBy, ClosedBy
  <2>3. open' = [open EXCEPT ![p] = @ \cup {}]
    BY <1>5, <2>2 DEF OpenStoreFails
  <2>4. UNCHANGED open
    BY <2>3 DEF Types, ServiceTypes
  <2> QED BY <1>0, <2>1, <2>4, UnwindKept
<1>6. ASSUME Compile(p) PROVE DefersInv(p)' /\ OpenInv(p)'
  <2>1. /\ pc[p] = "runtime" /\ pc'[p] = "observability"
        /\ defers'[p] = Append(defers[p], "runtime")
        /\ UNCHANGED <<config, open, hasShutdown, late, from, admitting, turn>>
    BY <1>0, <1>6 DEF Compile, Goto
  <2>2. ~Running(p) /\ ~admitting[p] /\ defers[p] = <<>> /\ ~late[p]
    BY <1>0, <2>1 DEF ReadyInv, DefersInv, Running, Requested
  <2>3. defers'[p] = <<"runtime">>
    BY <2>1, <2>2
  <2>4. ToSet(defers'[p]) = {"runtime"} /\ ToSet(defers[p]) = {}
    BY <2>2, <2>3 DEF ToSet
  <2>5. DefersInv(p)'
    BY <2>1, <2>2, <2>3 DEF DefersInv, Running
  <2>6. OpenInv(p)'
    BY <2>1, <2>4 DEF OpenInv
  <2> QED BY <2>5, <2>6
<1>7. ASSUME Observability(p) PROVE DefersInv(p)' /\ OpenInv(p)'
  <2>1. /\ pc[p] = "observability" /\ pc'[p] = "store"
        /\ defers'[p] = Append(defers[p], "observability")
        /\ UNCHANGED <<config, late, from, admitting, turn>>
    BY <1>0, <1>7 DEF Observability, Goto
  <2>2. ~Running(p) /\ ~admitting[p] /\ defers[p] = <<"runtime">> /\ ~late[p]
    BY <1>0, <2>1 DEF ReadyInv, DefersInv, Running, Requested
  <2>3. defers'[p] = <<"runtime", "observability">>
    <3>1. PICK q : q = defers[p]
      OBVIOUS
    <3>2. Append(<<"runtime">>, "observability") = <<"runtime", "observability">>
      <4>1. PICK n : n = Append(<<"runtime">>, "observability")
        OBVIOUS
      <4>2. n \in Seq(Deferred) /\ Len(n) = 2 /\ n[1] = "runtime" /\ n[2] = "observability"
        BY <4>1 DEF Deferred
      <4>3. n = <<"runtime", "observability">>
        BY <4>2
      <4> QED BY <4>1, <4>3, Zenon
    <3>3. defers'[p] = Append(q, "observability") /\ q = <<"runtime">>
      BY <2>1, <2>2, <3>1
    <3> QED BY <3>2, <3>3, Zenon
  <2>4. ToSet(defers'[p]) = {"runtime", "observability"} /\ ToSet(defers[p]) = {"runtime"}
    BY <2>2, <2>3 DEF ToSet
  <2>5. open'[p] \subseteq open[p] \cup {"trace", "meter", "lost trace", "lost meter"}
    BY <1>0, <1>7 DEF Observability
  <2>6. DefersInv(p)'
    BY <2>1, <2>2, <2>3 DEF DefersInv, Running
  <2>7. OpenInv(p)'
    BY <2>1, <2>4, <2>5 DEF OpenInv
  <2> QED BY <2>6, <2>7
<1>8. ASSUME OpenStore(p) PROVE DefersInv(p)' /\ OpenInv(p)'
  <2>1. PICK v : v = config[p].store
    OBVIOUS
  <2>2. /\ pc[p] = "store" /\ pc'[p] = "serve" /\ admitting'[p] = TRUE
        /\ defers'[p] = defers[p] \o ServeDefers(v) /\ open'[p] = open[p] \cup StoreOf(v)
        /\ UNCHANGED <<config, late, from, turn, hasShutdown>>
    BY <1>0, <1>8, <2>1 DEF OpenStore, Goto
  <2>3. ~Running(p) /\ defers[p] = <<"runtime", "observability">> /\ ~late[p]
    BY <1>0, <2>2 DEF ReadyInv, DefersInv, Running, Requested
  <2>4. defers'[p] = AllDefers(v)
    BY <2>2, <2>3 DEF AllDefers
  <2>5. ToSet(defers'[p]) = {"runtime", "observability", "controller"} \cup StoreOf(v)
        /\ ToSet(defers[p]) = {"runtime", "observability"}
    <3>1. ToSet(<<"runtime", "observability">>) = {"runtime", "observability"}
      BY DEF ToSet
    <3>2. ToSet(AllDefers(v)) = {"runtime", "observability", "controller"} \cup StoreOf(v)
      BY AllDeferred
    <3> QED BY <2>3, <2>4, <3>1, <3>2, Zenon
  <2>6. Whole(p)'
    BY <2>1, <2>2, <2>4 DEF Whole
  <2>7. DefersInv(p)'
    BY <2>2, <2>3, <2>6 DEF DefersInv, Running
  <2>8. OpenInv(p)'
    BY <2>2, <2>5 DEF OpenInv
  <2> QED BY <2>7, <2>8
<1> QED BY <1>1, <1>2, <1>3, <1>4, <1>5, <1>6, <1>7, <1>8 DEF Starting

\* The close that runs next closes what is no longer used.
LEMMA CloseKept ==
    ASSUME Types, NEW p \in Processes, RunDeferred(p), DefersInv(p), OpenInv(p)
    PROVE  DefersInv(p)' /\ OpenInv(p)'
<1>0. /\ p \in DOMAIN pc /\ p \in DOMAIN config /\ p \in DOMAIN late /\ p \in DOMAIN open
      /\ p \in DOMAIN defers /\ p \in DOMAIN hasShutdown
      /\ defers[p] \in Seq(Deferred)
  BY DEF Types, MainTypes, ServiceTypes, TurnTypes
<1>1. PICK d : d = Last(defers[p])
  OBVIOUS
<1>2. /\ pc[p] = "unwind" /\ defers'[p] = Front(defers[p])
      /\ UNCHANGED <<pc, config, hasShutdown, from, admitting, turn>>
      /\ ToSet(defers[p]) = ToSet(defers'[p]) \cup {d} /\ d \in Deferred
  BY <1>0, <1>1, FrontSet DEF RunDeferred
<1>3. CASE d = "controller"
  <2>1. ~admitting[p] /\ UNCHANGED open
    BY <1>1, <1>3 DEF RunDeferred
  <2>2. Running(p) => late'[p]
    BY <1>0, <1>1, <1>3 DEF RunDeferred
  <2>3. DefersInv(p)'
    BY <1>2, <2>1, <2>2 DEF DefersInv, Running
  <2>4. OpenInv(p)'
    BY <1>2, <1>3, <2>1 DEF OpenInv
  <2> QED BY <2>3, <2>4
<1>4. CASE d # "controller"
  <2>1. ~Whole(p)
    BY <1>1, <1>4, AllDeferred DEF Whole
  <2>2. ~admitting[p] /\ (Running(p) => late[p])
    BY <2>1 DEF DefersInv
  <2>3. open'[p] = open[p] \ Closes(p, d) /\ UNCHANGED late
    BY <1>0, <1>1, <1>4 DEF RunDeferred
  <2>4. DefersInv(p)'
    BY <1>2, <2>2, <2>3 DEF DefersInv, Running
  <2>5. OpenInv(p)'
    <3>1. CASE d = "runtime"
      <4>1. open'[p] = open[p] \ {"mcp"}
        BY <2>3, <3>1 DEF Closes
      <4> QED BY <1>2, <3>1, <4>1 DEF OpenInv
    <3>2. CASE d = "observability"
      <4>1. open'[p] = open[p] \ (IF hasShutdown[p] THEN {"trace", "meter"} ELSE {})
        BY <2>3, <3>2 DEF Closes, shutdown
      <4> QED BY <1>2, <3>2, <4>1 DEF OpenInv
    <3>3. CASE d \in {"db", "redis"}
      <4>1. open'[p] = open[p] \ {d}
        BY <2>3, <3>3 DEF Closes
      <4> QED BY <1>2, <3>3, <4>1 DEF OpenInv
    <3> QED BY <1>2, <1>4, <3>1, <3>2, <3>3 DEF Deferred
  <2> QED BY <2>4, <2>5
<1> QED BY <1>3, <1>4

\* So do the other steps of a process.
LEMMA ServiceStep ==
    ASSUME Types, MilvusInv, NEW p \in Processes, Acts(p), DefersInv(p), OpenInv(p), LoopsInv(p)
    PROVE  DefersInv(p)' /\ OpenInv(p)'
<1>0. /\ p \in DOMAIN pc /\ p \in DOMAIN config /\ p \in DOMAIN from /\ p \in DOMAIN open
      /\ p \in DOMAIN defers /\ p \in DOMAIN admitting /\ p \in DOMAIN turn
      /\ p \in DOMAIN late /\ p \in DOMAIN hasShutdown
      /\ ReadyInv(p) /\ turn[p] \in TurnType
  BY DEF Types, MainTypes, ServiceTypes, TurnTypes, MilvusInv
<1>1. CASE Starting(p)
  BY <1>1, StartKept
<1>2. CASE RunDeferred(p)
  BY <1>2, CloseKept
<1>3. CASE StopServing(p)
  <2>1. Unwind(p) /\ UNCHANGED <<open, admitting, turn>> /\ pc[p] = "serve"
    BY <1>3 DEF StopServing, Serving
  <2> QED BY <1>0, <2>1, UnwindKept
<1>4. CASE MilvusFails(p)
  <2>1. CASE caller[p] = "runtime"
    <3>1. Unwind(p) /\ UNCHANGED <<open, admitting, turn>> /\ pc[p] = "runtime"
      BY <1>0, <1>4, <2>1 DEF MilvusFails, ReadyInv
    <3> QED BY <1>0, <3>1, UnwindKept
  <2>2. CASE caller[p] # "runtime"
    <3>1. UNCHANGED <<pc, config, defers, hasShutdown, late, from, open, admitting, turn>>
      BY <1>4, <2>2 DEF MilvusFails
    <3> QED BY <3>1, TurnEnds DEF Running
  <2> QED BY <2>1, <2>2
<1>5. CASE MilvusStep(p) \/ MilvusConnected(p) \/ LoginRequest(p) \/ Upload(p)
  <2>1. UNCHANGED <<pc, config, defers, hasShutdown, late, from, open, admitting, turn>>
    BY <1>5 DEF MilvusStep, MilvusConnected, LoginRequest, Upload, processVars
  <2> QED BY <2>1, TurnEnds DEF Running
<1>6. ASSUME (\E t \in tokens : Authenticate(p, t)) \/ Admit(p) \/ BeginTurn(p)
      PROVE  DefersInv(p)' /\ OpenInv(p)'
  <2>1. UNCHANGED <<pc, config, defers, hasShutdown, late, from, open, admitting>>
    BY <1>6 DEF Authenticate, Admit, BeginTurn, processVars
  <2>2. ASSUME NEW t \in tokens, Authenticate(p, t) PROVE ~Running(p)'
    BY <1>0, <2>2, AccessAssumption, TokenFacts, NewTurn DEF Authenticate, Running, Types,
       AccessTypes
  <2>3. Admit(p) => ~Running(p)'
    <3>1. Admit(p) => turn' = [turn EXCEPT ![p] = [turn[p] EXCEPT !.phase = "admitted"]]
                      /\ turn[p].phase # "none"
      BY DEF Admit
    <3> QED BY <1>0, <3>1, TurnFacts DEF Running
  <2>4. BeginTurn(p) => Whole(p)
    BY DEF BeginTurn, LoopsInv
  <2> HIDE DEF Whole
  <2> QED BY <1>6, <2>1, <2>2, <2>3, <2>4, TurnEnds
<1>7. ASSUME NEW tool \in DOMAIN Policy, CallTool(p, tool) PROVE DefersInv(p)' /\ OpenInv(p)'
  <2>1. UNCHANGED <<pc, config, defers, hasShutdown, late, from, open, admitting>> /\ Running(p)
    BY <1>7 DEF CallTool, processVars
  <2> QED BY <2>1, TurnEnds
<1>8. CASE EndTurn(p)
  <2>1. UNCHANGED <<pc, config, defers, hasShutdown, late, from, open, admitting>> /\ ~Running(p)'
    BY <1>0, <1>8, NoTurnFacts DEF EndTurn, processVars, Running
  <2> QED BY <2>1, TurnEnds
<1>9. CASE CloseLimiter(p)
  <2>1. /\ UNCHANGED <<pc, config, defers, hasShutdown, late, from, open, turn>>
        /\ pc[p] = "unwind" /\ admitting'[p] = FALSE
    BY <1>0, <1>9 DEF CloseLimiter, processVars
  <2> QED BY <2>1, TurnEnds
<1>10. CASE Exit(p)
  <2>1. /\ UNCHANGED <<config, open, defers, hasShutdown, late, from, admitting>>
        /\ pc[p] = "unwind" /\ pc'[p] = "exit" /\ defers[p] = <<>> /\ ~Running(p)'
    BY <1>0, <1>10, NoTurnFacts DEF Exit, Goto, Running
  <2>2. AllDefers(config[p].store) # <<>>
    BY AllDeferred
  <2>3. ~admitting[p]
    BY <2>1, <2>2 DEF DefersInv, Whole
  <2>4. DefersInv(p)'
    BY <2>1, <2>3 DEF DefersInv
  <2>5. OpenInv(p)'
    BY <2>1 DEF OpenInv
  <2> QED BY <2>4, <2>5
<1>11. CASE Fatal(p) \/ Kill(p)
  <2>1. /\ pc'[p] = "down" /\ open'[p] = {} /\ defers'[p] = <<>> /\ ~late'[p] /\ ~admitting'[p]
        /\ ~Running(p)'
    BY <1>0, <1>11, NoTurnFacts DEF Fatal, Kill, Down, Running
  <2>2. DefersInv(p)'
    BY <2>1 DEF DefersInv
  <2>3. OpenInv(p)'
    BY <2>1 DEF OpenInv
  <2> QED BY <2>2, <2>3
<1> QED BY <1>1, <1>2, <1>3, <1>4, <1>5, <1>6, <1>7, <1>8, <1>9, <1>10, <1>11
           DEF Acts, Requests, Milvus, Ending

\* The loops run until the controller is closed, first of all.
LEMMA LoopsStep ==
    ASSUME Types, NEW p \in Processes, Acts(p), DefersInv(p), LoopsInv(p), DefersInv(p)'
    PROVE  LoopsInv(p)'
<1>0. /\ DOMAIN pc = Processes /\ DOMAIN config = Processes /\ DOMAIN late = Processes
      /\ DOMAIN open = Processes /\ DOMAIN defers = Processes
      /\ pc[p] \in Places
  BY DEF Types, MainTypes, ServiceTypes, TurnTypes
<1>1. CASE UNCHANGED <<config, open, defers, late>>
  BY <1>1 DEF LoopsInv, Whole
<1>2. CASE pc'[p] \in {"down", "agent", "runtime", "observability", "store", "exit"}
  <2>1. PICK a, b, c : a = <<>> /\ b = <<"runtime">> /\ c = <<"runtime", "observability">>
    OBVIOUS
  <2>2. "controller" \notin ToSet(a) \cup ToSet(b) \cup ToSet(c)
    BY <2>1 DEF ToSet
  <2>3. defers'[p] \in {a, b, c}
    BY <1>2, <2>1 DEF DefersInv
  <2> QED BY <2>2, <2>3 DEF LoopsInv
<1>3. CASE pc'[p] = "serve"
  BY <1>3 DEF DefersInv, LoopsInv
<1>4. CASE RunDeferred(p)
  <2>1. defers'[p] = Front(defers[p]) /\ defers[p] # <<>> /\ defers[p] \in Seq(Deferred)
    BY <1>0, <1>4 DEF RunDeferred, Types, ServiceTypes
  <2>2. ToSet(defers'[p]) \subseteq ToSet(defers[p])
    BY <2>1, FrontSet
  <2>3. "controller" \in ToSet(defers[p]) => "controller" \notin ToSet(defers'[p])
    BY <2>1, FrontOfAll DEF LoopsInv, Whole
  <2> QED BY <2>2, <2>3 DEF LoopsInv
<1>5. ASSUME Unwind(p), pc[p] \in {"agent", "runtime", "store"} PROVE LoopsInv(p)'
  <2>1. PICK a, c : a = <<>> /\ c = <<"runtime", "observability">>
    OBVIOUS
  <2>2. "controller" \notin ToSet(a) \cup ToSet(c)
    BY <2>1 DEF ToSet
  <2>3. defers'[p] \in {a, c}
    BY <1>5, <2>1 DEF DefersInv, Unwind
  <2> QED BY <2>2, <2>3 DEF LoopsInv
<1>6. ASSUME NEW c \in scenario.configs, Start(p, c) PROVE LoopsInv(p)'
  <2>1. PICK a : a = <<>>
    OBVIOUS
  <2>2. "controller" \notin ToSet(a)
    BY <2>1 DEF ToSet
  <2>3. defers'[p] = a
    BY <1>6, <2>1 DEF DefersInv, Start
  <2> QED BY <2>2, <2>3 DEF LoopsInv
<1>7. CASE BuildFails(p) \/ EmbedderFails(p) \/ OpenStoreFails(p)
  <2>1. Unwind(p) /\ pc[p] \in {"agent", "runtime", "store"}
    BY <1>7 DEF BuildFails, EmbedderFails, OpenStoreFails
  <2> QED BY <1>5, <2>1
<1>8. CASE ReactAgent(p) \/ Compile(p) \/ Observability(p) \/ OpenStore(p) \/ Fatal(p) \/ Kill(p)
           \/ Exit(p)
  <2>1. pc'[p] \in {"runtime", "observability", "store", "serve", "down", "exit"}
    BY <1>0, <1>8 DEF ReactAgent, Compile, Observability, OpenStore, Fatal, Kill, Exit, Down, Goto
  <2> QED BY <1>2, <1>3, <2>1
<1>9. CASE StopServing(p)
  BY <1>1, <1>9 DEF StopServing, Unwind
<1>10. CASE MilvusFails(p)
  <2>1. CASE caller[p] = "runtime"
    BY <1>1, <1>10, <2>1 DEF MilvusFails, Unwind
  <2>2. CASE caller[p] # "runtime"
    BY <1>1, <1>10, <2>2 DEF MilvusFails
  <2> QED BY <2>1, <2>2
<1>11. CASE Requests(p) \/ MilvusStep(p) \/ MilvusConnected(p) \/ CloseLimiter(p)
  BY <1>1, <1>11 DEF Requests, LoginRequest, Authenticate, Admit, BeginTurn, CallTool, EndTurn,
                     Upload, MilvusStep, MilvusConnected, CloseLimiter, processVars
<1> QED BY <1>4, <1>6, <1>7, <1>8, <1>9, <1>10, <1>11 DEF Acts, Starting, Milvus, Ending

\* Every step keeps what is deferred and open.
LEMMA ServiceKept == Types /\ MilvusInv /\ ServiceInv /\ Next => ServiceInv'
<1> DEFINE Good(q) == DefersInv(q) /\ OpenInv(q) /\ LoopsInv(q)
<1> SUFFICES ASSUME Types, MilvusInv, ServiceInv, Next, NEW q \in Processes
             PROVE  Good(q)'
  BY DEF ServiceInv
<1>1. Good(q)
  BY DEF ServiceInv
<1>2. ASSUME Same(q) PROVE Good(q)'
  BY <1>1, <1>2, ServicesKept
<1>3. ASSUME NEW p \in Processes, Acts(p) PROVE Good(q)'
  <2>1. CASE p = q
    BY <1>1, <1>3, <2>1, ServiceStep, LoopsStep
  <2>2. CASE p # q
    BY <1>2, <1>3, <2>2, Others
  <2> QED BY <2>1, <2>2
<1> HIDE DEF Good
<1> QED BY <1>2, <1>3, AllSame, Actors
-----------------------------------------------------------------------------
\* Who changes what is known of users, and nobody changes the scenario.
LEMMA AccessBy ==
    Next => /\ scenario' = scenario
            /\ \/ UNCHANGED <<clock, tokens, granted>>
               \/ Tick
               \/ \E p \in Processes : OpenStore(p) \/ LoginRequest(p)
<1> DEFINE Kept == scenario' = scenario /\ UNCHANGED <<clock, tokens, granted>>
<1> SUFFICES ASSUME Next
             PROVE  \/ Kept
                    \/ scenario' = scenario /\ Tick
                    \/ \E p \in Processes : scenario' = scenario /\ (OpenStore(p) \/ LoginRequest(p))
  BY Zenon
<1> USE DEF accessVars, countVars
<1>1. ASSUME NEW p \in Processes, NEW c \in scenario.configs, Start(p, c) PROVE Kept
  BY <1>1 DEF Start
<1>2. ASSUME NEW p \in Processes,
             \/ ReactAgent(p) \/ BuildFails(p) \/ EmbedderFails(p) \/ Compile(p)
             \/ Observability(p) \/ OpenStoreFails(p)
      PROVE  Kept
  BY <1>2 DEF ReactAgent, BuildFails, EmbedderFails, Compile, Observability, OpenStoreFails
<1>3. ASSUME NEW p \in Processes,
             \/ StopServing(p) \/ CloseLimiter(p) \/ RunDeferred(p) \/ Exit(p)
             \/ (\E t \in tokens : Authenticate(p, t)) \/ Admit(p) \/ BeginTurn(p) \/ EndTurn(p)
             \/ Upload(p) \/ (\E tool \in DOMAIN Policy : CallTool(p, tool))
      PROVE  Kept
  BY <1>3 DEF StopServing, CloseLimiter, RunDeferred, Exit, Authenticate, Admit, BeginTurn,
              EndTurn, Upload, CallTool
<1>4. ASSUME NEW p \in Processes,
             MilvusStep(p) \/ MilvusConnected(p) \/ MilvusFails(p) \/ Fatal(p) \/ Kill(p)
      PROVE  Kept
  BY <1>4 DEF MilvusStep, MilvusConnected, MilvusFails, Fatal, Kill, Down
<1>5. ASSUME NEW p \in Processes, OpenStore(p) \/ LoginRequest(p) PROVE scenario' = scenario
  BY <1>5 DEF OpenStore, LoginRequest
<1>6. Tick => scenario' = scenario
  BY DEF Tick
<1>7. Over => Kept
  BY DEF Over, vars
<1> HIDE DEF Kept
<1> QED BY <1>1, <1>2, <1>3, <1>4, <1>5, <1>6, <1>7
           DEF Next, Starting, Requests, Milvus, Ending

\* The time a user was last given some roles does not go back.
GrantsGrow ==
    /\ clock <= clock'
    /\ tokens \subseteq tokens'
    /\ \A g \in Grants :
          granted[g] # Never => granted'[g] # Never /\ granted[g] <= granted'[g]

\* No time of the clock is the time that stands for none.
LEMMA ClockFacts ==
    ASSUME Types
    PROVE  /\ clock \in Nat /\ MaxClock \in Nat /\ Never \in Nat /\ clock < Never /\ clock # Never
           /\ granted \in [Grants -> Nat]
BY AccessAssumption DEF Types, AccessTypes, Never

\* No step takes a grant back.
LEMMA GrantsKept ==
    Types /\ AccessInv /\ Next =>
        /\ GrantsGrow
        /\ \A g \in Grants : granted'[g] = Never \/ granted'[g] <= clock'
<1> SUFFICES ASSUME Types, AccessInv, Next
             PROVE  /\ GrantsGrow
                    /\ \A g \in Grants : granted'[g] = Never \/ granted'[g] <= clock'
  OBVIOUS
<1>0. /\ clock \in Nat /\ MaxClock \in Nat /\ Never \in Nat /\ clock < Never
      /\ granted \in [Grants -> Nat]
      /\ \A g \in Grants : granted[g] = Never \/ granted[g] <= clock
  BY ClockFacts DEF AccessInv, GrantInv
<1>1. CASE UNCHANGED <<clock, tokens, granted>>
  BY <1>0, <1>1 DEF GrantsGrow
<1>2. ASSUME NEW p \in Processes, OpenStore(p)
      PROVE  /\ GrantsGrow
             /\ \A g \in Grants : granted'[g] = Never \/ granted'[g] <= clock'
  <2>1. PICK s : granted' = [granted EXCEPT ![s] = clock] /\ UNCHANGED <<clock, tokens>>
    BY <1>2 DEF OpenStore, accessVars
  <2>2. \A g \in Grants : granted'[g] \in {granted[g], clock}
    BY <1>0, <2>1
  <2>3. \A g \in Grants : granted'[g] = Never \/ granted'[g] <= clock'
    BY <1>0, <2>1, <2>2
  <2>4. GrantsGrow
    BY <1>0, <2>1, <2>2 DEF GrantsGrow
  <2> QED BY <2>3, <2>4
<1>3. ASSUME NEW p \in Processes, LoginRequest(p)
      PROVE  /\ GrantsGrow
             /\ \A g \in Grants : granted'[g] = Never \/ granted'[g] <= clock'
  <2>1. UNCHANGED <<clock, granted>> /\ tokens \subseteq tokens'
    BY <1>3 DEF LoginRequest, Login, countVars
  <2> QED BY <1>0, <2>1 DEF GrantsGrow
<1>4. CASE Tick
  <2>1. clock' = clock + 1 /\ clock < MaxClock /\ UNCHANGED tokens
        /\ \A g \in Grants : granted'[g] \in {granted[g], clock'}
    BY <1>4 DEF Tick
  <2>2. clock' # Never /\ clock' \in Nat
    BY <1>0, <2>1 DEF Never
  <2>3. \A g \in Grants : granted'[g] = Never \/ granted'[g] <= clock'
    BY <1>0, <2>1, <2>2
  <2>4. \A g \in Grants :
          granted[g] # Never => granted'[g] # Never /\ granted[g] <= granted'[g]
    BY <1>0, <2>1, <2>2
  <2> QED BY <1>0, <2>1, <2>3, <2>4 DEF GrantsGrow
<1> QED BY <1>1, <1>2, <1>3, <1>4, AccessBy

\* A token stays one of a configuration of the scenario, and a new one is one of the process
\* that issues it.
TokenInv(t) ==
    /\ granted[Shown(t)] # Never /\ t.issued <= granted[Shown(t)]
    /\ \E c \in scenario.configs :
          /\ Valid(c.env) /\ Grant(c.env) = Shown(t)
          /\ t.expires = t.issued + c.env.ttl

\* What holds of a token goes on to hold,
LEMMA TokenKept ==
    ASSUME Types, Types', GrantsGrow, scenario' = scenario, NEW t \in TokenType, TokenInv(t)
    PROVE  TokenInv(t)'
<1>1. PICK g \in Grants : g = Shown(t)
  BY TokenFacts
<1>2. t.issued \in Nat /\ granted[g] \in Nat /\ granted'[g] \in Nat
  BY TokenFacts DEF Types, AccessTypes
<1>3. granted[g] # Never /\ t.issued <= granted[g]
  BY <1>1 DEF TokenInv
<1>4. granted'[g] # Never /\ t.issued <= granted'[g]
  BY <1>2, <1>3 DEF GrantsGrow
<1> QED BY <1>1, <1>4 DEF TokenInv, Shown

\* and holds of one that is issued.
LEMMA IssuedToken ==
    ASSUME Types, NEW p \in Processes, ConfigInv(p), Handling(p)
    PROVE  TokenInv(issue(config[p].env))
<1>1. PICK c \in scenario.configs : c = config[p]
  BY DEF ConfigInv, Handling, Serving
<1>2. /\ Valid(c.env) /\ granted[Grant(c.env)] = clock
      /\ clock \in Nat /\ clock # Never
  BY <1>1, ClockFacts DEF ConfigInv
<1>3. PICK t : t = issue(c.env)
  OBVIOUS
<1>4. /\ t.secret = c.env.secret /\ t.roles = RolesOf(c.env) /\ t.issued = clock
      /\ t.expires = t.issued + c.env.ttl
  BY <1>3 DEF issue
<1>5. Shown(t) = Grant(c.env)
  BY <1>4 DEF Shown, Grant
<1>6. TokenInv(t)
  BY <1>2, <1>4, <1>5 DEF TokenInv
<1> QED BY <1>1, <1>3, <1>6

\* Every step keeps what is known of roles and tokens.
LEMMA GrantKept == Types /\ Types' /\ AccessInv /\ Next => GrantInv'
<1> SUFFICES ASSUME Types, Types', AccessInv, Next PROVE GrantInv'
  OBVIOUS
<1>1. GrantsGrow /\ \A g \in Grants : granted'[g] = Never \/ granted'[g] <= clock'
  BY GrantsKept
<1>2. scenario' = scenario /\ tokens \subseteq TokenType /\ tokens' \subseteq TokenType
  BY AccessBy DEF Types, AccessTypes
<1>3. \A t \in tokens : TokenInv(t)
  BY DEF AccessInv, GrantInv, TokenInv
<1>4. \A t \in tokens : TokenInv(t)'
  BY <1>1, <1>2, <1>3, TokenKept
<1>5. ASSUME NEW p \in Processes, LoginRequest(p) PROVE \A t \in tokens' : TokenInv(t)'
  <2>1. PICK n : n = issue(config[p].env)
    OBVIOUS
  <2>2. TokenInv(n)
    BY <1>5, <2>1, IssuedToken DEF LoginRequest, AccessInv
  <2>3. tokens' = tokens \cup {n}
    BY <1>5, <2>1 DEF LoginRequest, Login
  <2>4. TokenInv(n)'
    BY <1>1, <1>2, <2>2, <2>3, TokenKept
  <2> QED BY <1>4, <2>3, <2>4
<1>6. ASSUME tokens' = tokens PROVE \A t \in tokens' : TokenInv(t)'
  BY <1>4, <1>6
<1>7. \A t \in tokens' : TokenInv(t)'
  <2>1. ASSUME NEW p \in Processes, OpenStore(p) PROVE tokens' = tokens
    BY <2>1 DEF OpenStore, accessVars
  <2>2. Tick => tokens' = tokens
    BY DEF Tick
  <2> QED BY <1>5, <1>6, <2>1, <2>2, AccessBy
<1> QED BY <1>1, <1>7 DEF GrantInv, TokenInv

\* The roles of a turn that goes on stay current,
LEMMA CurrentKept ==
    ASSUME Types, Types', GrantsGrow, scenario' = scenario,
           NEW p \in Processes, NEW r \in SUBSET Roles, turn[p].at \in Nat, Current(p, r),
           turn'[p].at = turn[p].at, config'[p] = config[p]
    PROVE  Current(p, r)'
<1>1. PICK c \in scenario.configs :
         /\ Valid(c.env) /\ Grant(c.env) = <<config[p].env.secret, r>>
         /\ granted[Grant(c.env)] # Never
         /\ turn[p].at < granted[Grant(c.env)] + c.env.ttl
  BY DEF Current
<1>2. c \in ConfigType
  BY ScenarioFacts DEF Types, MainTypes
<1>3. PICK g \in Grants : g = Grant(c.env)
  BY <1>1, <1>2, ConfigFacts
<1>4. c.env.ttl \in Nat
  BY <1>2, ConfigFacts DEF EnvironmentType
<1>5. granted[g] \in Nat /\ granted'[g] \in Nat
  BY DEF Types, AccessTypes
<1>6. granted'[g] # Never /\ granted[g] <= granted'[g]
  BY <1>1, <1>3 DEF GrantsGrow
<1>7. turn'[p].at < granted'[g] + c.env.ttl
  BY <1>1, <1>3, <1>4, <1>5, <1>6
<1> QED BY <1>1, <1>3, <1>6, <1>7 DEF Current, Grant

\* A turn that goes on is the one it was.
Continues(p) ==
    Requested(p)' => /\ Requested(p) /\ turn'[p].roles = turn[p].roles
                     /\ turn'[p].at = turn[p].at /\ turn'[p].tools = turn[p].tools

\* and with them what is known of a turn that goes on or ends.
LEMMA TurnKept ==
    ASSUME Types, Types', GrantsGrow, scenario' = scenario,
           NEW p \in Processes, TurnInv(p), config'[p] = config[p], Continues(p)
    PROVE  TurnInv(p)'
<1> SUFFICES ASSUME Requested(p)'
             PROVE  /\ Current(p, turn[p].roles)'
                    /\ \A tool \in turn'[p].tools : toolAllowed(Policy[tool], turn'[p].roles)
  BY DEF TurnInv
<1>1. /\ Requested(p) /\ turn[p] \in TurnType
      /\ turn'[p].roles = turn[p].roles /\ turn'[p].at = turn[p].at /\ turn'[p].tools = turn[p].tools
  BY DEF Continues, Types, TurnTypes
<1>2. turn[p].roles \in SUBSET Roles /\ turn[p].at \in Nat
  BY <1>1, TurnFacts DEF Requested
<1>3. PICK r \in SUBSET Roles : r = turn[p].roles
  BY <1>2
<1>4. Current(p, r) /\ \A tool \in turn[p].tools : toolAllowed(Policy[tool], r)
  BY <1>1, <1>3 DEF TurnInv
<1>5. Current(p, r)'
  BY <1>1, <1>2, <1>4, CurrentKept
<1> QED BY <1>1, <1>3, <1>4, <1>5

\* A turn is let in with the roles of a token that has not expired (service.go:134-154).
LEMMA TurnLetIn ==
    ASSUME Types, GrantInv, NEW p \in Processes, NEW t \in tokens, Authenticate(p, t),
           UNCHANGED <<granted, scenario, config>>
    PROVE  TurnInv(p)'
<1>0. t \in TokenType /\ clock \in Nat
  BY AccessAssumption DEF Types, AccessTypes
<1>1. /\ t.roles \in SUBSET Roles /\ t.issued \in Nat /\ t.expires \in Nat
      /\ granted[Shown(t)] \in Nat
  BY <1>0, TokenFacts DEF Types, AccessTypes
<1>2. PICK n : n = [phase |-> "waiting", roles |-> t.roles, at |-> clock, tools |-> {}]
  OBVIOUS
<1>3. n.roles = t.roles /\ n.at = clock /\ n.tools = {}
  BY <1>2
<1>4. turn'[p] = n
  BY <1>2 DEF Authenticate, Types, TurnTypes
<1>5. t.secret = config[p].env.secret /\ clock < t.expires
  BY DEF Authenticate, Validate
<1>6. granted[Shown(t)] # Never /\ t.issued <= granted[Shown(t)]
  BY DEF GrantInv
<1>7. PICK c \in scenario.configs :
         /\ Valid(c.env) /\ Grant(c.env) = Shown(t)
         /\ t.expires = t.issued + c.env.ttl
  BY DEF GrantInv
<1>8. c.env.ttl \in Nat
  <2>1. c \in ConfigType
    BY ScenarioFacts DEF Types, MainTypes
  <2> QED BY <2>1, ConfigFacts DEF EnvironmentType
<1>9. clock < granted[Shown(t)] + c.env.ttl
  BY <1>0, <1>1, <1>5, <1>6, <1>7, <1>8
<1>10. PICK s : s = t.roles
  OBVIOUS
<1>11. Shown(t) = <<config[p].env.secret, s>>
  BY <1>5, <1>10 DEF Shown
<1>12. Current(p, s)'
  <2>1. Grant(c.env) = <<config'[p].env.secret, s>> /\ granted'[Grant(c.env)] # Never
        /\ turn'[p].at < granted'[Grant(c.env)] + c.env.ttl
    BY <1>3, <1>4, <1>6, <1>7, <1>9, <1>11
  <2> QED BY <1>7, <2>1 DEF Current, Grant
<1> QED BY <1>3, <1>4, <1>10, <1>12 DEF TurnInv

\* A turn calls a tool only as its policy says (policy.go:46-70).
LEMMA ToolCalled ==
    ASSUME Types, NEW p \in Processes, NEW tool \in DOMAIN Policy, CallTool(p, tool), TurnInv(p),
           UNCHANGED <<granted, scenario, config>>
    PROVE  TurnInv(p)'
<1>1. /\ Requested(p) /\ toolAllowed(Policy[tool], turn[p].roles) /\ turn[p] \in TurnType
      /\ tool \in Tools
  BY DEF CallTool, Types, TurnTypes, Policy, Tools, Running, Requested
<1>2. PICK n : n = [turn[p] EXCEPT !.tools = @ \cup {tool}]
  OBVIOUS
<1>3. n.roles = turn[p].roles /\ n.at = turn[p].at /\ n.tools = turn[p].tools \cup {tool}
  BY <1>1, <1>2, TurnFacts DEF Requested
<1>4. turn'[p] = n
  BY <1>2 DEF CallTool, Types, TurnTypes
<1>5. PICK r : r = turn[p].roles
  OBVIOUS
<1>6. Current(p, r) /\ \A x \in turn[p].tools : toolAllowed(Policy[x], r)
  BY <1>1, <1>5 DEF TurnInv
<1>7. Current(p, r)'
  BY <1>3, <1>4, <1>6 DEF Current, Grant
<1>8. \A x \in n.tools : toolAllowed(Policy[x], r)
  BY <1>1, <1>3, <1>5, <1>6
<1> QED BY <1>3, <1>4, <1>5, <1>7, <1>8 DEF TurnInv

\* A process with handlers gives its user his roles all the time.
LEMMA HandlingGrants ==
    ASSUME Types, Next, NEW q \in Processes, ConfigInv(q), Handling(q), config'[q] = config[q]
    PROVE  granted'[Grant(config'[q].env)] = clock'
<1>1. PICK g \in Grants : g = Grant(config[q].env)
  <2>1. config[q] \in ConfigType /\ Valid(config[q].env)
    BY ScenarioFacts DEF ConfigInv, Handling, Serving, Types, MainTypes
  <2> QED BY <2>1, ConfigFacts
<1>2. granted[g] = clock /\ granted \in [Grants -> Nat]
  BY <1>1, ClockFacts DEF ConfigInv
<1>3. granted'[g] = clock'
  <2>1. ASSUME NEW p \in Processes, OpenStore(p) PROVE granted'[g] = clock'
    BY <1>2, <2>1 DEF OpenStore, accessVars
  <2>2. ASSUME NEW p \in Processes, LoginRequest(p) PROVE granted'[g] = clock'
    BY <1>2, <2>2 DEF LoginRequest, Login, countVars
  <2>3. ASSUME Tick PROVE granted'[g] = clock'
    BY <1>1, <2>3 DEF Tick
  <2> QED BY <1>2, <2>1, <2>2, <2>3, AccessBy
<1> QED BY <1>1, <1>3 DEF Grant

\* What a process was started with, and its turn
AccessOf(p) == ConfigInv(p) /\ TurnInv(p)

\* A process that does not go on keeps both,
LEMMA AccessStays ==
    ASSUME Types, Types', Next, GrantsGrow, NEW q \in Processes, AccessOf(q),
           pc'[q] = pc[q], from'[q] = from[q], config'[q] = config[q], Continues(q)
    PROVE  AccessOf(q)'
<1>1. scenario' = scenario
  BY AccessBy
<1>2. TurnInv(q)'
  BY <1>1, TurnKept DEF AccessOf
<1>3. Handling(q)' <=> Handling(q)
  BY DEF Handling, Serving
<1>4. Handling(q)' => granted'[Grant(config'[q].env)] = clock'
  BY <1>3, HandlingGrants DEF AccessOf
<1>5. ConfigInv(q)'
  BY <1>1, <1>3, <1>4 DEF ConfigInv, AccessOf, Grant
<1> QED BY <1>2, <1>5 DEF AccessOf

\* A process goes on with its start, or ends.
LEMMA AccessMoves ==
    ASSUME Types, Types', Next, GrantsGrow, NEW q \in Processes, AccessOf(q),
           config'[q] = config[q], Continues(q),
           pc[q] # "down",
           \/ pc'[q] = "exit"
           \/ pc'[q] = "unwind" /\ from'[q] = pc[q]
           \/ /\ pc[q] \in {"agent", "runtime", "observability", "store"}
              /\ pc'[q] \in {"runtime", "observability", "store"}
    PROVE  AccessOf(q)'
<1>1. scenario' = scenario
  BY AccessBy
<1>2. TurnInv(q)'
  BY <1>1, TurnKept DEF AccessOf
<1>3. Handling(q)' => Handling(q)
  BY DEF Handling, Serving
<1>4. Handling(q)' => granted'[Grant(config'[q].env)] = clock'
  BY <1>3, HandlingGrants DEF AccessOf
<1>5. ConfigInv(q)'
  BY <1>1, <1>3, <1>4 DEF ConfigInv, AccessOf, Grant
<1> QED BY <1>2, <1>5 DEF AccessOf

\* Every step of a process keeps its configuration, its roles and its turn.
LEMMA AccessStep ==
    ASSUME Types, Types', MilvusInv, AccessInv, Next, GrantsGrow, NEW p \in Processes, Acts(p)
    PROVE  AccessOf(p)'
<1>0. /\ p \in DOMAIN pc /\ p \in DOMAIN config /\ p \in DOMAIN turn /\ p \in DOMAIN from
      /\ ReadyInv(p) /\ AccessOf(p) /\ GrantInv /\ scenario' = scenario
  BY AccessBy DEF Types, MainTypes, TurnTypes, MilvusInv, AccessInv, AccessOf
<1>00. /\ turn'[p] = turn[p] => Continues(p)
       /\ turn'[p] = NoTurn => Continues(p)
  BY NoTurnFacts DEF Continues, Requested
<1>1. ASSUME NEW c \in scenario.configs, Start(p, c) PROVE AccessOf(p)'
  <2>1. /\ pc[p] = "down" /\ config'[p] = c /\ turn' = turn /\ from' = from
        /\ pc'[p] = IF Valid(c.env) THEN "agent" ELSE "unwind"
    BY <1>0, <1>1 DEF Start, Goto
  <2>2. ~Requested(p)'
    BY <1>0, <2>1 DEF ReadyInv, Requested
  <2>3. ConfigInv(p)'
    BY <1>0, <2>1 DEF ConfigInv, AccessOf, Handling, Serving
  <2> QED BY <2>2, <2>3 DEF AccessOf, TurnInv
<1>2. CASE ReactAgent(p) \/ Compile(p) \/ Observability(p)
  <2>1. /\ UNCHANGED <<config, turn>> /\ pc[p] \in {"agent", "runtime", "observability"}
        /\ pc'[p] \in {"runtime", "observability", "store"}
    BY <1>0, <1>2 DEF ReactAgent, Compile, Observability, Goto
  <2> QED BY <1>0, <1>00, <2>1, AccessMoves
<1>3. CASE BuildFails(p) \/ EmbedderFails(p) \/ OpenStoreFails(p) \/ StopServing(p)
  <2>1. UNCHANGED <<config, turn>> /\ pc[p] # "down" /\ pc'[p] = "unwind" /\ from'[p] = pc[p]
    BY <1>0, <1>3 DEF BuildFails, EmbedderFails, OpenStoreFails, StopServing, Unwind, Serving
  <2> QED BY <1>0, <1>00, <2>1, AccessMoves
<1>4. CASE OpenStore(p)
  <2>1. PICK g : g = Grant(config[p].env)
    OBVIOUS
  <2>2. /\ UNCHANGED <<config, turn, clock>> /\ pc[p] = "store" /\ pc'[p] = "serve"
        /\ granted' = [granted EXCEPT ![g] = clock]
    BY <1>0, <1>4, <2>1 DEF OpenStore, Goto, accessVars
  <2>3. g \in Grants
    <3>1. config[p] \in ConfigType /\ Valid(config[p].env)
      BY <1>0, <2>2, ScenarioFacts DEF AccessOf, ConfigInv, Types, MainTypes
    <3> QED BY <2>1, <3>1, ConfigFacts
  <2>4. granted'[g] = clock'
    BY <2>2, <2>3, ClockFacts
  <2>5. Grant(config'[p].env) = g
    BY <2>1, <2>2 DEF Grant
  <2>6. ConfigInv(p)'
    BY <1>0, <2>2, <2>4, <2>5 DEF AccessOf, ConfigInv, Grant
  <2>7. TurnInv(p)'
    BY <1>0, <1>00, <2>2, TurnKept DEF AccessOf
  <2> QED BY <2>6, <2>7 DEF AccessOf
<1>5. CASE MilvusStep(p) \/ MilvusConnected(p) \/ LoginRequest(p) \/ Upload(p) \/ CloseLimiter(p)
  <2>1. UNCHANGED <<pc, from, config, turn>>
    BY <1>5 DEF MilvusStep, MilvusConnected, LoginRequest, Upload, CloseLimiter, processVars
  <2> QED BY <1>0, <1>00, <2>1, AccessStays
<1>6. CASE MilvusFails(p)
  <2>1. CASE caller[p] = "runtime"
    <3>1. UNCHANGED <<config, turn>> /\ pc[p] = "runtime" /\ pc'[p] = "unwind" /\ from'[p] = pc[p]
      BY <1>0, <1>6, <2>1 DEF MilvusFails, Unwind, ReadyInv
    <3> QED BY <1>0, <1>00, <3>1, AccessMoves
  <2>2. CASE caller[p] # "runtime"
    <3>1. UNCHANGED <<pc, from, config, turn>>
      BY <1>6, <2>2 DEF MilvusFails
    <3> QED BY <1>0, <1>00, <3>1, AccessStays
  <2> QED BY <2>1, <2>2
<1>7. CASE Fatal(p) \/ Kill(p)
  <2>1. Down(p) /\ DOMAIN from = Processes
    BY <1>7 DEF Fatal, Kill, Types, MainTypes
  <2>2. pc'[p] = "down" /\ from'[p] = "down" /\ ~Requested(p)'
    BY <1>0, <2>1, NoTurnFacts DEF Down, Requested
  <2> QED BY <2>2 DEF AccessOf, ConfigInv, TurnInv, Handling, Serving
<1>8. ASSUME NEW t \in tokens, Authenticate(p, t) PROVE AccessOf(p)'
  <2>1. UNCHANGED <<pc, from, config, granted, clock, scenario>>
    BY <1>8 DEF Authenticate, processVars, accessVars, countVars
  <2>2. TurnInv(p)'
    BY <1>0, <1>8, <2>1, TurnLetIn
  <2>3. ConfigInv(p)'
    BY <1>0, <2>1 DEF AccessOf, ConfigInv, Handling, Serving, Grant
  <2> QED BY <2>2, <2>3 DEF AccessOf
<1>9. ASSUME NEW tool \in DOMAIN Policy, CallTool(p, tool) PROVE AccessOf(p)'
  <2>1. UNCHANGED <<pc, from, config, granted, clock, scenario>>
    BY <1>9 DEF CallTool, processVars, accessVars, countVars
  <2>2. TurnInv(p)'
    BY <1>0, <1>9, <2>1, ToolCalled DEF AccessOf
  <2>3. ConfigInv(p)'
    BY <1>0, <2>1 DEF AccessOf, ConfigInv, Handling, Serving, Grant
  <2> QED BY <2>2, <2>3 DEF AccessOf
<1>10. CASE Admit(p) \/ BeginTurn(p)
  <2>1. UNCHANGED <<pc, from, config>>
    BY <1>10 DEF Admit, BeginTurn, processVars
  <2>2. PICK l \in {"admitted", "running"} :
           turn' = [turn EXCEPT ![p] = [turn[p] EXCEPT !.phase = l]]
    BY <1>10 DEF Admit, BeginTurn
  <2>3. turn[p] \in TurnType /\ turn[p].phase # "none"
    BY <1>10 DEF Admit, BeginTurn, Types, TurnTypes
  <2>4. Continues(p)
    BY <1>0, <2>2, <2>3, TurnFacts DEF Continues, Requested
  <2> QED BY <1>0, <2>1, <2>4, AccessStays
<1>11. CASE EndTurn(p)
  <2>1. UNCHANGED <<pc, from, config>> /\ turn'[p] = NoTurn
    BY <1>0, <1>11 DEF EndTurn, processVars
  <2> QED BY <1>0, <1>00, <2>1, AccessStays
<1>13. CASE Exit(p)
  <2>1. UNCHANGED config /\ turn'[p] = NoTurn /\ pc[p] = "unwind" /\ pc'[p] = "exit"
    BY <1>0, <1>13 DEF Exit, Goto
  <2> QED BY <1>0, <1>00, <2>1, AccessMoves
<1>12. CASE RunDeferred(p)
  <2>1. UNCHANGED <<pc, from, config, turn>>
    BY <1>12 DEF RunDeferred
  <2> QED BY <1>0, <1>00, <2>1, AccessStays
<1> QED BY <1>1, <1>2, <1>3, <1>4, <1>5, <1>6, <1>7, <1>8, <1>9, <1>10, <1>11, <1>12, <1>13
           DEF Acts, Starting, Requests, Milvus, Ending

\* Every step keeps all that is known of users.
LEMMA AccessKept == Types /\ Types' /\ MilvusInv /\ AccessInv /\ Next => AccessInv'
<1> SUFFICES ASSUME Types, Types', MilvusInv, AccessInv, Next PROVE AccessInv'
  OBVIOUS
<1>1. GrantsGrow /\ GrantInv'
  BY GrantsKept, GrantKept
<1>2. \A q \in Processes : AccessOf(q)
  BY DEF AccessInv, AccessOf
<1>3. ASSUME NEW q \in Processes, Same(q) PROVE AccessOf(q)'
  BY <1>1, <1>2, <1>3, AccessStays DEF Same, Continues, Requested
<1>4. ASSUME NEW q \in Processes PROVE AccessOf(q)'
  <2>1. ASSUME NEW p \in Processes, Acts(p) PROVE AccessOf(q)'
    <3>1. CASE p = q
      BY <1>1, <2>1, <3>1, AccessStep
    <3>2. CASE p # q
      BY <1>3, <2>1, <3>2, Others
    <3> QED BY <3>1, <3>2
  <2> QED BY <1>3, <2>1, AllSame, Actors
<1> QED BY <1>1, <1>4 DEF AccessInv, AccessOf
-----------------------------------------------------------------------------
\* The invariant holds at first,
LEMMA InvInit == Init => Inv
<1> SUFFICES ASSUME Init PROVE Inv
  OBVIOUS
<1>0. scenario \in ScenarioType
  BY ServerAssumption DEF Init
<1>1. MainTypes
  BY <1>0 DEF Init, MainTypes, Places
<1>2. ServiceTypes
  <2>1. <<>> \in Seq(Deferred)
    OBVIOUS
  <2> QED BY <2>1 DEF Init, ServiceTypes
<1>3. TurnTypes
  BY NoTurnFacts DEF Init, TurnTypes
<1>4. CallTypes
  BY DEF Init, MilvusInit, CallTypes, Idle
<1>5. AccessTypes
  BY AccessAssumption DEF Init, AccessTypes, Never
<1>6. IndexInv
  <2>1. ToSet(Fields) = {"id", "content", "vector"}
    BY DEF ToSet, Fields
  <2> QED BY <2>1 DEF Init, MilvusInit, IndexInv
<1>7. ASSUME NEW p \in Processes PROVE CallInv(p) /\ ReadyInv(p)
  BY NoTurnFacts DEF Init, MilvusInit, CallInv, ReadyInv, Idle, Requested
<1>8. ASSUME NEW p \in Processes PROVE DefersInv(p) /\ OpenInv(p) /\ LoopsInv(p)
  <2>1. defers[p] = <<>> /\ "controller" \notin ToSet(defers[p])
    BY DEF Init, ToSet
  <2>2. DefersInv(p) /\ OpenInv(p)
    BY NoTurnFacts DEF Init, DefersInv, OpenInv, Running
  <2> QED BY <2>1, <2>2 DEF LoopsInv
<1>9. GrantInv
  BY DEF Init, GrantInv
<1>10. ASSUME NEW p \in Processes PROVE ConfigInv(p) /\ TurnInv(p)
  BY NoTurnFacts DEF Init, ConfigInv, TurnInv, Requested, Handling, Serving
<1> QED BY <1>1, <1>2, <1>3, <1>4, <1>5, <1>6, <1>7, <1>8, <1>9, <1>10
           DEF Inv, Types, MilvusInv, ServiceInv, AccessInv

\* and every step keeps it.
LEMMA InvNext == Inv /\ [Next]_vars => Inv'
<1> SUFFICES ASSUME Inv, [Next]_vars PROVE Inv'
  OBVIOUS
<1>1. CASE Next
  <2>1. Types'
    BY <1>1, MainTyped, ServiceTyped, TurnTyped, CallTyped, AccessTyped DEF Inv, Types, AccessInv
  <2>2. MilvusInv'
    BY <1>1, MilvusKept DEF Inv
  <2>3. ServiceInv'
    BY <1>1, ServiceKept DEF Inv
  <2>4. AccessInv'
    BY <1>1, <2>1, AccessKept DEF Inv
  <2> QED BY <2>1, <2>2, <2>3, <2>4 DEF Inv
<1>2. CASE UNCHANGED vars
  <2>1. UNCHANGED <<pc, config, open, defers, hasShutdown, late, from, admitting, turn, caller,
                    database, collection, indexes, step, clock, tokens, granted, scenario>>
    BY <1>2 DEF vars, processVars, milvusVars, serverVars, accessVars, countVars
  <2>2. Types'
    BY <2>1 DEF Inv, Types, MainTypes, ServiceTypes, TurnTypes, CallTypes, AccessTypes
  <2>3. MilvusInv'
    BY <2>1 DEF Inv, MilvusInv, IndexInv, CallInv, ReadyInv, Ready, Requested
  <2>4. ServiceInv'
    BY <2>1 DEF Inv, ServiceInv, DefersInv, OpenInv, LoopsInv, Whole, Running
  <2>5. AccessInv'
    BY <2>1 DEF Inv, AccessInv, GrantInv, ConfigInv, TurnInv, Current, Requested, Handling,
                Serving, Grant
  <2> QED BY <2>2, <2>3, <2>4, <2>5 DEF Inv
<1> QED BY <1>1, <1>2

\* The invariant holds in every behaviour.
LEMMA InvHolds == Spec => []Inv
BY InvInit, InvNext, PTL DEF Spec
-----------------------------------------------------------------------------
\* A process that serves finds its collection, with the vector field's index, whatever other
\* processes do at the same time (client.go:49-111).
THEOREM ReadyCorrect == Spec => []CollectionReady
<1>1. Inv => CollectionReady
  <2> SUFFICES ASSUME Inv, NEW p \in Processes, Serving(p)
               PROVE  database /\ collection /\ indexes = ToSet(Fields)
    BY DEF CollectionReady
  <2>1. ToSet(Fields) = {"id", "content", "vector"}
    BY DEF ToSet, Fields
  <2>2. Ready /\ IndexInv
    BY DEF Inv, MilvusInv, ReadyInv, Serving
  <2> QED BY <2>1, <2>2 DEF Ready, IndexInv
<1> QED BY <1>1, InvHolds, PTL

\* The services of a turn are open until it ends or the wait for it does (main.go:38-111).
THEOREM ServedCorrect == Spec => []TurnsServed
<1>1. Inv => TurnsServed
  <2> SUFFICES ASSUME Inv, NEW p \in Processes, Running(p), ~late[p]
               PROVE  /\ StoreOf(config[p].store) \subseteq open[p]
                      /\ "runtime" \in ToSet(defers[p])
                      /\ "observability" \in ToSet(defers[p])
    BY DEF TurnsServed
  <2>1. Whole(p)
    BY DEF Inv, ServiceInv, DefersInv
  <2> QED BY <2>1, AllDeferred DEF Whole
<1> QED BY <1>1, InvHolds, PTL

\* Whatever step of a start panics, or when the server has stopped, the connections of the
\* store are closed, and so is what had a close deferred (main.go:38-97).
THEOREM ExitCorrect == Spec => []ExitClean
<1>1. Inv => ExitClean
  <2> SUFFICES ASSUME Inv, NEW p \in Processes, pc[p] = "exit"
               PROVE  /\ open[p] \cap {"db", "redis"} = {}
                      /\ "mcp" \in open[p] => from[p] \in {"agent", "runtime"}
                      /\ hasShutdown[p] => open[p] \cap {"trace", "meter"} = {}
    BY DEF ExitClean
  <2>1. defers[p] = <<>> /\ OpenInv(p)
    BY DEF Inv, ServiceInv, DefersInv
  <2>2. ToSet(defers[p]) = {}
    BY <2>1 DEF ToSet
  <2> QED BY <2>1, <2>2 DEF OpenInv
<1> QED BY <1>1, InvHolds, PTL

\* The roles a turn is let in with were given its user, under the secret of its process, less
\* than a token's life before, whatever was configured and restarted since (service.go:105-154).
THEOREM PrincipalCorrect == Spec => []PrincipalCurrent
<1>1. Inv => PrincipalCurrent
  BY DEF Inv, AccessInv, TurnInv, PrincipalCurrent
<1> QED BY <1>1, InvHolds, PTL

\* A tool with a policy runs in a turn whose own user was given a role of it that late
\* (policy.go:46-70).
THEOREM ToolsCorrect == Spec => []ToolsPermitted
<1>1. Inv => ToolsPermitted
  <2> SUFFICES ASSUME Inv, NEW p \in Processes, Requested(p), NEW tool \in turn[p].tools,
                      Policy[tool] # {}
               PROVE  turn[p].roles \cap Policy[tool] # {} /\ Current(p, turn[p].roles)
    BY DEF ToolsPermitted
  <2>1. Current(p, turn[p].roles) /\ toolAllowed(Policy[tool], turn[p].roles)
    BY DEF Inv, AccessInv, TurnInv
  <2>2. turn[p].roles \cap Policy[tool] # {}
    BY <2>1 DEF toolAllowed
  <2> QED BY <2>1, <2>2
<1> QED BY <1>1, InvHolds, PTL
-----------------------------------------------------------------------------
\* A process is in a call exactly when someone waits for it, and a connection that is closed
\* was there: the one to the default database by the load (client.go:49-111), the client by
\* the retriever's error path when there is no embedder (retriever.go).
InCall(p) == step[p].call # "none"
OnDefault(p) == step[p].call \notin {"none", "databases"}
OnClient(p) == step[p].call \in {"create collection", "index", "load"}
ConnectionTypes == defaults \in [Processes -> Nat] /\ clients \in [Processes -> Nat]
ConnectionInv(p) ==
    /\ caller[p] # "none" <=> InCall(p)
    /\ OnDefault(p) => defaults[p] # 0
    /\ OnClient(p) => clients[p] # 0
    /\ pc[p] = "runtime" /\ caller[p] = "none" => clients[p] # 0

\* Where a call goes to.
LEMMA CallPlaces ==
    ASSUME NEW p \in Processes, DOMAIN step = Processes, NEW c, GotoCall(p, c)
    PROVE  /\ c = "none" => ~InCall(p)' /\ ~OnDefault(p)' /\ ~OnClient(p)'
           /\ c = "databases" => InCall(p)' /\ ~OnDefault(p)' /\ ~OnClient(p)'
           /\ c \in {"create database", "collections"} => InCall(p)' /\ OnDefault(p)' /\ ~OnClient(p)'
           /\ c \in {"create collection", "index", "load"} => InCall(p)' /\ OnDefault(p)' /\ OnClient(p)'
<1>1. step'[p].call = c
  BY DEF GotoCall
<1> QED BY <1>1, Zenon DEF InCall, OnDefault, OnClient

\* A step that leaves call and connections alone keeps them.
LEMMA ConnectionKept ==
    ASSUME NEW p \in Processes, ConnectionInv(p), UNCHANGED <<defaults[p], clients[p], caller[p], step[p]>>,
           pc'[p] = pc[p] \/ pc'[p] # "runtime"
    PROVE  ConnectionInv(p)'
BY Zenon DEF ConnectionInv, InCall, OnDefault, OnClient

\* The calls of NewMilvusClient leave the connections in order,
LEMMA ConnectingStep ==
    ASSUME ConnectionTypes, NEW p \in Processes, ConnectionInv(p), DOMAIN step = Processes,
           Connecting(p), UNCHANGED <<pc, caller>>
    PROVE  ConnectionTypes' /\ ConnectionInv(p)'
<1>1. CASE ListDatabases(p)
  <2>1. ~OnClient(p) /\ InCall(p)
    BY <1>1, Zenon DEF ListDatabases, At, OnClient, InCall
  <2>2. InCall(p)' /\ OnDefault(p)' /\ ~OnClient(p)'
    <3>1. GotoCall(p, "collections") \/ GotoCall(p, "create database")
      BY <1>1, Zenon DEF ListDatabases
    <3> QED BY <3>1, CallPlaces, Zenon
  <2>3. defaults' = [defaults EXCEPT ![p] = @ + 1] /\ clients' = clients
    BY <1>1, Zenon DEF ListDatabases
  <2> QED BY <2>1, <2>2, <2>3 DEF ConnectionTypes, ConnectionInv
<1>2. CASE CreateDatabase(p)
  <2>1. InCall(p) /\ OnDefault(p)
    BY <1>2, Zenon DEF CreateDatabase, At, InCall, OnDefault
  <2>2. InCall(p)' /\ OnDefault(p)' /\ ~OnClient(p)'
    BY <1>2, CallPlaces, Zenon DEF CreateDatabase
  <2>3. defaults' = defaults /\ clients' = clients
    <3>1. connections' = connections
      BY <1>2, Zenon DEF CreateDatabase
    <3> QED BY <3>1 DEF connections
  <2> QED BY <2>1, <2>2, <2>3 DEF ConnectionTypes, ConnectionInv
<1>3. CASE ListCollections(p)
  <2>1. InCall(p) /\ OnDefault(p)
    BY <1>3, Zenon DEF ListCollections, At, InCall, OnDefault
  <2>2. InCall(p)' /\ OnDefault(p)'
    <3>1. GotoCall(p, "load") \/ GotoCall(p, "create collection")
      BY <1>3, Zenon DEF ListCollections
    <3> QED BY <3>1, CallPlaces, Zenon
  <2>3. defaults' = defaults /\ clients' = [clients EXCEPT ![p] = @ + 1]
    BY <1>3, Zenon DEF ListCollections
  <2> QED BY <2>1, <2>2, <2>3 DEF ConnectionTypes, ConnectionInv
<1>4. CASE CreateCollection(p) \/ CreateIndex(p)
  <2>1. InCall(p) /\ OnDefault(p) /\ OnClient(p)
    BY <1>4, Zenon DEF CreateCollection, CreateIndex, At, InCall, OnDefault, OnClient
  <2>2. InCall(p)' /\ OnDefault(p)' /\ OnClient(p)'
    <3>1. CASE GotoCall(p, "index") \/ GotoCall(p, "load")
      BY <3>1, CallPlaces, Zenon
    <3>2. CASE step' = [step EXCEPT ![p].index = @ + 1]
      <4>1. step'[p].call = step[p].call
        BY <3>2
      <4> QED BY <2>1, <4>1, Zenon DEF InCall, OnDefault, OnClient
    <3> QED BY <1>4, <3>1, <3>2, Zenon DEF CreateCollection, CreateIndex
  <2>3. defaults' = defaults /\ clients' = clients
    <3>1. connections' = connections
      BY <1>4, Zenon DEF CreateCollection, CreateIndex
    <3> QED BY <3>1 DEF connections
  <2> QED BY <2>1, <2>2, <2>3 DEF ConnectionTypes, ConnectionInv
<1> QED BY <1>1, <1>2, <1>3, <1>4 DEF Connecting

\* and so do its ends.
LEMMA ConnectedStep ==
    ASSUME Types, ConnectionTypes, NEW p \in Processes, ConnectionInv(p), ReadyInv(p),
           MilvusConnected(p) \/ MilvusFails(p)
    PROVE  ConnectionTypes' /\ ConnectionInv(p)'
<1>0. DOMAIN pc = Processes /\ DOMAIN caller = Processes /\ DOMAIN step = Processes
  BY DEF Types, MainTypes, TurnTypes, CallTypes
<1>1. /\ ~InCall(p)' /\ ~OnDefault(p)' /\ ~OnClient(p)' /\ caller'[p] = "none"
  <2>1. GotoCall(p, "none") /\ caller' = [caller EXCEPT ![p] = "none"]
    BY Zenon DEF MilvusConnected, LoadCollection, MilvusFails, NewMilvusClientFails
  <2>2. caller'[p] = "none"
    BY <1>0, <2>1
  <2> QED BY <1>0, <2>1, <2>2, CallPlaces, Zenon
<1>2. CASE MilvusConnected(p)
  <2>1. OnDefault(p) /\ OnClient(p)
    BY <1>2, Zenon DEF MilvusConnected, LoadCollection, At, OnDefault, OnClient
  <2>2. /\ defaults' = [defaults EXCEPT ![p] = @ - 1] /\ clients' = clients
    BY <1>2, Zenon DEF MilvusConnected, LoadCollection
  <2> QED BY <1>1, <2>1, <2>2 DEF ConnectionTypes, ConnectionInv
<1>3. CASE MilvusFails(p)
  <2>1. \/ defaults' = defaults
        \/ \E n \in {0, 1} : defaults' = [defaults EXCEPT ![p] = @ + n]
        \/ OnDefault(p) /\ defaults' = [defaults EXCEPT ![p] = @ - 1]
    BY <1>3, Zenon DEF MilvusFails, NewMilvusClientFails, At, OnDefault
  <2>2. clients' = clients \/ \E n \in {0, 1} : clients' = [clients EXCEPT ![p] = @ + n]
    BY <1>3, Zenon DEF MilvusFails, NewMilvusClientFails
  <2>3. ConnectionTypes'
    BY <2>1, <2>2 DEF ConnectionTypes, ConnectionInv
  <2>4. pc'[p] # "runtime"
    <3>1. CASE caller[p] = "runtime"
      <4>1. pc' = [pc EXCEPT ![p] = "unwind"]
        BY <1>3, <3>1, Zenon DEF MilvusFails, Unwind
      <4> QED BY <1>0, <4>1
    <3>2. CASE caller[p] = "upload"
      <4>1. pc' = pc
        BY <1>3, <3>2 DEF MilvusFails
      <4> QED BY <3>2, <4>1 DEF ReadyInv
    <3> QED BY <1>3, <3>1, <3>2, Zenon DEF MilvusFails
  <2> QED BY <1>1, <2>3, <2>4 DEF ConnectionInv
<1> QED BY <1>2, <1>3

\* Every step of a process leaves its connections in order.
LEMMA ConnectionStep ==
    ASSUME Types, MilvusInv, ConnectionTypes, NEW p \in Processes, ConnectionInv(p), Acts(p)
    PROVE  ConnectionTypes' /\ ConnectionInv(p)'
<1> DEFINE Good == ConnectionTypes' /\ ConnectionInv(p)'
<1>0. /\ DOMAIN pc = Processes /\ DOMAIN caller = Processes /\ DOMAIN step = Processes
      /\ ReadyInv(p)
  BY DEF Types, MainTypes, TurnTypes, CallTypes, MilvusInv
<1>2. CASE UNCHANGED <<defaults, clients, caller, step>> /\ (pc'[p] = pc[p] \/ pc'[p] # "runtime")
  BY <1>2, ConnectionKept DEF ConnectionTypes
<1>3. ASSUME \/ \E c \in scenario.configs : Start(p, c)
             \/ BuildFails(p) \/ Compile(p) \/ Observability(p) \/ OpenStore(p) \/ OpenStoreFails(p)
             \/ StopServing(p) \/ CloseLimiter(p) \/ RunDeferred(p) \/ Exit(p)
             \/ LoginRequest(p) \/ (\E t \in tokens : Authenticate(p, t)) \/ Admit(p) \/ BeginTurn(p) \/ EndTurn(p)
      PROVE  Good
  <2>1. UNCHANGED <<caller, milvusVars>>
    BY <1>3, Zenon DEF Start, BuildFails, Compile, Observability, OpenStore, OpenStoreFails,
                       StopServing, CloseLimiter, RunDeferred, Exit, LoginRequest, Authenticate,
                       Admit, BeginTurn, EndTurn
  <2>2. UNCHANGED <<defaults, clients, caller, step>>
    BY <2>1 DEF milvusVars, connections
  <2>3. pc' = pc \/ \E l \in Places \ {"runtime"} : pc' = [pc EXCEPT ![p] = l]
    <3>1. CASE Observability(p) \/ OpenStoreFails(p)
      BY <3>1, Zenon DEF Observability, OpenStoreFails, Unwind, Goto, Places
    <3>2. CASE ~Observability(p) /\ ~OpenStoreFails(p)
      BY <1>3, <3>2 DEF Start, BuildFails, Compile, OpenStore, StopServing, CloseLimiter,
                        RunDeferred, Exit, LoginRequest, Authenticate, Admit, BeginTurn, EndTurn,
                        Unwind, Goto, processVars, Places
    <3> QED BY <3>1, <3>2
  <2>4. pc'[p] = pc[p] \/ pc'[p] # "runtime"
    BY <1>0, <2>3
  <2> QED BY <1>2, <2>2, <2>4
<1>4. CASE EmbedderFails(p)
  <2>1. UNCHANGED <<defaults, caller, step>> /\ pc'[p] # "runtime"
    BY <1>0, <1>4 DEF EmbedderFails, Unwind
  <2>2. /\ clients' = [clients EXCEPT ![p] = @ - 1]
        /\ pc[p] = "runtime" /\ caller[p] = "none"
    BY <1>4, Zenon DEF EmbedderFails
  <2>3. (InCall(p)' <=> InCall(p)) /\ (OnDefault(p)' <=> OnDefault(p)) /\ (OnClient(p)' => InCall(p))
    BY <2>1, Zenon DEF InCall, OnDefault, OnClient
  <2> QED BY <2>1, <2>2, <2>3 DEF ConnectionTypes, ConnectionInv
<1>5. CASE ReactAgent(p) \/ Upload(p)
  <2>1. UNCHANGED <<defaults, clients>> /\ caller'[p] # "none" /\ GotoCall(p, "databases")
    BY <1>0, <1>5 DEF ReactAgent, Upload, connections
  <2>2. InCall(p)' /\ ~OnDefault(p)' /\ ~OnClient(p)'
    BY <1>0, <2>1, CallPlaces, Zenon
  <2> QED BY <2>1, <2>2 DEF ConnectionTypes, ConnectionInv
<1>6. ASSUME NEW tool \in DOMAIN Policy, CallTool(p, tool) PROVE Good
  <2>1. UNCHANGED <<defaults, clients, pc>>
    BY <1>6 DEF CallTool, processVars, connections
  <2>2. CASE tool = "query_internal_docs"
    <3>1. caller'[p] # "none" /\ GotoCall(p, "databases")
      BY <1>0, <1>6, <2>2 DEF CallTool
    <3>2. InCall(p)' /\ ~OnDefault(p)' /\ ~OnClient(p)'
      BY <1>0, <3>1, CallPlaces, Zenon
    <3> QED BY <2>1, <3>1, <3>2 DEF ConnectionTypes, ConnectionInv
  <2>3. CASE tool # "query_internal_docs"
    BY <1>2, <1>6, <2>1, <2>3 DEF CallTool
  <2> QED BY <2>2, <2>3
<1>7. CASE MilvusConnected(p) \/ MilvusFails(p)
  BY <1>0, <1>7, ConnectedStep
<1>8. CASE MilvusStep(p)
  <2>1. UNCHANGED <<pc, caller>> /\ Connecting(p)
    BY <1>8 DEF MilvusStep, processVars
  <2> QED BY <1>0, <2>1, ConnectingStep
<1>9. CASE Fatal(p) \/ Kill(p)
  <2>1. Down(p)
    BY <1>9, Zenon DEF Fatal, Kill
  <2>2. /\ step'[p].call = "none" /\ caller'[p] = "none" /\ pc'[p] = "down"
        /\ defaults' = [defaults EXCEPT ![p] = 0] /\ clients' = [clients EXCEPT ![p] = 0]
    BY <1>0, <2>1 DEF Down, Idle
  <2>3. ~InCall(p)' /\ ~OnDefault(p)' /\ ~OnClient(p)'
    BY <2>2, Zenon DEF InCall, OnDefault, OnClient
  <2> QED BY <2>2, <2>3 DEF ConnectionTypes, ConnectionInv
<1> HIDE DEF Good
<1> QED BY <1>3, <1>4, <1>5, <1>6, <1>7, <1>8, <1>9
           DEF Good, Acts, Starting, Requests, Milvus, Ending

\* It leaves those of the others alone,
LEMMA ConnectionOthers ==
    ASSUME ConnectionTypes, NEW p \in Processes, Acts(p), NEW q \in Processes, q # p
    PROVE  UNCHANGED <<defaults[q], clients[q]>>
<1>1. (\E n : defaults' = [defaults EXCEPT ![p] = n]) => defaults'[q] = defaults[q]
  BY DEF ConnectionTypes
<1>2. (\E n : clients' = [clients EXCEPT ![p] = n]) => clients'[q] = clients[q]
  BY DEF ConnectionTypes
<1>3. UNCHANGED connections => defaults' = defaults /\ clients' = clients
  BY DEF connections
<1>4. UNCHANGED milvusVars => UNCHANGED connections
  BY DEF milvusVars
<1>5. CASE Starting(p)
  BY <1>1, <1>2, <1>3, <1>4, <1>5, Zenon
     DEF Starting, Start, ReactAgent, BuildFails, EmbedderFails, Compile, Observability, OpenStore,
         OpenStoreFails
<1>6. CASE Requests(p) \/ Ending(p)
  BY <1>1, <1>2, <1>3, <1>4, <1>6, Zenon
     DEF Requests, LoginRequest, Authenticate, Admit, BeginTurn, CallTool, EndTurn, Upload,
         Ending, StopServing, CloseLimiter, RunDeferred, Exit, Kill, Down
<1>7. CASE Milvus(p)
  BY <1>1, <1>2, <1>3, <1>7, Zenon
     DEF Milvus, MilvusStep, Connecting, ListDatabases, CreateDatabase, ListCollections,
         CreateCollection, CreateIndex, MilvusConnected, LoadCollection, MilvusFails,
         NewMilvusClientFails, Fatal, Down
<1> QED BY <1>5, <1>6, <1>7 DEF Acts

\* so that all connections are in order in every behaviour.
ConnectionsInv == ConnectionTypes /\ \A p \in Processes : ConnectionInv(p)
LEMMA ConnectionsHold == Spec => []ConnectionsInv
<1>1. Init => ConnectionsInv
  <2> SUFFICES ASSUME Init PROVE ConnectionsInv
    OBVIOUS
  <2>1. ConnectionTypes
    BY DEF Init, MilvusInit, ConnectionTypes
  <2>2. ASSUME NEW p \in Processes PROVE ConnectionInv(p)
    <3>1. step[p].call = "none" /\ caller[p] = "none" /\ pc[p] = "down"
      BY DEF Init, MilvusInit, Idle
    <3> QED BY <3>1, Zenon DEF ConnectionInv, InCall, OnDefault, OnClient
  <2> QED BY <2>1, <2>2 DEF ConnectionsInv
<1>2. Inv /\ ConnectionsInv /\ [Next]_vars => ConnectionsInv'
  <2> SUFFICES ASSUME Inv, ConnectionsInv, [Next]_vars PROVE ConnectionsInv'
    OBVIOUS
  <2>1. Types /\ MilvusInv /\ ConnectionTypes /\ \A p \in Processes : ConnectionInv(p)
    BY DEF Inv, ConnectionsInv
  <2>2. CASE UNCHANGED <<defaults, clients, caller, step, pc>>
    BY <2>1, <2>2, ConnectionKept DEF ConnectionsInv, ConnectionTypes
  <2>3. ASSUME NEW p \in Processes, Acts(p) PROVE ConnectionsInv'
    <3>1. ConnectionTypes' /\ ConnectionInv(p)'
      BY <2>1, <2>3, ConnectionStep
    <3>2. ASSUME NEW q \in Processes, q # p PROVE ConnectionInv(q)'
      <4>1. UNCHANGED <<defaults[q], clients[q]>>
        BY <2>1, <2>3, <3>2, ConnectionOthers
      <4>2. UNCHANGED <<caller[q], step[q], pc[q]>>
        BY <2>1, <2>3, <3>2, Others DEF Same
      <4> QED BY <2>1, <4>1, <4>2, ConnectionKept
    <3> QED BY <3>1, <3>2 DEF ConnectionsInv
  <2>4. CASE Tick \/ Over \/ UNCHANGED vars
    BY <2>2, <2>4 DEF Tick, Over, vars, milvusVars, connections, processVars
  <2> QED BY <2>3, <2>4, Actors
<1> QED BY <1>1, <1>2, InvHolds, PTL DEF Spec
-----------------------------------------------------------------------------
\* No close is deferred twice, whatever step main comes to or ends at.
DistinctInv == \A p \in Processes : IsInjective(defers[p])
LEMMA DistinctStep ==
    ASSUME Inv, Inv', DistinctInv, NEW p \in Processes, Acts(p)
    PROVE  IsInjective(defers'[p])
<1>0. /\ DOMAIN pc = Processes /\ DOMAIN defers = Processes /\ IsInjective(defers[p])
      /\ defers[p] \in Seq(Deferred) /\ DefersInv(p)'
  BY DEF Inv, Types, MainTypes, ServiceTypes, ServiceInv, DistinctInv
<1>1. CASE defers'[p] = defers[p]
  BY <1>0, <1>1
<1>2. CASE RunDeferred(p)
  <2>1. defers'[p] = Front(defers[p]) /\ defers[p] # <<>>
    BY <1>0, <1>2 DEF RunDeferred
  <2>2. PICK m \in Nat : m = Len(defers[p]) /\ DOMAIN defers[p] = 1 .. m /\ m > 0
    BY <1>0, <2>1
  <2>3. PICK f : f = Front(defers[p])
    OBVIOUS
  <2>4. DOMAIN f = 1 .. m - 1 /\ \A n \in 1 .. m - 1 : f[n] = defers[p][n]
    BY <1>0, <2>1, <2>2, <2>3 DEF Front
  <2>5. \A n \in DOMAIN f : n \in DOMAIN defers[p] /\ f[n] = defers[p][n]
    BY <2>2, <2>4
  <2>6. IsInjective(f)
    BY <1>0, <2>5, Zenon DEF IsInjective
  <2> QED BY <2>1, <2>3, <2>6
<1>3. CASE pc'[p] \in {"observability", "store", "serve", "down"}
  <2>1. PICK a, b, c : a = <<>> /\ b = <<"runtime">> /\ c = <<"runtime", "observability">>
    OBVIOUS
  <2>2. IsInjective(a) /\ IsInjective(b) /\ IsInjective(c)
    BY <2>1 DEF IsInjective
  <2>3. defers'[p] \in {a, b, c, AllDefers(config[p].store)'}
    BY <1>0, <1>3, <2>1 DEF DefersInv, Whole
  <2>4. IsInjective(AllDefers(config'[p].store))
    BY AllDistinct
  <2>5. AllDefers(config[p].store)' = AllDefers(config'[p].store)
    BY Zenon DEF AllDefers, ServeDefers, StoreDefers, Defer, StoreOf
  <2> QED BY <2>2, <2>3, <2>4, <2>5
<1>4. \/ defers' = defers \/ RunDeferred(p)
      \/ \E l \in {"observability", "store", "serve", "down"} : pc' = [pc EXCEPT ![p] = l]
  <2>1. CASE Starting(p)
    BY <2>1, Zenon DEF Starting, Start, ReactAgent, BuildFails, EmbedderFails, Compile,
                       Observability, OpenStore, OpenStoreFails, Unwind, Goto
  <2>2. UNCHANGED processVars => defers' = defers
    BY DEF processVars
  <2>3. CASE Requests(p) \/ Ending(p)
    BY <2>2, <2>3, Zenon DEF Requests, LoginRequest, Authenticate, Admit, BeginTurn, CallTool,
                             EndTurn, Upload, Ending, StopServing, CloseLimiter, Exit, Kill, Down,
                             Unwind
  <2>4. CASE Milvus(p)
    BY <2>2, <2>4, Zenon DEF Milvus, MilvusStep, MilvusConnected, MilvusFails, Fatal, Down, Unwind
  <2> QED BY <2>1, <2>3, <2>4 DEF Acts
<1> QED BY <1>0, <1>1, <1>2, <1>3, <1>4

\* Starts are counted up to the bound, and the server has databases and collections or not.
CountersInv == starts \in 0 .. scenario.starts /\ database \in BOOLEAN /\ collection \in BOOLEAN
LEMMA CountersStep ==
    ASSUME Inv, CountersInv, [Next]_vars
    PROVE  CountersInv'
<1>1. scenario' = scenario /\ starts' \in {starts, starts + 1}
      /\ (starts' # starts => starts < scenario.starts)
  <2>1. UNCHANGED countVars => scenario' = scenario /\ starts' = starts
    BY DEF countVars
  <2>2. ASSUME NEW p \in Processes, NEW c \in scenario.configs, Start(p, c)
        PROVE  scenario' = scenario /\ starts' = starts + 1 /\ starts < scenario.starts
    BY <2>2, Zenon DEF Start
  <2>3. ASSUME NEW p \in Processes, Starting(p), \A c \in scenario.configs : ~Start(p, c)
        PROVE  scenario' = scenario /\ starts' = starts
    BY <2>1, <2>3, Zenon DEF Starting, ReactAgent, BuildFails, EmbedderFails, Compile,
                             Observability, OpenStore, OpenStoreFails
  <2>4. ASSUME NEW p \in Processes, Requests(p) \/ Ending(p)
        PROVE  scenario' = scenario /\ starts' = starts
    BY <2>1, <2>4, Zenon DEF Requests, LoginRequest, Authenticate, Admit, BeginTurn, CallTool,
                             EndTurn, Upload, Ending, StopServing, CloseLimiter, RunDeferred,
                             Exit, Kill, Down
  <2>5. ASSUME NEW p \in Processes, Milvus(p)
        PROVE  scenario' = scenario /\ starts' = starts
    BY <2>1, <2>5, Zenon DEF Milvus, MilvusStep, MilvusConnected, MilvusFails, Fatal, Down
  <2>6. CASE Tick \/ Over \/ UNCHANGED vars
    BY <2>1, <2>6 DEF Tick, Over, vars
  <2> QED BY <2>2, <2>3, <2>4, <2>5, <2>6 DEF Next
<1>2. database' \in BOOLEAN /\ collection' \in BOOLEAN
  <2>1. UNCHANGED serverVars => database' = database /\ collection' = collection
    BY DEF serverVars
  <2>2. UNCHANGED vars => UNCHANGED serverVars
    BY DEF vars, milvusVars
  <2>3. \/ database' = database \/ database' = TRUE
    BY <2>1, <2>2, ServerKept, Zenon DEF CreateDatabase, CreateCollection, CreateIndex
  <2>4. \/ collection' = collection \/ collection' = TRUE
    BY <2>1, <2>2, ServerKept, Zenon DEF CreateDatabase, CreateCollection, CreateIndex
  <2>5. database \in BOOLEAN /\ collection \in BOOLEAN
    BY DEF CountersInv
  <2> QED BY <2>3, <2>4, <2>5, Zenon
<1>3. scenario.starts \in Nat /\ starts \in 0 .. scenario.starts
  BY DEF CountersInv, Inv, Types, MainTypes, ScenarioType
<1>4. starts' \in 0 .. scenario'.starts
  BY <1>1, <1>3
<1> QED BY <1>2, <1>4 DEF CountersInv


\* No close is deferred twice in any behaviour,
LEMMA DistinctHolds == Spec => []DistinctInv
<1>1. Init => DistinctInv
  <2>1. PICK e : e = <<>>
    OBVIOUS
  <2>2. IsInjective(e)
    BY <2>1 DEF IsInjective
  <2>3. ASSUME Init, NEW p \in Processes PROVE defers[p] = e
    BY <2>1, <2>3 DEF Init
  <2> QED BY <2>2, <2>3 DEF DistinctInv
<1>2. Inv /\ Inv' /\ DistinctInv /\ [Next]_vars => DistinctInv'
  <2> SUFFICES ASSUME Inv, Inv', DistinctInv, [Next]_vars, NEW q \in Processes
               PROVE  IsInjective(defers[q])'
    BY DEF DistinctInv
  <2>1. CASE defers'[q] = defers[q]
    BY <2>1 DEF DistinctInv
  <2>2. ASSUME NEW p \in Processes, Acts(p) PROVE IsInjective(defers[q])'
    <3>1. CASE p = q
      BY <2>2, <3>1, DistinctStep
    <3>2. CASE p # q
      <4>1. Same(q)
        BY <2>2, <3>2, Others DEF Inv
      <4> QED BY <2>1, <4>1 DEF Same
    <3> QED BY <3>1, <3>2
  <2>3. CASE Tick \/ Over \/ UNCHANGED vars
    BY <2>1, <2>3 DEF Tick, Over, vars, processVars
  <2> QED BY <2>2, <2>3, Actors
<1> QED BY <1>1, <1>2, InvHolds, PTL DEF Spec

\* and the counters keep to their bounds.
LEMMA CountersHold == Spec => []CountersInv
<1>1. Init => CountersInv
  <2> SUFFICES ASSUME Init PROVE CountersInv
    OBVIOUS
  <2>1. starts = 0 /\ scenario.starts \in Nat
    <3>1. starts = 0 /\ scenario \in ScenarioType
      BY ServerAssumption DEF Init
    <3> QED BY <3>1 DEF ScenarioType
  <2>2. database \in BOOLEAN /\ collection \in BOOLEAN
    BY DEF Init, MilvusInit
  <2> QED BY <2>1, <2>2 DEF CountersInv
<1> QED BY <1>1, CountersStep, InvHolds, PTL DEF Spec

\* Types hold; a process is in a call of NewMilvusClient exactly when someone waits for it
\* (client.go:49-111), no connection is closed that was not there, and no close of main.go:21-111
\* is deferred twice.
THEOREM TypeCorrect == Spec => []TypeOK
<1>1. Inv /\ ConnectionsInv /\ DistinctInv /\ CountersInv => TypeOK
  <2> SUFFICES ASSUME Inv, ConnectionsInv, DistinctInv, CountersInv PROVE TypeOK
    OBVIOUS
  <2>1. MilvusTypeOK
    <3>1. ToSet(Fields) = {"id", "content", "vector"} /\ Len(Fields) = 3
      BY DEF ToSet, Fields
    <3>2. indexes \subseteq ToSet(Fields)
      BY <3>1 DEF Inv, MilvusInv, IndexInv
    <3>3. step \in [Processes -> [call : Calls \cup {"none"}, index : 1 .. Len(Fields)]]
      BY <3>1, Zenon DEF Inv, Types, CallTypes
    <3>4. database \in BOOLEAN /\ collection \in BOOLEAN
      BY DEF CountersInv
    <3>5. defaults \in [Processes -> Nat] /\ clients \in [Processes -> Nat]
      BY DEF ConnectionsInv, ConnectionTypes
    <3> QED BY <3>2, <3>3, <3>4, <3>5, Zenon DEF MilvusTypeOK
  <2>2. clock \in 0 .. MaxClock /\ tokens \subseteq TokenType
    BY DEF Inv, Types, AccessTypes
  <2>3. pc \in [Processes -> {"down", "agent", "runtime", "observability", "store", "serve",
                              "unwind", "exit"}]
    BY DEF Inv, Types, MainTypes, Places
  <2>4. ASSUME NEW p \in Processes
        PROVE  /\ open[p] \subseteq Resources
               /\ ToSet(defers[p]) \subseteq Deferred /\ IsInjective(defers[p])
               /\ (caller[p] = "none") <=> (step[p].call = "none")
    <3>1. open[p] \in SUBSET Resources /\ defers[p] \in Seq(Deferred)
      BY Zenon DEF Inv, Types, ServiceTypes
    <3>2. ToSet(defers[p]) \subseteq Deferred
      BY <3>1 DEF ToSet
    <3>3. (caller[p] = "none") <=> (step[p].call = "none")
      BY Zenon DEF ConnectionsInv, ConnectionInv, InCall
    <3>4. IsInjective(defers[p])
      BY DEF DistinctInv
    <3> QED BY <3>1, <3>2, <3>3, <3>4
  <2>5. starts \in 0 .. scenario.starts
    BY DEF CountersInv
  <2> QED BY <2>1, <2>2, <2>3, <2>4, <2>5, Zenon DEF TypeOK
<1> QED BY <1>1, InvHolds, ConnectionsHold, DistinctHolds, CountersHold, PTL
=============================================================================
