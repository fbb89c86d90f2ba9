----------------------------- MODULE CachedStore -----------------------------
(***************************************************************************)
(* The Redis cache in front of the PostgreSQL store                        *)
(* (src/internal/conversation/cache.go).                                   *)
(*                                                                         *)
(* The primary store is what module SQLStore shows of it: appends commit   *)
(* turns in an order and may report an error for a turn that is committed, *)
(* and a load reads the version and then the messages.  A history is known *)
(* by how many turns it holds, since the primary's rows are a function of  *)
(* that (RowsShowLog).  Redis may lose any command, and expires entries.   *)
(***************************************************************************)
EXTENDS Integers, FiniteSetsExt

CONSTANTS
    Clients,           \* goroutines that call the store
    Keys,              \* conversations
    NoSnapshot,        \* no entry in the cache
    Scenarios,         \* how the store is used and what may fail: see ScenarioType
    MaxCalls           \* bound: calls started in one behaviour

ScenarioType ==
    [serialized : BOOLEAN,   \* do the callers hold the conversation's turn lock?
     redisFails : BOOLEAN,   \* may a Redis command fail?
     ambiguous : BOOLEAN]    \* may an append that reports an error have committed?

\* cachedConversation: the messages of the first turns turns, and a version.
Snapshot == [turns : Nat, version : Nat]

ASSUME CachedStoreAssumption ==
    /\ Scenarios \subseteq ScenarioType
    /\ NoSnapshot \notin Snapshot
    /\ MaxCalls \in Nat

VARIABLES
    scenario,    \* what this behaviour is about
    committed,   \* committed[k]: the turns in PostgreSQL
    cache,       \* cache[k]: the entry in Redis
    pc, key,
    seen,        \* seen[c]: the version c's load read from PostgreSQL
    snapshot,    \* snapshot[c]: what c's load returns
    started,     \* calls started
    unknown,     \* unknown[k]: the turns in PostgreSQL whose append reported an error
    \* history, read by no step
    acked,       \* acked[k]: the last turn whose append reported success
    since        \* since[c]: acked when c's call started

vars == <<committed, cache, pc, key, seen, snapshot, started, unknown, acked, since, scenario>>
primaryVars == <<committed, unknown>>
callVars == <<key, started, since, scenario>>

Goto(c, l) == pc' = [pc EXCEPT ![c] = l]
-----------------------------------------------------------------------------
\* Where the turn lock is held, no other call on the conversation is under way.
Invoke(c) ==
    /\ pc[c] = "idle"
    /\ started < MaxCalls
    /\ started' = started + 1
    /\ \E k \in Keys, l \in {"get", "append"} :
          /\ scenario.serialized => \A d \in Clients : pc[d] # "idle" => key[d] # k
          /\ key' = [key EXCEPT ![c] = k]
          /\ since' = [since EXCEPT ![c] = acked[k]]
          /\ Goto(c, l)
    /\ UNCHANGED <<primaryVars, cache, seen, snapshot, acked, scenario>>
-----------------------------------------------------------------------------
\* Mutant: a hit renews the entry's time to live by writing it again.
MutGet(c) ==
    /\ pc[c] = "get"
    /\ \/ /\ cache[key[c]] # NoSnapshot
          /\ snapshot' = [snapshot EXCEPT ![c] = cache[key[c]]]
          /\ Goto(c, "set")
       \/ /\ cache[key[c]] = NoSnapshot \/ scenario.redisFails
          /\ Goto(c, "version")
          /\ UNCHANGED snapshot
    /\ UNCHANGED <<primaryVars, cache, seen, acked, callVars>>

\* Load: an entry of the cache is returned as it is; a miss, an outage and an
\* entry that does not parse go to the primary store.
Get(c) ==
    /\ pc[c] = "get"
    /\ \/ /\ cache[key[c]] # NoSnapshot
          /\ snapshot' = [snapshot EXCEPT ![c] = cache[key[c]]]
          /\ Goto(c, "loaded")
       \/ /\ cache[key[c]] = NoSnapshot \/ scenario.redisFails
          /\ Goto(c, "version")
          /\ UNCHANGED snapshot
    /\ UNCHANGED <<primaryVars, cache, seen, acked, callVars>>

\* SQLStore.Load, in two statements.
LoadVersion(c) ==
    /\ pc[c] = "version"
    /\ seen' = [seen EXCEPT ![c] = committed[key[c]]]
    /\ Goto(c, "messages")
    /\ UNCHANGED <<primaryVars, cache, snapshot, acked, callVars>>

\* Mutant: the version is read after the messages.
MutLoadMessages(c) ==
    /\ pc[c] = "messages"
    /\ snapshot' = [snapshot EXCEPT
                       ![c] = [turns |-> seen[c], version |-> committed[key[c]]]]
    /\ Goto(c, "set")
    /\ UNCHANGED <<primaryVars, cache, seen, acked, callVars>>

LoadMessages(c) ==
    /\ pc[c] = "messages"
    /\ snapshot' = [snapshot EXCEPT
                       ![c] = [turns |-> committed[key[c]], version |-> seen[c]]]
    /\ Goto(c, "set")
    /\ UNCHANGED <<primaryVars, cache, seen, acked, callVars>>

LoadFails(c) ==
    /\ pc[c] \in {"version", "messages"}
    /\ Goto(c, "failed")
    /\ UNCHANGED <<primaryVars, cache, seen, snapshot, acked, callVars>>

\* The best-effort write of what was read.
Set(c) ==
    /\ pc[c] = "set"
    /\ \/ cache' = [cache EXCEPT ![key[c]] = snapshot[c]]
       \/ scenario.redisFails /\ UNCHANGED cache
    /\ Goto(c, "loaded")
    /\ UNCHANGED <<primaryVars, seen, snapshot, acked, callVars>>
-----------------------------------------------------------------------------
\* Mutant: the entry is not invalidated.
MutAppendCommits(c) ==
    /\ pc[c] = "append"
    /\ committed' = [committed EXCEPT ![key[c]] = @ + 1]
    /\ seen' = [seen EXCEPT ![c] = committed[key[c]] + 1]
    /\ Goto(c, "committed")
    /\ acked' = [acked EXCEPT ![key[c]] = committed[key[c]] + 1]
    /\ UNCHANGED <<unknown, cache, snapshot, callVars>>

\* The three appends: the primary store first.  A commit is followed by
\* invalidate; an error and (false, nil) are returned at once.
AppendCommits(c) ==
    /\ pc[c] = "append"
    /\ committed' = [committed EXCEPT ![key[c]] = @ + 1]
    /\ seen' = [seen EXCEPT ![c] = committed[key[c]] + 1]
    /\ Goto(c, "delete")
    /\ UNCHANGED <<unknown, cache, snapshot, acked, callVars>>

AppendFails(c) ==
    /\ pc[c] = "append"
    /\ Goto(c, "failed")
    /\ UNCHANGED <<primaryVars, cache, seen, snapshot, acked, callVars>>

AppendUnacknowledged(c) ==
    /\ scenario.ambiguous
    /\ pc[c] = "append"
    /\ committed' = [committed EXCEPT ![key[c]] = @ + 1]
    /\ unknown' = [unknown EXCEPT ![key[c]] = @ \cup {committed[key[c]] + 1}]
    /\ Goto(c, "failed")
    /\ UNCHANGED <<cache, seen, snapshot, acked, callVars>>

\* AppendIfVersion at another version.
AppendSkipped(c) ==
    /\ pc[c] = "append"
    /\ Goto(c, "skipped")
    /\ UNCHANGED <<primaryVars, cache, seen, snapshot, acked, callVars>>

Acknowledge(k, n) == acked' = [acked EXCEPT ![k] = Max({@, n})]

\* AppendIdempotent of a turn that is committed although its first append
\* reported an error: (false, nil), which the caller takes for success.
AppendRepeated(c) ==
    /\ pc[c] = "append"
    /\ \E n \in unknown[key[c]] :
          /\ unknown' = [unknown EXCEPT ![key[c]] = @ \ {n}]
          /\ Acknowledge(key[c], n)
    /\ Goto(c, "skipped")
    /\ UNCHANGED <<committed, cache, seen, snapshot, callVars>>

\* invalidate, whose error is dropped.
Delete(c) ==
    /\ pc[c] = "delete"
    /\ \/ cache' = [cache EXCEPT ![key[c]] = NoSnapshot]
       \/ scenario.redisFails /\ UNCHANGED cache
    /\ Acknowledge(key[c], seen[c])
    /\ Goto(c, "committed")
    /\ UNCHANGED <<primaryVars, seen, snapshot, callVars>>

Return(c) ==
    /\ pc[c] \in {"loaded", "failed", "skipped", "committed"}
    /\ Goto(c, "idle")
    /\ seen' = [seen EXCEPT ![c] = 0]
    /\ snapshot' = [snapshot EXCEPT ![c] = NoSnapshot]
    /\ since' = [since EXCEPT ![c] = 0]
    /\ UNCHANGED <<primaryVars, cache, acked, key, started, scenario>>

\* The entry's time to live, which is never zero, runs out.
Expire(k) ==
    /\ cache[k] # NoSnapshot
    /\ cache' = [cache EXCEPT ![k] = NoSnapshot]
    /\ UNCHANGED <<primaryVars, pc, seen, snapshot, acked, callVars>>

Done ==
    /\ started = MaxCalls
    /\ \A c \in Clients : pc[c] = "idle"
    /\ UNCHANGED vars
-----------------------------------------------------------------------------
Init ==
    /\ scenario \in Scenarios
    /\ committed = [k \in Keys |-> 0]
    /\ cache = [k \in Keys |-> NoSnapshot]
    /\ pc = [c \in Clients |-> "idle"]
    /\ key \in [Clients -> Keys]
    /\ seen = [c \in Clients |-> 0]
    /\ snapshot = [c \in Clients |-> NoSnapshot]
    /\ started = 0
    /\ unknown = [k \in Keys |-> {}]
    /\ acked = [k \in Keys |-> 0]
    /\ since = [c \in Clients |-> 0]

Step(c) ==
    \/ Get(c) \/ LoadVersion(c) \/ LoadMessages(c) \/ LoadFails(c) \/ Set(c)
    \/ AppendCommits(c) \/ AppendFails(c) \/ AppendUnacknowledged(c)
    \/ AppendSkipped(c) \/ AppendRepeated(c) \/ Delete(c) \/ Return(c)

Next ==
    \/ \E c \in Clients : Invoke(c) \/ Step(c)
    \/ \E k \in Keys : Expire(k)
    \/ Done

Spec == Init /\ [][Next]_vars
-----------------------------------------------------------------------------
Labels == {"idle", "get", "version", "messages", "set", "append", "delete",
           "loaded", "failed", "skipped", "committed"}

\* Every variable keeps its shape, and a load that is to write the cache or to
\* return has something to write or return.
TypeOK ==
    /\ committed \in [Keys -> Nat]
    /\ cache \in [Keys -> Snapshot \cup {NoSnapshot}]
    /\ pc \in [Clients -> Labels]
    /\ key \in [Clients -> Keys]
    /\ seen \in [Clients -> Nat]
    /\ snapshot \in [Clients -> Snapshot \cup {NoSnapshot}]
    /\ started \in 0 .. MaxCalls
    /\ unknown \in [Keys -> SUBSET (Nat \ {0})]
    /\ acked \in [Keys -> Nat]
    /\ since \in [Clients -> Nat]
    /\ \A c \in Clients : pc[c] \in {"set", "loaded"} => snapshot[c] # NoSnapshot

\* What the cache holds, and what a load returns, is a history that PostgreSQL
\* has been through, whose messages are not behind its version: no race of fills,
\* appends and failed deletions makes the cache invent or reorder turns.
Committed(k, s) == s.version <= s.turns /\ s.turns <= committed[k]
SnapshotsCommitted ==
    /\ \A k \in Keys : cache[k] # NoSnapshot => Committed(k, cache[k])
    /\ \A c \in Clients : snapshot[c] # NoSnapshot => Committed(key[c], snapshot[c])

\* Under the turn lock, and as long as Redis answers and no append that reports an error
\* has committed, a load shows every turn whose append had reported success when it
\* started: the fills and the invalidations (cache.go:38-96) hide no committed write.
AcknowledgedShown ==
    scenario = [serialized |-> TRUE, redisFails |-> FALSE, ambiguous |-> FALSE] =>
    \A c \in Clients : pc[c] = "loaded" => since[c] <= snapshot[c].turns

\* Whatever fails and whoever else calls, a load writes into the cache only what shows every
\* turn acknowledged when it began: an entry that has been left stale by a failed deletion or
\* an overlapping fill is served until it expires, but never written again (cache.go:38-66).
FillsFresh == \A c \in Clients : pc[c] = "set" => since[c] <= snapshot[c].turns
=============================================================================
