----------------------------- MODULE MemoryStore -----------------------------
(***************************************************************************)
(* The in-process conversation store (MemoryStore of                       *)
(* src/internal/conversation/store.go) under concurrent callers.           *)
(*                                                                         *)
(* A conversation has two heap objects that are found, or created on first *)
(* use, through a sync.Map each: a memoryEntry (the messages and their     *)
(* version, guarded by entry.mu) and a memoryIdempotency (the retry keys,  *)
(* guarded by marker.mu).  A step of this module is a sync.Map operation,  *)
(* one critical section of entry.mu, or a part of the longer critical      *)
(* section of marker.mu, inside which AppendIdempotent calls Append.       *)
(***************************************************************************)
EXTENDS Conversation

CONSTANTS
    NoObject,   \* no object under a key of a sync.Map, a free mutex
    NoTurn,     \* no hash recorded under a retry key
    MaxCalls    \* bound: calls started in one behaviour

ASSUME MemoryStoreAssumption ==
    /\ NoObject \notin Clients
    /\ NoTurn \notin Turns
    /\ MaxCalls \in Nat

DefaultMessages == 6
Limit == EvenLimit(MaxMessages, DefaultMessages)

VARIABLES
    entries,       \* sync.Map of memoryEntry: whose allocation it holds for k
    heap,          \* heap[k][a]: the memoryEntry that caller a allocated for k
    idempotency,   \* sync.Map of memoryIdempotency: likewise
    values,        \* values[k][a]: retry key -> hash, in a's allocation for k
    mu,            \* mu[k][a]: the holder of that object's mutex
    pc, call, result,
    entry,         \* entry[c]: the memoryEntry c found
    marker,        \* marker[c]: the memoryIdempotency c found
    started,       \* calls started
    log            \* history: the turns committed, in order; read by no step

vars == <<entries, heap, idempotency, values, mu, pc, call, result, entry,
          marker, started, log>>
-----------------------------------------------------------------------------
Key(c) == call[c].key
Goto(c, l) == pc' = [pc EXCEPT ![c] = l]
Answer(c, r) == result' = [result EXCEPT ![c] = r]

mapVars == <<entries, idempotency, entry, marker>>
dataVars == <<heap, values, mu, log>>
callVars == <<call, result, started>>

Invoke(c) ==
    /\ pc[c] = "idle"
    /\ started < MaxCalls
    /\ started' = started + 1
    /\ \E o \in Calls :
          /\ call' = [call EXCEPT ![c] = o]
          /\ Goto(c, IF o.kind = "appendIdem" THEN "marker" ELSE "entry")
    /\ UNCHANGED <<mapVars, dataVars, result>>

\* Mutant: the cancelled Append leaves marker.mu locked.
MutCancelled(c) ==
    /\ pc[c] \in {"marker", "entry"}
    /\ Answer(c, Reply("error"))
    /\ Goto(c, "return")
    /\ UNCHANGED <<mapVars, dataVars, call, started>>

\* contextErr: checked when a call starts, and once more by the Append that
\* AppendIdempotent makes under marker.mu, which its deferred Unlock frees.
Cancelled(c) ==
    /\ pc[c] \in {"marker", "entry"}
    /\ Answer(c, Reply("error"))
    /\ mu' = IF call[c].kind = "appendIdem" /\ pc[c] = "entry"
             THEN [mu EXCEPT ![Key(c)][marker[c]] = NoObject] ELSE mu
    /\ Goto(c, "return")
    /\ UNCHANGED <<mapVars, heap, values, log, call, started>>

\* idempotencyEntry: Load, and on a miss LoadOrStore of a fresh object.
LookupMarker(c) ==
    /\ pc[c] = "marker"
    /\ \/ /\ idempotency[Key(c)] # NoObject
          /\ marker' = [marker EXCEPT ![c] = idempotency[Key(c)]]
          /\ Goto(c, "lock")
       \/ /\ idempotency[Key(c)] = NoObject
          /\ Goto(c, "storeMarker")
          /\ UNCHANGED marker
    /\ UNCHANGED <<entries, idempotency, entry, dataVars, callVars>>

\* Mutant: Store, which replaces what is there.
MutLoadOrStore(objects, k, fresh) == fresh

\* sync.Map.LoadOrStore: the object that is there wins over the fresh one.
LoadOrStore(objects, k, fresh) ==
    IF objects[k] = NoObject THEN fresh ELSE objects[k]

StoreMarker(c) ==
    /\ pc[c] = "storeMarker"
    /\ LET actual == LoadOrStore(idempotency, Key(c), c)
       IN /\ idempotency' = [idempotency EXCEPT ![Key(c)] = actual]
          /\ marker' = [marker EXCEPT ![c] = actual]
    /\ Goto(c, "lock")
    /\ UNCHANGED <<entries, entry, dataVars, callVars>>

\* Mutant: the retry key is looked up without marker.mu.
MutLockMarker(c) ==
    LET previous == values[Key(c)][marker[c]][call[c].idem]
    IN /\ pc[c] = "lock"
       /\ \/ /\ previous = NoTurn
             /\ Goto(c, "entry")
             /\ UNCHANGED result
          \/ /\ previous # NoTurn
             /\ Answer(c, Reply(IF previous = call[c].turn THEN "skipped"
                                                           ELSE "conflict"))
             /\ Goto(c, "return")
       /\ UNCHANGED <<mapVars, dataVars, call, started>>

\* Mutant: another turn under the retry key is taken for the same one.
MutLockMarkerHash(c) ==
    /\ pc[c] = "lock"
    /\ mu[Key(c)][marker[c]] = NoObject
    /\ \/ /\ values[Key(c)][marker[c]][call[c].idem] = NoTurn
          /\ mu' = [mu EXCEPT ![Key(c)][marker[c]] = c]
          /\ Goto(c, "entry")
          /\ UNCHANGED result
       \/ /\ values[Key(c)][marker[c]][call[c].idem] # NoTurn
          /\ Answer(c, Reply("skipped"))
          /\ Goto(c, "return")
          /\ UNCHANGED mu
    /\ UNCHANGED <<mapVars, heap, values, log, call, started>>

\* AppendIdempotent up to its call of Append: take marker.mu and look for an
\* earlier turn under the retry key.
LockMarker(c) ==
    LET previous == values[Key(c)][marker[c]][call[c].idem]
    IN /\ pc[c] = "lock"
       /\ mu[Key(c)][marker[c]] = NoObject
       /\ \/ /\ previous = NoTurn
             /\ mu' = [mu EXCEPT ![Key(c)][marker[c]] = c]
             /\ Goto(c, "entry")
             /\ UNCHANGED result
          \/ /\ previous # NoTurn
             /\ Answer(c, Reply(IF previous = call[c].turn THEN "skipped"
                                                           ELSE "conflict"))
             /\ Goto(c, "return")
             /\ UNCHANGED mu
       /\ UNCHANGED <<mapVars, heap, values, log, call, started>>

\* entry: as idempotencyEntry.
LookupEntry(c) ==
    /\ pc[c] = "entry"
    /\ \/ /\ entries[Key(c)] # NoObject
          /\ entry' = [entry EXCEPT ![c] = entries[Key(c)]]
          /\ Goto(c, "locked")
       \/ /\ entries[Key(c)] = NoObject
          /\ Goto(c, "storeEntry")
          /\ UNCHANGED entry
    /\ UNCHANGED <<entries, idempotency, marker, dataVars, callVars>>

StoreEntry(c) ==
    /\ pc[c] = "storeEntry"
    /\ LET actual == LoadOrStore(entries, Key(c), c)
       IN /\ entries' = [entries EXCEPT ![Key(c)] = actual]
          /\ entry' = [entry EXCEPT ![c] = actual]
    /\ Goto(c, "locked")
    /\ UNCHANGED <<idempotency, marker, dataVars, callVars>>

\* Load under entry.mu.RLock.
ReadEntry(c) ==
    /\ pc[c] = "locked"
    /\ call[c].kind = "load"
    /\ LET e == heap[Key(c)][entry[c]] IN Answer(c, Loaded(e.messages, e.version))
    /\ Goto(c, "return")
    /\ UNCHANGED <<mapVars, dataVars, call, started>>

\* Mutant: the version counts down.
MutAppended(e, t) ==
    [messages |-> Trim(e.messages \o Pair(t), Limit), version |-> e.version - 1]

\* What append leaves in a memoryEntry.
Appended(e, t) ==
    [messages |-> Trim(e.messages \o Pair(t), Limit), version |-> e.version + 1]

\* append under entry.mu.Lock: the version check, then both messages, the trim
\* and the version.
WriteEntry(c) ==
    LET e == heap[Key(c)][entry[c]]
        stale == call[c].kind = "appendIf" /\ e.version # call[c].expected
    IN /\ pc[c] = "locked"
       /\ call[c].kind # "load"
       /\ \/ /\ stale
             /\ Answer(c, Reply("skipped"))
             /\ Goto(c, "return")
             /\ UNCHANGED <<heap, log>>
          \/ /\ ~stale
             /\ heap' = [heap EXCEPT ![Key(c)][entry[c]] = Appended(e, call[c].turn)]
             /\ log' = [log EXCEPT ![Key(c)] = Append(@, RecordOf(call[c]))]
             /\ Answer(c, Reply("committed"))
             /\ Goto(c, IF call[c].kind = "appendIdem" THEN "record" ELSE "return")
       /\ UNCHANGED <<mapVars, values, mu, call, started>>

\* AppendIdempotent after its Append: record the hash, free marker.mu.
RecordHash(c) ==
    /\ pc[c] = "record"
    /\ values' = [values EXCEPT ![Key(c)][marker[c]][call[c].idem] = call[c].turn]
    /\ mu' = [mu EXCEPT ![Key(c)][marker[c]] = NoObject]
    /\ Goto(c, "return")
    /\ UNCHANGED <<mapVars, heap, log, callVars>>

Return(c) ==
    /\ pc[c] = "return"
    /\ Goto(c, "idle")
    /\ call' = [call EXCEPT ![c] = NoCall]
    /\ result' = [result EXCEPT ![c] = Reply("none")]
    /\ entry' = [entry EXCEPT ![c] = NoObject]
    /\ marker' = [marker EXCEPT ![c] = NoObject]
    /\ UNCHANGED <<entries, idempotency, dataVars, started>>

Done ==
    /\ started = MaxCalls
    /\ \A c \in Clients : pc[c] = "idle"
    /\ UNCHANGED vars
-----------------------------------------------------------------------------
Init ==
    /\ entries = [k \in Keys |-> NoObject]
    /\ heap = [k \in Keys |-> [a \in Clients |-> [messages |-> <<>>, version |-> 0]]]
    /\ idempotency = [k \in Keys |-> NoObject]
    /\ values = [k \in Keys |-> [a \in Clients |-> [i \in IdemKeys |-> NoTurn]]]
    /\ mu = [k \in Keys |-> [a \in Clients |-> NoObject]]
    /\ pc = [c \in Clients |-> "idle"]
    /\ call = [c \in Clients |-> NoCall]
    /\ result = [c \in Clients |-> Reply("none")]
    /\ entry = [c \in Clients |-> NoObject]
    /\ marker = [c \in Clients |-> NoObject]
    /\ started = 0
    /\ log = [k \in Keys |-> <<>>]

Step(c) ==
    \/ Cancelled(c) \/ LookupMarker(c) \/ StoreMarker(c) \/ LockMarker(c)
    \/ LookupEntry(c) \/ StoreEntry(c) \/ ReadEntry(c) \/ WriteEntry(c)
    \/ RecordHash(c) \/ Return(c)

Next == (\E c \in Clients : Invoke(c) \/ Step(c)) \/ Done

Spec == Init /\ [][Next]_vars

\* A goroutine that is inside a call runs on.
FairSpec == Spec /\ \A c \in Clients : WF_vars(Step(c))
-----------------------------------------------------------------------------
Labels == {"idle", "marker", "storeMarker", "lock", "entry", "storeEntry",
           "locked", "record", "return"}

\* Every variable keeps the shape its Go declaration gives it.
TypeOK ==
    /\ entries \in [Keys -> Clients \cup {NoObject}]
    /\ heap \in [Keys -> [Clients -> [messages : Seq(Message), version : Nat]]]
    /\ idempotency \in [Keys -> Clients \cup {NoObject}]
    /\ values \in [Keys -> [Clients -> [IdemKeys -> Turns \cup {NoTurn}]]]
    /\ mu \in [Keys -> [Clients -> Clients \cup {NoObject}]]
    /\ pc \in [Clients -> Labels]
    /\ call \in [Clients -> Calls \cup {NoCall}]
    /\ result \in [Clients -> Results]
    /\ entry \in [Clients -> Clients \cup {NoObject}]
    /\ marker \in [Clients -> Clients \cup {NoObject}]
    /\ started \in 0 .. MaxCalls
    /\ log \in [Keys -> Seq(Record)]

\* The memoryEntry that the sync.Map publishes holds the message pairs of the
\* last Limit/2 committed turns and the number of all of them, whoever
\* allocated it and however the first callers raced to create it
\* (store.go:163-187).
EntryShowsLog ==
    \A k \in Keys :
       IF entries[k] = NoObject THEN log[k] = <<>>
       ELSE heap[k][entries[k]] =
              [messages |-> TranscriptOf(log[k], Len(log[k]), Limit),
               version |-> Len(log[k])]

\* No retry key is committed twice to a conversation, although the commit and
\* the record of its hash are two steps and other callers append in between
\* (store.go:120-131).
CommittedOnce ==
    \A k \in Keys : \A m, n \in DOMAIN log[k] :
       log[k][m].idem = log[k][n].idem /\ log[k][m].idem # NoIdem => m = n

\* How far a call is: it took effect with its critical section of entry.mu, or
\* when it failed or found its retry key.
PhaseAt(l) == CASE l = "idle" -> "idle"
                [] l \in {"record", "return"} -> "done"
                [] OTHER -> "pending"
phase == [c \in Clients |-> PhaseAt(pc[c])]

Log == INSTANCE ConversationLog WITH AmbiguousErrors <- FALSE

\* The store is linearizable: every execution of it is one of the abstract
\* log, each call taking effect in one step between its start and its return.
\* A call that reports an error committed nothing, so that repeating it is safe
\* (store.go:80-179).
Linearizable == Log!LogSpec

\* Every call returns: no path out of AppendIdempotent leaves marker.mu locked.
CallsReturn == \A c \in Clients : pc[c] # "idle" ~> pc[c] = "idle"
=============================================================================
