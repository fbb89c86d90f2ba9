------------------------------ MODULE SQLStore ------------------------------
(***************************************************************************)
(* The PostgreSQL conversation store (src/internal/conversation/           *)
(* sql_store.go) under concurrent callers, statement failures, lost commit *)
(* acknowledgements and deadlocks.                                         *)
(*                                                                         *)
(* An append is one READ COMMITTED transaction: what it writes is seen by  *)
(* others when it commits.  A step is one SQL statement.  Of PostgreSQL    *)
(* the module keeps what the statements rely on: an insert waits for an    *)
(* uncommitted insert of the same primary key, a foreign key check takes   *)
(* KEY SHARE on the conversation row, SELECT ... FOR UPDATE takes the row, *)
(* the two exclude each other, locks are held to the end of the            *)
(* transaction, and one transaction of a deadlock is aborted.              *)
(***************************************************************************)
EXTENDS Conversation

CONSTANTS
    NoTurn,     \* no row under an idempotency key
    MaxCalls    \* bound: calls started in one behaviour

ASSUME SQLStoreAssumption ==
    /\ NoTurn \notin Turns
    /\ MaxCalls \in Nat

DefaultMessages == 20
Limit == EvenLimit(MaxMessages, DefaultMessages)

VARIABLES
    \* the committed tables
    conversations,   \* keys that have a row
    version,         \* version[k]: its version column
    messages,        \* messages[k]: its rows of conversation_messages
    hashes,          \* hashes[k][i]: its row of conversation_idempotency
    \* the callers
    tx,              \* tx[c]: the uncommitted writes and the locks of c
    seen,            \* seen[c]: the version c read
    excess,          \* excess[c]: how many of the oldest messages c deletes
    pc, call, result,
    started,         \* calls started
    \* history, read by no step
    log,             \* the turns committed, in order
    since            \* since[c]: the turns committed when c's call started

tables == <<conversations, version, messages, hashes, log>>
locals == <<seen, excess>>
callVars == <<call, started, since>>
vars == <<tables, tx, locals, pc, result, callVars>>

Marks == {"conversation", "hash", "share", "update", "write"}
-----------------------------------------------------------------------------
Key(c) == call[c].key
Goto(c, l) == pc' = [pc EXCEPT ![c] = l]
Holds(c, m) == tx' = [tx EXCEPT ![c] = @ \cup {m}]

\* The other callers on c's conversation whose transaction has mark m.
Others(c, m) == {d \in Clients \ {c} : m \in tx[d] /\ Key(d) = Key(c)}

\* Whom the statement that c is at has to wait for.
Blockers(c) ==
    CASE pc[c] = "conversation" -> Others(c, "conversation")
      [] pc[c] = "hash" -> {d \in Others(c, "hash") : call[d].idem = call[c].idem}
      [] pc[c] = "reference" -> Others(c, "update")
      [] pc[c] = "select" -> Others(c, "update") \cup Others(c, "share")
      [] OTHER -> {}
-----------------------------------------------------------------------------
Invoke(c) ==
    /\ pc[c] = "idle"
    /\ started < MaxCalls
    /\ started' = started + 1
    /\ \E o \in Calls :
          /\ call' = [call EXCEPT ![c] = o]
          /\ since' = [since EXCEPT ![c] = Len(log[o.key])]
          /\ Goto(c, IF o.kind = "load" THEN "version" ELSE "conversation")
    /\ UNCHANGED <<tables, tx, locals, result>>

Answer(c, r) ==
    /\ result' = [result EXCEPT ![c] = r]
    /\ Goto(c, "return")

\* Mutant: no deferred Rollback.
MutRollback(c, status) ==
    /\ Answer(c, Reply(status))
    /\ UNCHANGED <<tables, tx, locals, callVars>>

\* An error return: the deferred Rollback drops what the transaction wrote and
\* the locks it holds.
Rollback(c, status) ==
    /\ Answer(c, Reply(status))
    /\ tx' = [tx EXCEPT ![c] = {}]
    /\ UNCHANGED <<tables, locals, callVars>>

\* A statement fails, or its context is cancelled while it waits.
Fail(c) ==
    /\ pc[c] \notin {"idle", "return", "commit"}
    /\ Rollback(c, "error")

\* PostgreSQL aborts a transaction of a cycle of waiting ones.
Deadlocked(S) ==
    /\ S # {}
    /\ \A d \in S : Blockers(d) \cap S # {}
    /\ \A d \in S : \E e \in S : d \in Blockers(e)

DeadlockAbort(c) ==
    /\ \E S \in SUBSET Clients : c \in S /\ Deadlocked(S)
    /\ Rollback(c, "error")
-----------------------------------------------------------------------------
\* Mutant: the version of the next turn.
MutLoadVersion(c) ==
    /\ pc[c] = "version"
    /\ \/ /\ Key(c) \notin conversations
          /\ Answer(c, Loaded(<<>>, 0))
          /\ UNCHANGED locals
       \/ /\ Key(c) \in conversations
          /\ seen' = [seen EXCEPT ![c] = version[Key(c)] + 1]
          /\ Goto(c, "messages")
          /\ UNCHANGED <<result, excess>>
    /\ UNCHANGED <<tables, tx, callVars>>

\* Load: the version in one statement, the messages in another, each on the
\* rows that are committed when it runs.
LoadVersion(c) ==
    /\ pc[c] = "version"
    /\ \/ /\ Key(c) \notin conversations
          /\ Answer(c, Loaded(<<>>, 0))
          /\ UNCHANGED locals
       \/ /\ Key(c) \in conversations
          /\ seen' = [seen EXCEPT ![c] = version[Key(c)]]
          /\ Goto(c, "messages")
          /\ UNCHANGED <<result, excess>>
    /\ UNCHANGED <<tables, tx, callVars>>

LoadMessages(c) ==
    /\ pc[c] = "messages"
    /\ Answer(c, Loaded(messages[Key(c)], seen[c]))
    /\ UNCHANGED <<tables, tx, locals, callVars>>
-----------------------------------------------------------------------------
\* appendWithKey, statement by statement: the conversation's row,
InsertConversation(c) ==
    /\ pc[c] = "conversation"
    /\ Blockers(c) = {}
    /\ IF Key(c) \in conversations THEN UNCHANGED tx ELSE Holds(c, "conversation")
    /\ Goto(c, IF call[c].kind = "appendIdem" THEN "hash" ELSE "select")
    /\ UNCHANGED <<tables, locals, result, callVars>>

\* Mutant: RowsAffected is not looked at.
MutInsertHash(c) ==
    /\ pc[c] = "hash"
    /\ Blockers(c) = {}
    /\ Holds(c, "hash")
    /\ Goto(c, "reference")
    /\ UNCHANGED <<tables, locals, result, callVars>>

\* the row of the idempotency key, unless it is there,
InsertHash(c) ==
    /\ pc[c] = "hash"
    /\ Blockers(c) = {}
    /\ \/ /\ hashes[Key(c)][call[c].idem] = NoTurn
          /\ Holds(c, "hash")
          /\ Goto(c, "reference")
       \/ /\ hashes[Key(c)][call[c].idem] # NoTurn
          /\ Goto(c, "previous")
          /\ UNCHANGED tx
    /\ UNCHANGED <<tables, locals, result, callVars>>

\* whose foreign key locks the conversation's row,
CheckReference(c) ==
    /\ pc[c] = "reference"
    /\ Blockers(c) = {}
    /\ Holds(c, "share")
    /\ Goto(c, "select")
    /\ UNCHANGED <<tables, locals, result, callVars>>

\* or else the hash that is there,
SelectPrevious(c) ==
    /\ pc[c] = "previous"
    /\ \/ /\ hashes[Key(c)][call[c].idem] # call[c].turn
          /\ Rollback(c, "conflict")
       \/ /\ hashes[Key(c)][call[c].idem] = call[c].turn
          /\ Goto(c, "commit")
          /\ UNCHANGED <<tables, tx, locals, result, callVars>>

\* Mutant: the version is read without FOR UPDATE.
MutSelectForUpdate(c) ==
    /\ pc[c] = "select"
    /\ seen' = [seen EXCEPT ![c] = version[Key(c)]]
    /\ Goto(c, IF call[c].kind = "appendIf" /\ version[Key(c)] # call[c].expected
               THEN "commit" ELSE "write")
    /\ UNCHANGED <<tables, tx, excess, result, callVars>>

\* Mutant: an older version than the expected one is good enough.
MutSelectVersion(c) ==
    /\ pc[c] = "select"
    /\ Blockers(c) = {}
    /\ Holds(c, "update")
    /\ seen' = [seen EXCEPT ![c] = version[Key(c)]]
    /\ Goto(c, IF call[c].kind = "appendIf" /\ version[Key(c)] > call[c].expected
               THEN "commit" ELSE "write")
    /\ UNCHANGED <<tables, excess, result, callVars>>

\* Mutant: the append tries again until the version is the expected one.
MutSelectRetry(c) ==
    /\ pc[c] = "select"
    /\ Blockers(c) = {}
    /\ Holds(c, "update")
    /\ seen' = [seen EXCEPT ![c] = version[Key(c)]]
    /\ Goto(c, IF call[c].kind = "appendIf" /\ version[Key(c)] # call[c].expected
               THEN "select" ELSE "write")
    /\ UNCHANGED <<tables, excess, result, callVars>>

\* the version, under a row lock,
SelectForUpdate(c) ==
    /\ pc[c] = "select"
    /\ Blockers(c) = {}
    /\ Holds(c, "update")
    /\ seen' = [seen EXCEPT ![c] = version[Key(c)]]
    /\ Goto(c, IF call[c].kind = "appendIf" /\ version[Key(c)] # call[c].expected
               THEN "commit" ELSE "write")
    /\ UNCHANGED <<tables, excess, result, callVars>>

\* the new version, the two messages and the trim, which counts the messages,
Write(c) ==
    /\ pc[c] = "write"
    /\ Holds(c, "write")
    /\ excess' = [excess EXCEPT ![c] = Excess(Len(messages[Key(c)]) + 2, Limit)]
    /\ Goto(c, "commit")
    /\ UNCHANGED <<tables, seen, result, callVars>>

\* and the commit.
Persist(c) ==
    LET k == Key(c)
        all == messages[k] \o Pair(call[c].turn)
    IN /\ conversations' =
             IF "conversation" \in tx[c] THEN conversations \cup {k} ELSE conversations
       /\ hashes' = IF "hash" \in tx[c]
                    THEN [hashes EXCEPT ![k][call[c].idem] = call[c].turn] ELSE hashes
       /\ IF "write" \in tx[c]
          THEN /\ version' = [version EXCEPT ![k] = seen[c] + 1]
               /\ messages' = [messages EXCEPT ![k] = SubSeq(all, excess[c] + 1, Len(all))]
               /\ log' = [log EXCEPT ![k] = Append(@, RecordOf(call[c]))]
          ELSE UNCHANGED <<version, messages, log>>

\* tx.Commit: it succeeds, it fails and the transaction is undone, or it
\* succeeds and the connection is lost before the caller learns of it.
Commit(c) ==
    /\ pc[c] = "commit"
    /\ \/ /\ Persist(c)
          /\ Answer(c, Reply(IF "write" \in tx[c] THEN "committed" ELSE "skipped"))
       \/ /\ Persist(c)
          /\ Answer(c, Reply("error"))
       \/ /\ UNCHANGED tables
          /\ Answer(c, Reply("error"))
    /\ tx' = [tx EXCEPT ![c] = {}]
    /\ UNCHANGED <<locals, callVars>>

Return(c) ==
    /\ pc[c] = "return"
    /\ Goto(c, "idle")
    /\ call' = [call EXCEPT ![c] = NoCall]
    /\ result' = [result EXCEPT ![c] = Reply("none")]
    /\ seen' = [seen EXCEPT ![c] = 0]
    /\ excess' = [excess EXCEPT ![c] = 0]
    /\ since' = [since EXCEPT ![c] = 0]
    /\ UNCHANGED <<tables, tx, started>>

Done ==
    /\ started = MaxCalls
    /\ \A c \in Clients : pc[c] = "idle"
    /\ UNCHANGED vars
-----------------------------------------------------------------------------
Init ==
    /\ conversations = {}
    /\ version = [k \in Keys |-> 0]
    /\ messages = [k \in Keys |-> <<>>]
    /\ hashes = [k \in Keys |-> [i \in IdemKeys |-> NoTurn]]
    /\ tx = [c \in Clients |-> {}]
    /\ seen = [c \in Clients |-> 0]
    /\ excess = [c \in Clients |-> 0]
    /\ pc = [c \in Clients |-> "idle"]
    /\ call = [c \in Clients |-> NoCall]
    /\ result = [c \in Clients |-> Reply("none")]
    /\ started = 0
    /\ log = [k \in Keys |-> <<>>]
    /\ since = [c \in Clients |-> 0]

Step(c) ==
    \/ LoadVersion(c) \/ LoadMessages(c)
    \/ InsertConversation(c) \/ InsertHash(c) \/ CheckReference(c)
    \/ SelectPrevious(c) \/ SelectForUpdate(c) \/ Write(c) \/ Commit(c)
    \/ Return(c)

Next ==
    \/ \E c \in Clients : Invoke(c) \/ Step(c) \/ Fail(c) \/ DeadlockAbort(c)
    \/ Done

Spec == Init /\ [][Next]_vars

\* A statement that nothing blocks is executed, and deadlocks are detected.
\* Nothing forces a statement to fail, or a blocked caller to give up.
FairSpec ==
    Spec /\ \A c \in Clients : WF_vars(Step(c)) /\ WF_vars(DeadlockAbort(c))
-----------------------------------------------------------------------------
Labels == {"idle", "version", "messages", "conversation", "hash", "reference",
           "previous", "select", "write", "commit", "return"}

\* Every variable keeps its shape, and a transaction that is over has no locks.
TypeOK ==
    /\ conversations \subseteq Keys
    /\ version \in [Keys -> Nat]
    /\ messages \in [Keys -> Seq(Message)]
    /\ hashes \in [Keys -> [IdemKeys -> Turns \cup {NoTurn}]]
    /\ tx \in [Clients -> SUBSET Marks]
    /\ seen \in [Clients -> Nat]
    /\ excess \in [Clients -> Nat]
    /\ pc \in [Clients -> Labels]
    /\ call \in [Clients -> Calls \cup {NoCall}]
    /\ result \in [Clients -> Results]
    /\ started \in 0 .. MaxCalls
    /\ log \in [Keys -> Seq(Record)]
    /\ since \in [Clients -> Nat]
    /\ \A c \in Clients : pc[c] \in {"idle", "return"} => tx[c] = {}

\* The committed rows are the transcript of the committed turns: no update is
\* lost between SELECT FOR UPDATE and COMMIT, and the trim leaves the last
\* Limit/2 turns whole (sql_store.go:165-197, 200-222).
RowsShowLog ==
    \A k \in Keys :
       /\ version[k] = Len(log[k])
       /\ messages[k] = TranscriptOf(log[k], Len(log[k]), Limit)
       /\ version[k] # 0 => k \in conversations

\* No retry key is committed twice to a conversation, although the caller that
\* was told of an error may have committed and retries (sql_store.go:130-164).
CommittedOnce ==
    \A k \in Keys : \A m, n \in DOMAIN log[k] :
       log[k][m].idem = log[k][n].idem /\ log[k][m].idem # NoIdem => m = n

\* A load shows no turn of a transaction that did not commit, and all those
\* that were committed when it started; its version is never ahead of its
\* messages (sql_store.go:43-77).
LoadShowsCommitted ==
    \A c \in Clients : result[c].status = "loaded" =>
       /\ since[c] <= result[c].version
       /\ \E n \in result[c].version .. Len(log[Key(c)]) :
             result[c].messages = TranscriptOf(log[Key(c)], n, Limit)

\* The appends, seen as operations of the abstract log.
Loading(c) == call[c].kind = "load"
PhaseAt(l) == CASE l = "idle" -> "idle" [] l = "return" -> "done" [] OTHER -> "pending"
logPhase == [c \in Clients |-> IF Loading(c) THEN "idle" ELSE PhaseAt(pc[c])]
logCall == [c \in Clients |-> IF Loading(c) THEN NoCall ELSE call[c]]
logResult == [c \in Clients |-> IF Loading(c) THEN Reply("none") ELSE result[c]]
Log == INSTANCE ConversationLog WITH
          AmbiguousErrors <- TRUE, phase <- logPhase, call <- logCall, result <- logResult

\* The appends are linearizable.  The result tells what happened, except that
\* an append that reports an error may have committed its turn
\* (sql_store.go:100-198).
AppendsLinearizable == Log!LogSpec

\* Every call returns: each transaction ends, also those that deadlock on the
\* foreign key's lock, and none leaves a row locked.
CallsReturn == \A c \in Clients : pc[c] # "idle" ~> pc[c] = "idle"
=============================================================================
