--------------------------- MODULE ConversationLog ---------------------------
(***************************************************************************)
(* What a conversation store promises, whatever it is built on: the        *)
(* interfaces of src/internal/conversation/store.go read as a linearizable *)
(* object.  A conversation is the log of the turns committed to it.  A     *)
(* caller invokes an operation, the operation takes effect in one step     *)
(* between the call and its return, and the caller gets the result of that *)
(* step.  The version is the number of committed turns, the transcript the *)
(* messages of the last of them.                                           *)
(***************************************************************************)
EXTENDS Conversation

CONSTANTS
    Limit,            \* messages a transcript shows at most
    AmbiguousErrors   \* may an operation that reports an error have committed?

VARIABLES
    log,     \* log[k]: the committed turns of conversation k, oldest first
    phase,   \* phase[c]: "idle", "pending" (called) or "done" (took effect)
    call,    \* call[c]: the operation c is executing
    result   \* result[c]: what that operation returns

logVars == <<log, phase, call, result>>
-----------------------------------------------------------------------------
Invoke(c) ==
    /\ phase[c] = "idle"
    /\ \E o \in Calls : call' = [call EXCEPT ![c] = o]
    /\ phase' = [phase EXCEPT ![c] = "pending"]
    /\ UNCHANGED <<log, result>>

TakeEffect(c, r) ==
    /\ phase[c] = "pending"
    /\ phase' = [phase EXCEPT ![c] = "done"]
    /\ result' = [result EXCEPT ![c] = r]
    /\ UNCHANGED call

Commit(c) == log' = [log EXCEPT ![call[c].key] = Append(@, RecordOf(call[c]))]

Load(c) ==
    /\ call[c].kind = "load"
    /\ LET l == log[call[c].key]
       IN TakeEffect(c, Loaded(TranscriptOf(l, Len(l), Limit), Len(l)))
    /\ UNCHANGED log

\* When an append commits: always, at the expected version, or under a retry
\* key that has not been committed yet.
MayCommit(c) ==
    \/ call[c].kind = "append"
    \/ call[c].kind = "appendIf" /\ call[c].expected = Len(log[call[c].key])
    \/ /\ call[c].kind = "appendIdem"
       /\ CommittedUnder(log[call[c].key], call[c].idem) = {}

AppendCommits(c) ==
    /\ MayCommit(c)
    /\ TakeEffect(c, Reply("committed"))
    /\ Commit(c)

\* The version moved on, or this very request was committed before.
AppendSkipped(c) ==
    /\ \/ call[c].kind = "appendIf" /\ call[c].expected # Len(log[call[c].key])
       \/ /\ call[c].kind = "appendIdem"
          /\ \E n \in CommittedUnder(log[call[c].key], call[c].idem) :
                log[call[c].key][n].turn = call[c].turn
    /\ TakeEffect(c, Reply("skipped"))
    /\ UNCHANGED log

\* The retry key was committed with another turn.
AppendConflicts(c) ==
    /\ call[c].kind = "appendIdem"
    /\ \E n \in CommittedUnder(log[call[c].key], call[c].idem) :
          log[call[c].key][n].turn # call[c].turn
    /\ TakeEffect(c, Reply("conflict"))
    /\ UNCHANGED log

\* An error that leaves no trace: rejected arguments, a cancelled context, a
\* database error before the commit.
Fails(c) ==
    /\ phase[c] = "pending"
    /\ TakeEffect(c, Reply("error"))
    /\ UNCHANGED log

\* The turn is committed, the caller is told of an error.
CommitUnacknowledged(c) ==
    /\ AmbiguousErrors
    /\ MayCommit(c)
    /\ TakeEffect(c, Reply("error"))
    /\ Commit(c)

Return(c) ==
    /\ phase[c] = "done"
    /\ phase' = [phase EXCEPT ![c] = "idle"]
    /\ call' = [call EXCEPT ![c] = NoCall]
    /\ result' = [result EXCEPT ![c] = Reply("none")]
    /\ UNCHANGED log
-----------------------------------------------------------------------------
LogInit ==
    /\ log = [k \in Keys |-> <<>>]
    /\ phase = [c \in Clients |-> "idle"]
    /\ call = [c \in Clients |-> NoCall]
    /\ result = [c \in Clients |-> Reply("none")]

LogNext ==
    \E c \in Clients :
       \/ Invoke(c) \/ Load(c) \/ AppendCommits(c) \/ AppendSkipped(c)
       \/ AppendConflicts(c) \/ Fails(c) \/ CommitUnacknowledged(c) \/ Return(c)

LogSpec == LogInit /\ [][LogNext]_logVars
=============================================================================
