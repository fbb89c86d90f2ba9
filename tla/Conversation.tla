---------------------------- MODULE Conversation ----------------------------
(***************************************************************************)
(* The vocabulary the conversation stores share: the calls of the          *)
(* interfaces ConversationStore and IdempotentConversationStore            *)
(* (src/internal/conversation/store.go), the turns they commit, and the    *)
(* transcript that a log of committed turns shows.                         *)
(***************************************************************************)
EXTENDS Integers, Sequences

CONSTANTS
    Clients,       \* goroutines that call the store
    Keys,          \* SessionKeys
    IdemKeys,      \* idempotency keys a request may carry
    NoIdem,        \* the request carries none
    Turns,         \* contents of a (user, assistant) message pair
    Versions,      \* expected versions a caller may pass to AppendIfVersion
    Kinds,         \* the operations the callers use
    MaxMessages    \* the maxMessages argument of the store's constructor

OpKinds == {"load", "append", "appendIf", "appendIdem"}

ASSUME ConversationAssumption ==
    /\ NoIdem \notin IdemKeys
    /\ Versions \subseteq Nat
    /\ Kinds \subseteq OpKinds
    /\ MaxMessages \in Int
-----------------------------------------------------------------------------
\* The arguments are well formed: SessionKey.Validate and the nil and blank
\* checks run before anything else, so that a call they reject is a call that
\* fails without an effect.
LoadCalls(o) == o.kind = "load" => o.turn = CHOOSE t \in Turns : TRUE
VersionCalls(o) == o.kind # "appendIf" => o.expected = 0
IdemCalls(o) == (o.kind = "appendIdem") <=> (o.idem # NoIdem)

Calls ==
    {o \in [kind : Kinds, key : Keys, turn : Turns, expected : Versions \cup {0},
            idem : IdemKeys \cup {NoIdem}] :
       LoadCalls(o) /\ VersionCalls(o) /\ IdemCalls(o)}

NoCall == [kind |-> "none"]

\* A committed turn and the retry key it was committed under.
Record == [turn : Turns, idem : IdemKeys \cup {NoIdem}]
RecordOf(o) == [turn |-> o.turn, idem |-> o.idem]

\* The turns of l committed under retry key i.
CommittedUnder(l, i) == {n \in DOMAIN l : l[n].idem = i}
-----------------------------------------------------------------------------
Message == [role : {"user", "assistant"}, turn : Turns]

\* The two messages one turn appends.
Pair(t) == <<[role |-> "user", turn |-> t], [role |-> "assistant", turn |-> t]>>

\* The constructors' treatment of maxMessages: too small falls back to the
\* store's default, an odd limit loses one.
EvenLimit(max, default) ==
    LET m == IF max < 2 THEN default ELSE max
    IN IF m % 2 # 0 THEN m - 1 ELSE m

\* How many of n messages are too many, rounded up to whole pairs.
Excess(n, limit) ==
    IF n <= limit THEN 0
    ELSE IF (n - limit) % 2 # 0 THEN n - limit + 1 ELSE n - limit

\* Keep at most limit messages by dropping the oldest pairs.
Trim(messages, limit) ==
    LET excess == Excess(Len(messages), limit)
    IN IF excess = 0 THEN messages ELSE SubSeq(messages, excess + 1, Len(messages))

\* The messages of the turns from + 1 .. to of l.
MessageAt(l, from, j) ==
    [role |-> IF j % 2 = 1 THEN "user" ELSE "assistant",
     turn |-> l[from + (j + 1) \div 2].turn]
PairsOf(l, from, to) == [j \in 1 .. 2 * (to - from) |-> MessageAt(l, from, j)]

\* The messages a store of that limit shows after the first n turns of l: the
\* pairs of the last limit/2 of them.
TranscriptOf(l, n, limit) ==
    PairsOf(l, IF n > limit \div 2 THEN n - limit \div 2 ELSE 0, n)
-----------------------------------------------------------------------------
\* What a call returns.  "committed" and "skipped" are the (true, nil) and
\* (false, nil) of the append operations; Append itself drops the Boolean.
Reply(s) == [status |-> s, messages |-> <<>>, version |-> 0]
Loaded(m, v) == [status |-> "loaded", messages |-> m, version |-> v]

Statuses == {"none", "loaded", "committed", "skipped", "conflict", "error"}
Results == [status : Statuses, messages : Seq(Message), version : Nat]
=============================================================================
