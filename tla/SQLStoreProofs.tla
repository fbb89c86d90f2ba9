---------------------------- MODULE SQLStoreProofs ----------------------------
(***************************************************************************)
(* The transactions of the PostgreSQL store lose no update, commit a retry *)
(* key once and show loads what is committed, for any callers,             *)
(* conversations, retry keys and message limit.                            *)
(***************************************************************************)
EXTENDS SQLStore, SequenceTheorems, TLAPS

\* The fields of a call.
LEMMA CallFields ==
    ASSUME NEW o \in Calls
    PROVE  /\ o.kind \in OpKinds /\ o.key \in Keys /\ o.turn \in Turns
           /\ o.idem \in IdemKeys \cup {NoIdem}
           /\ o.kind = "appendIdem" <=> o.idem \in IdemKeys
           /\ RecordOf(o) \in Record
           /\ o # NoCall
<1>1. /\ o.kind \in Kinds /\ o.key \in Keys /\ o.turn \in Turns
      /\ o.idem \in IdemKeys \cup {NoIdem}
      /\ IdemCalls(o)
  BY DEF Calls
<1>2. o.kind \in OpKinds
  BY <1>1, ConversationAssumption
<1>3. o # NoCall
  BY <1>2 DEF NoCall, OpKinds
<1> QED BY <1>1, <1>2, <1>3, ConversationAssumption DEF IdemCalls, RecordOf, Record

\* The empty reply and the others are results.
LEMMA ReplyType == \A s \in Statuses : Reply(s) \in Results
BY DEF Reply, Results

\* The limit a constructor computes is a positive even number
\* (store.go:70-78, sql_store.go:25-36).
LEMMA EvenLimitType ==
    ASSUME NEW max \in Int, NEW default \in Nat, default >= 2
    PROVE  \E w \in Nat \ {0} : EvenLimit(max, default) = 2 * w
<1> DEFINE e == EvenLimit(max, default)
<1>1. e \in Nat /\ e >= 2 /\ e % 2 = 0
  BY DEF EvenLimit
<1> HIDE DEF e
<1>2. e = 2 * (e \div 2) /\ e \div 2 \in Nat \ {0}
  BY <1>1
<1> QED BY <1>2 DEF e

\* The messages of a stretch of the log are a sequence of messages, two for
\* each turn.
LEMMA PairsOfType ==
    ASSUME NEW l \in Seq(Record), NEW to \in 0 .. Len(l), NEW from \in 0 .. to
    PROVE  /\ PairsOf(l, from, to) \in Seq(Message)
           /\ Len(PairsOf(l, from, to)) = 2 * (to - from)
           /\ \A j \in 1 .. 2 * (to - from) :
                 PairsOf(l, from, to)[j] = MessageAt(l, from, j)
<1>1. \A j \in 1 .. 2 * (to - from) : MessageAt(l, from, j) \in Message
  <2> TAKE j \in 1 .. 2 * (to - from)
  <2>1. from + (j + 1) \div 2 \in 1 .. Len(l)
    OBVIOUS
  <2>2. l[from + (j + 1) \div 2] \in Record
    BY <2>1
  <2> QED BY <2>2 DEF MessageAt, Message, Record
<1>2. 2 * (to - from) \in Nat
  OBVIOUS
<1> QED BY <1>1, <1>2 DEF PairsOf

\* Appending the two messages of a turn extends the stretch by that turn.
LEMMA PairsOfPush ==
    ASSUME NEW l \in Seq(Record), NEW from \in 0 .. Len(l), NEW r \in Record
    PROVE  PairsOf(l, from, Len(l)) \o Pair(r.turn)
              = PairsOf(Append(l, r), from, Len(l) + 1)
<1> DEFINE n == Len(l)
           d == n - from
           T == PairsOf(l, from, n)
           m == Append(l, r)
           U == PairsOf(m, from, n + 1)
           P == Pair(r.turn)
<1>1. n \in Nat /\ d \in Nat /\ from \in Nat /\ n = from + d
  OBVIOUS
<1>2. /\ m \in Seq(Record) /\ Len(m) = n + 1 /\ m[n + 1] = r
      /\ \A i \in 1 .. n : m[i] = l[i]
  OBVIOUS
<1>3. /\ P \in Seq(Message) /\ Len(P) = 2
      /\ P[1] = [role |-> "user", turn |-> r.turn]
      /\ P[2] = [role |-> "assistant", turn |-> r.turn]
  BY DEF Pair, Message, Record
<1>4. /\ T \in Seq(Message) /\ Len(T) = 2 * d
      /\ \A j \in 1 .. 2 * d : T[j] = MessageAt(l, from, j)
  <2>1. n \in 0 .. Len(l) /\ from \in 0 .. n
    OBVIOUS
  <2> HIDE DEF n
  <2> QED BY <2>1, PairsOfType
<1>5. n + 1 \in 0 .. Len(m) /\ from \in 0 .. n + 1
  BY <1>1, <1>2
<1> HIDE DEF n, m, P, T, U, d
<1>6. /\ U \in Seq(Message) /\ Len(U) = 2 * (n + 1 - from)
      /\ \A j \in 1 .. 2 * (n + 1 - from) : U[j] = MessageAt(m, from, j)
  <2>1. \A to \in 0 .. Len(m) : \A f \in 0 .. to :
           /\ PairsOf(m, f, to) \in Seq(Message)
           /\ Len(PairsOf(m, f, to)) = 2 * (to - f)
           /\ \A j \in 1 .. 2 * (to - f) : PairsOf(m, f, to)[j] = MessageAt(m, f, j)
    BY <1>2, PairsOfType, Zenon
  <2> QED BY <1>1, <1>5, <2>1 DEF U
<1>7. 2 * (n + 1 - from) = 2 * d + 2
  BY <1>1
<1>8. /\ T \o P \in Seq(Message) /\ Len(T \o P) = 2 * d + 2
      /\ \A j \in 1 .. 2 * d + 2 :
            (T \o P)[j] = IF j <= 2 * d THEN T[j] ELSE P[j - 2 * d]
  <2>1. /\ T \o P \in Seq(Message) /\ Len(T \o P) = Len(T) + Len(P)
        /\ \A j \in 1 .. Len(T) + Len(P) :
              (T \o P)[j] = IF j <= Len(T) THEN T[j] ELSE P[j - Len(T)]
    BY <1>3, <1>4, ConcatProperties, Zenon
  <2> QED BY <1>3, <1>4, <2>1
<1> DEFINE A == T \o P
<1>9. /\ A \in Seq(Message) /\ Len(A) = 2 * d + 2
      /\ \A j \in 1 .. 2 * d + 2 : A[j] = IF j <= 2 * d THEN T[j] ELSE P[j - 2 * d]
  BY <1>8
<1> HIDE DEF A
<1>10. ASSUME NEW j \in 1 .. 2 * d + 2
      PROVE  A[j] = U[j]
  <2>1. CASE j \in 1 .. 2 * d
    <3>1. from + (j + 1) \div 2 \in 1 .. n
      BY <1>1, <2>1
    <3>2. A[j] = MessageAt(l, from, j)
      BY <1>1, <1>3, <1>4, <1>9, <2>1
    <3>3. m[from + (j + 1) \div 2] = l[from + (j + 1) \div 2]
      BY <1>2, <3>1
    <3> QED BY <1>6, <1>7, <3>2, <3>3 DEF MessageAt
  <2>2. CASE j = 2 * d + 1
    <3>1. j % 2 = 1 /\ from + (j + 1) \div 2 = n + 1
      BY <1>1, <2>2
    <3>2. A[j] = [role |-> "user", turn |-> r.turn]
      BY <1>1, <1>3, <1>4, <1>9, <2>2
    <3> QED BY <1>2, <1>6, <1>7, <3>1, <3>2 DEF MessageAt
  <2>3. CASE j = 2 * d + 2
    <3>1. j % 2 # 1 /\ from + (j + 1) \div 2 = n + 1
      BY <1>1, <2>3
    <3>2. A[j] = [role |-> "assistant", turn |-> r.turn]
      BY <1>1, <1>3, <1>4, <1>9, <2>3
    <3> QED BY <1>2, <1>6, <1>7, <3>1, <3>2 DEF MessageAt
  <2> QED BY <1>1, <2>1, <2>2, <2>3
<1>11. A = U
  <2>1. A \in Seq(Message) /\ U \in Seq(Message) /\ Len(A) = Len(U)
    BY <1>6, <1>7, <1>9
  <2>2. \A j \in 1 .. Len(A) : A[j] = U[j]
    BY <1>9, <1>10
  <2> QED BY <2>1, <2>2
<1> QED BY <1>11 DEF A, T, P, U, m, n

\* Dropping the two oldest messages drops the oldest turn.
LEMMA PairsOfDrop ==
    ASSUME NEW l \in Seq(Record), NEW to \in 1 .. Len(l), NEW from \in 0 .. to - 1
    PROVE  SubSeq(PairsOf(l, from, to), 3, 2 * (to - from)) = PairsOf(l, from + 1, to)
<1> DEFINE d == to - from
           T == PairsOf(l, from, to)
           U == PairsOf(l, from + 1, to)
           S == SubSeq(T, 3, 2 * d)
<1>1. to \in Nat /\ from \in Nat /\ d \in Nat /\ d >= 1
      /\ to - (from + 1) = d - 1
  OBVIOUS
<1>2. /\ T \in Seq(Message) /\ Len(T) = 2 * d
      /\ \A j \in 1 .. 2 * d : T[j] = MessageAt(l, from, j)
  BY PairsOfType
<1>3. /\ U \in Seq(Message) /\ Len(U) = 2 * (d - 1)
      /\ \A j \in 1 .. 2 * (d - 1) : U[j] = MessageAt(l, from + 1, j)
  <2>1. to \in 0 .. Len(l) /\ from + 1 \in 0 .. to
    OBVIOUS
  <2> QED BY <1>1, <2>1, PairsOfType
<1> HIDE DEF d, T, U
<1>4. /\ S \in Seq(Message) /\ Len(S) = 2 * (d - 1)
      /\ \A j \in 1 .. 2 * (d - 1) : S[j] = T[j + 2]
  BY <1>1, <1>2
<1>5. ASSUME NEW j \in 1 .. 2 * (d - 1)
      PROVE  S[j] = U[j]
  <2>1. j + 2 \in 1 .. 2 * d
    BY <1>1
  <2>2. (j + 2) % 2 = j % 2 /\ from + ((j + 2) + 1) \div 2 = from + 1 + (j + 1) \div 2
    BY <1>1
  <2>3. MessageAt(l, from, j + 2) = MessageAt(l, from + 1, j)
    BY <2>2 DEF MessageAt
  <2> QED BY <1>2, <1>3, <1>4, <2>1, <2>3
<1> HIDE DEF S
<1>6. S = U
  <2>1. S \in Seq(Message) /\ U \in Seq(Message) /\ Len(S) = Len(U)
    BY <1>3, <1>4
  <2>2. \A j \in 1 .. Len(S) : S[j] = U[j]
    BY <1>4, <1>5
  <2> QED BY <2>1, <2>2
<1> QED BY <1>6 DEF S, U, T, d

\* Appending a turn's two messages and trimming is the transcript of the log
\* with that turn: no pair is torn and the oldest ones go first
\* (store.go:169-176, sql_store.go:182-222).
LEMMA TrimShowsLog ==
    ASSUME NEW l \in Seq(Record), NEW r \in Record, NEW w \in Nat \ {0}
    PROVE  Trim(TranscriptOf(l, Len(l), 2 * w) \o Pair(r.turn), 2 * w)
              = TranscriptOf(Append(l, r), Len(l) + 1, 2 * w)
<1> DEFINE n == Len(l)
           m == Append(l, r)
           from == IF n > w THEN n - w ELSE 0
           to == IF n + 1 > w THEN n + 1 - w ELSE 0
           A == PairsOf(m, from, n + 1)
<1>1. n \in Nat /\ from \in 0 .. n /\ (2 * w) \div 2 = w
  OBVIOUS
<1>2. m \in Seq(Record) /\ Len(m) = n + 1
  OBVIOUS
<1>3. TranscriptOf(l, n, 2 * w) \o Pair(r.turn) = A
  BY <1>1, PairsOfPush DEF TranscriptOf
<1>4. TranscriptOf(m, n + 1, 2 * w) = PairsOf(m, to, n + 1)
  BY <1>1 DEF TranscriptOf
<1> HIDE DEF m, n
<1>5. n + 1 \in 0 .. Len(m) /\ from \in 0 .. n + 1
  BY <1>1, <1>2
<1> HIDE DEF from, to, A
<1>6. Len(A) = 2 * (n + 1 - from)
  <2>1. \A t \in 0 .. Len(m) : \A f \in 0 .. t : Len(PairsOf(m, f, t)) = 2 * (t - f)
    BY <1>2, PairsOfType, Zenon
  <2> QED BY <1>1, <1>5, <2>1 DEF A
<1>7. CASE n < w
  <2>1. from = 0 /\ to = 0 /\ 2 * (n + 1 - from) <= 2 * w
    BY <1>1, <1>7 DEF from, to
  <2>2. Trim(A, 2 * w) = A
    BY <1>1, <1>6, <2>1 DEF Trim, Excess
  <2> QED BY <1>3, <1>4, <2>1, <2>2 DEF A, m, n
<1>8. CASE n >= w
  <2>1. from = n - w /\ to = from + 1 /\ 2 * (n + 1 - from) = 2 * w + 2
    BY <1>1, <1>8 DEF from, to
  <2>2. Trim(A, 2 * w) = SubSeq(A, 3, 2 * (n + 1 - from))
    BY <1>1, <1>6, <2>1 DEF Trim, Excess
  <2>3. n + 1 \in 1 .. Len(m) /\ from \in 0 .. (n + 1) - 1
    BY <1>1, <1>2, <2>1, <1>8
  <2>4. Trim(A, 2 * w) = PairsOf(m, to, n + 1)
    <3>1. \A t \in 1 .. Len(m) : \A f \in 0 .. t - 1 :
             SubSeq(PairsOf(m, f, t), 3, 2 * (t - f)) = PairsOf(m, f + 1, t)
      BY <1>2, PairsOfDrop, Zenon
    <3>2. SubSeq(A, 3, 2 * (n + 1 - from)) = PairsOf(m, from + 1, n + 1)
      BY <1>1, <2>1, <2>3, <3>1 DEF A
    <3> QED BY <2>1, <2>2, <3>2, Zenon
  <2> QED BY <1>3, <1>4, <2>4 DEF m, n
<1> QED BY <1>1, <1>7, <1>8

\* What a transcript shows of the first turns does not depend on those after them.
LEMMA TranscriptKept ==
    ASSUME NEW l \in Seq(Record), NEW r \in Record, NEW n \in 0 .. Len(l), NEW limit \in Nat
    PROVE  TranscriptOf(Append(l, r), n, limit) = TranscriptOf(l, n, limit)
<1> DEFINE from == IF n > limit \div 2 THEN n - limit \div 2 ELSE 0
           m == Append(l, r)
<1>1. from \in 0 .. n /\ n \in Nat
  OBVIOUS
<1>2. \A i \in 1 .. n : m[i] = l[i]
  OBVIOUS
<1> HIDE DEF from, m
<1>3. ASSUME NEW j \in 1 .. 2 * (n - from) PROVE MessageAt(m, from, j) = MessageAt(l, from, j)
  <2>1. from + (j + 1) \div 2 \in 1 .. n
    BY <1>1
  <2> QED BY <1>2, <2>1 DEF MessageAt
<1>4. PairsOf(m, from, n) = PairsOf(l, from, n)
  BY <1>3 DEF PairsOf
<1> QED BY <1>4 DEF TranscriptOf, from, m
-----------------------------------------------------------------------------
\* Where a transaction is under way, after its first statement.
Started == {"hash", "reference", "previous", "select", "write", "commit"}

\* A caller and where in the code it is.
CallInv(c) ==
    /\ pc[c] = "idle" <=> call[c] = NoCall
    /\ pc[c] \in {"version", "messages"} => call[c].kind = "load"
    /\ pc[c] \in Started \cup {"conversation"} => call[c].kind # "load"
    /\ pc[c] \in {"hash", "reference", "previous"} => call[c].kind = "appendIdem"
    /\ pc[c] # "return" => result[c] = Reply("none")

\* What a transaction has written and locked when it gets somewhere.
MarkInv(c) ==
    /\ pc[c] \notin Started => tx[c] = {}
    /\ pc[c] \in Started => Key(c) \in conversations \/ "conversation" \in tx[c]
    /\ "hash" \in tx[c] => call[c].kind = "appendIdem"
    /\ pc[c] \in {"hash", "previous"} => "hash" \notin tx[c]
    /\ pc[c] \in {"reference", "select", "write"} /\ call[c].kind = "appendIdem" => "hash" \in tx[c]
    /\ pc[c] = "commit" /\ call[c].kind = "appendIdem" => ("hash" \in tx[c] <=> "write" \in tx[c])
    /\ "update" \in tx[c] => pc[c] \in {"write", "commit"}
    /\ pc[c] = "write" => "update" \in tx[c]
    /\ "write" \in tx[c] => pc[c] = "commit" /\ "update" \in tx[c]
    /\ pc[c] = "commit" /\ call[c].kind = "append" => "write" \in tx[c]
    /\ pc[c] = "commit" /\ call[c].kind = "appendIf" => "update" \in tx[c]

\* Locks exclude each other, and keep what was read under them true.
Exclusive ==
    \A c, d \in Clients : c # d /\ Key(c) = Key(d) =>
       /\ ~("update" \in tx[c] /\ "update" \in tx[d])
       /\ ~("hash" \in tx[c] /\ "hash" \in tx[d] /\ call[c].idem = call[d].idem)
ViewInv(c) ==
    /\ "hash" \in tx[c] => hashes[Key(c)][call[c].idem] = NoTurn
    /\ "update" \in tx[c] => seen[c] = version[Key(c)]
    /\ "write" \in tx[c] => excess[c] = Excess(Len(messages[Key(c)]) + 2, Limit)
    /\ pc[c] \in {"write", "commit"} /\ call[c].kind = "appendIf" =>
          (seen[c] = call[c].expected <=> pc[c] = "write" \/ "write" \in tx[c])
    /\ pc[c] = "previous" => hashes[Key(c)][call[c].idem] # NoTurn
    /\ pc[c] = "commit" /\ call[c].kind = "appendIdem" /\ "write" \notin tx[c] =>
          hashes[Key(c)][call[c].idem] = call[c].turn

\* A load starts after what it has to show, and its version is no later than its messages.
LoadInv(c) ==
    /\ pc[c] # "idle" => since[c] <= Len(log[Key(c)])
    /\ pc[c] = "messages" => since[c] <= seen[c] /\ seen[c] <= Len(log[Key(c)])
    /\ result[c].status = "loaded" =>
          /\ since[c] <= result[c].version
          /\ \E n \in result[c].version .. Len(log[Key(c)]) :
                result[c].messages = TranscriptOf(log[Key(c)], n, Limit)

\* The rows of a conversation and its log.
RowsInv(k) ==
    /\ version[k] = Len(log[k])
    /\ messages[k] = TranscriptOf(log[k], Len(log[k]), Limit)
    /\ version[k] # 0 => k \in conversations
HashLogged(k) ==
    \A i \in IdemKeys : hashes[k][i] # NoTurn =>
       \E n \in DOMAIN log[k] : log[k][n] = [turn |-> hashes[k][i], idem |-> i]
LogHashed(k) ==
    \A n \in DOMAIN log[k] : log[k][n].idem # NoIdem => hashes[k][log[k][n].idem] # NoTurn
OnceInv(k) ==
    \A m, n \in DOMAIN log[k] :
       log[k][m].idem = log[k][n].idem /\ log[k][m].idem # NoIdem => m = n

CInv == TypeOK /\ \A c \in Clients : CallInv(c) /\ MarkInv(c)
IInv ==
    /\ CInv /\ Exclusive
    /\ \A c \in Clients : ViewInv(c) /\ LoadInv(c)
    /\ \A k \in Keys : RowsInv(k) /\ HashLogged(k) /\ LogHashed(k) /\ OnceInv(k)
-----------------------------------------------------------------------------
\* NewSQLStore's limit is twice a positive number of turns (sql_store.go:25-36).
LEMMA LimitEven == \E w \in Nat \ {0} : Limit = 2 * w
<1>1. MaxMessages \in Int /\ DefaultMessages \in Nat /\ DefaultMessages >= 2
  BY ConversationAssumption DEF DefaultMessages
<1> QED BY <1>1, EvenLimitType DEF Limit

\* A caller inside the store executes a call.
LEMMA CallTyped ==
    ASSUME TypeOK, NEW c \in Clients, CallInv(c), pc[c] # "idle"
    PROVE  /\ call[c] \in Calls /\ Key(c) \in Keys /\ call[c].turn \in Turns
           /\ call[c].kind \in OpKinds
           /\ call[c].kind = "appendIdem" <=> call[c].idem \in IdemKeys
           /\ RecordOf(call[c]) \in Record /\ RecordOf(call[c]).idem = call[c].idem
BY CallFields DEF TypeOK, CallInv, Key, RecordOf

\* A statement that waits is one of four.
LEMMA WaitsSomewhere ==
    ASSUME NEW c \in Clients, DeadlockAbort(c)
    PROVE  pc[c] \in {"conversation", "hash", "reference", "select"}
<1>1. Blockers(c) # {}
  BY DEF DeadlockAbort, Deadlocked
<1> QED BY <1>1 DEF Blockers

\* The tables change when a transaction commits.
LEMMA TablesStep ==
    ASSUME [Next]_vars
    PROVE  UNCHANGED tables \/ \E c \in Clients : Commit(c) /\ Persist(c)
BY DEF Next, Step, vars, Invoke, Fail, DeadlockAbort, Rollback, LoadVersion, LoadMessages,
       InsertConversation, InsertHash, CheckReference, SelectPrevious, SelectForUpdate, Write,
       Commit, Return, Done

\* The types of the tables and of the callers.
TablesTypeOK ==
    /\ conversations \subseteq Keys
    /\ version \in [Keys -> Nat]
    /\ messages \in [Keys -> Seq(Message)]
    /\ hashes \in [Keys -> [IdemKeys -> Turns \cup {NoTurn}]]
    /\ log \in [Keys -> Seq(Record)]
CallersTypeOK ==
    /\ tx \in [Clients -> SUBSET Marks]
    /\ seen \in [Clients -> Nat]
    /\ excess \in [Clients -> Nat]
    /\ pc \in [Clients -> Labels]
    /\ call \in [Clients -> Calls \cup {NoCall}]
    /\ result \in [Clients -> Results]
    /\ started \in 0 .. MaxCalls
    /\ since \in [Clients -> Nat]
    /\ \A c \in Clients : pc[c] \in {"idle", "return"} => tx[c] = {}

\* The type invariant, taken apart.
LEMMA TypeParts == TypeOK <=> TablesTypeOK /\ CallersTypeOK
BY DEF TypeOK, TablesTypeOK, CallersTypeOK

\* A commit keeps the types of the tables,
LEMMA TablesTypeStep == CInv /\ [Next]_vars => TablesTypeOK'
<1> SUFFICES ASSUME CInv, [Next]_vars PROVE TablesTypeOK'
  OBVIOUS
<1>1. TablesTypeOK /\ CallersTypeOK /\ TypeOK /\ \A c \in Clients : CallInv(c) /\ MarkInv(c)
  BY TypeParts DEF CInv
<1>2. CASE UNCHANGED tables
  BY <1>1, <1>2 DEF TablesTypeOK, tables
<1>3. ASSUME NEW c \in Clients, Commit(c), Persist(c) PROVE TablesTypeOK'
  <2> DEFINE k == Key(c)
             all == messages[k] \o Pair(call[c].turn)
  <2>1. pc[c] # "idle" /\ k \in Keys /\ call[c].turn \in Turns /\ RecordOf(call[c]) \in Record
    BY <1>1, <1>3, CallTyped DEF Commit
  <2>2. conversations' \subseteq Keys
    BY <1>1, <1>3, <2>1 DEF Persist, TablesTypeOK
  <2>3. version' \in [Keys -> Nat]
    <3>1. seen[c] + 1 \in Nat
      BY <1>1 DEF CallersTypeOK
    <3> QED BY <1>1, <1>3, <2>1, <3>1 DEF Persist, TablesTypeOK
  <2>4. messages' \in [Keys -> Seq(Message)]
    <3>1. messages[k] \in Seq(Message) /\ Pair(call[c].turn) \in Seq(Message)
      <4>1. \A t \in Turns : Pair(t) \in Seq(Message)
        BY DEF Pair, Message
      <4> QED BY <1>1, <2>1, <4>1 DEF TablesTypeOK
    <3>2. all \in Seq(Message)
      BY <3>1
    <3>3. excess[c] + 1 \in Nat \ {0}
      BY <1>1 DEF CallersTypeOK
    <3>4. \A s \in Seq(Message), m \in Nat \ {0} : SubSeq(s, m, Len(s)) \in Seq(Message)
      OBVIOUS
    <3>5. SubSeq(all, excess[c] + 1, Len(all)) \in Seq(Message)
      BY <3>2, <3>3, <3>4
    <3> HIDE DEF all
    <3>6. \/ messages' = messages
          \/ messages' = [messages EXCEPT ![k] = SubSeq(all, excess[c] + 1, Len(all))]
      BY <1>3 DEF Persist, all
    <3> QED BY <1>1, <2>1, <3>5, <3>6 DEF TablesTypeOK
  <2>5. hashes' \in [Keys -> [IdemKeys -> Turns \cup {NoTurn}]]
    <3>1. "hash" \in tx[c] => call[c].idem \in IdemKeys
      BY <1>1, <1>3, CallTyped DEF MarkInv, Commit
    <3> QED BY <1>1, <1>3, <2>1, <3>1 DEF Persist, TablesTypeOK
  <2>6. log' \in [Keys -> Seq(Record)]
    <3>1. Append(log[k], RecordOf(call[c])) \in Seq(Record)
      BY <1>1, <2>1 DEF TablesTypeOK
    <3> QED BY <1>1, <1>3, <2>1, <3>1 DEF Persist, TablesTypeOK
  <2> QED BY <2>2, <2>3, <2>4, <2>5, <2>6 DEF TablesTypeOK
<1> QED BY <1>2, <1>3, TablesStep

\* and each statement those of the callers.
LEMMA CallersTypeStep == CInv /\ [Next]_vars => CallersTypeOK'
<1> SUFFICES ASSUME CInv, [Next]_vars PROVE CallersTypeOK'
  OBVIOUS
<1>1. TablesTypeOK /\ CallersTypeOK /\ TypeOK /\ \A c \in Clients : CallInv(c) /\ MarkInv(c)
  BY TypeParts DEF CInv
<1>2. \A s \in Statuses : Reply(s) \in Results
  BY ReplyType
<1> USE <1>1 DEF CallersTypeOK, Goto, Answer, Holds, callVars, locals, Marks, Labels
<1>3. ASSUME NEW c \in Clients, Invoke(c) PROVE CallersTypeOK'
  <2>1. PICK o \in Calls : /\ call' = [call EXCEPT ![c] = o]
                           /\ since' = [since EXCEPT ![c] = Len(log[o.key])]
                           /\ Goto(c, IF o.kind = "load" THEN "version" ELSE "conversation")
    BY <1>3 DEF Invoke
  <2>2. Len(log[o.key]) \in Nat
    BY CallFields DEF TablesTypeOK
  <2> QED BY <1>3, <2>1, <2>2, SQLStoreAssumption DEF Invoke
<1>4. ASSUME NEW c \in Clients, NEW s \in {"error", "conflict"}, Rollback(c, s) PROVE CallersTypeOK'
  <2>1. Reply(s) \in Results
    BY <1>2 DEF Statuses
  <2> QED BY <1>4, <2>1 DEF Rollback
<1>5. ASSUME NEW c \in Clients, LoadVersion(c) PROVE CallersTypeOK'
  <2>1. Loaded(<<>>, 0) \in Results
    BY DEF Loaded, Results, Statuses
  <2>2. Key(c) \in conversations => version[Key(c)] \in Nat
    BY DEF TablesTypeOK
  <2>3. tx[c] = {}
    BY <1>5 DEF MarkInv, Started, LoadVersion
  <2>4. CASE Key(c) \notin conversations
    <3> DEFINE r == Loaded(<<>>, 0)
    <3>1. /\ result' = [result EXCEPT ![c] = r] /\ pc' = [pc EXCEPT ![c] = "return"]
          /\ UNCHANGED <<tx, seen, excess, call, started, since>> /\ r \in Results
      BY <1>5, <2>1, <2>4 DEF LoadVersion
    <3> HIDE DEF r
    <3> QED BY <2>3, <3>1
  <2>5. CASE Key(c) \in conversations
    BY <1>5, <2>2, <2>5 DEF LoadVersion
  <2> QED BY <2>4, <2>5
<1>6. ASSUME NEW c \in Clients, LoadMessages(c) PROVE CallersTypeOK'
  <2>1. Key(c) \in Keys
    BY <1>6, CallTyped DEF LoadMessages
  <2>2. \A m \in Seq(Message), v \in Nat : Loaded(m, v) \in Results
    BY DEF Loaded, Results, Statuses
  <2>3. Loaded(messages[Key(c)], seen[c]) \in Results
    BY <2>1, <2>2 DEF TablesTypeOK
  <2>4. tx[c] = {}
    BY <1>6 DEF MarkInv, Started, LoadMessages
  <2> QED BY <1>6, <2>3, <2>4 DEF LoadMessages
<1>7. ASSUME NEW c \in Clients, InsertConversation(c) \/ InsertHash(c) \/ CheckReference(c)
      PROVE  CallersTypeOK'
  BY <1>7 DEF InsertConversation, InsertHash, CheckReference
<1>8. ASSUME NEW c \in Clients, SelectPrevious(c) PROVE CallersTypeOK'
  BY <1>4, <1>8 DEF SelectPrevious
<1>9. ASSUME NEW c \in Clients, SelectForUpdate(c) PROVE CallersTypeOK'
  <2>1. version[Key(c)] \in Nat
    BY <1>9, CallTyped DEF SelectForUpdate, TablesTypeOK
  <2> QED BY <1>9, <2>1 DEF SelectForUpdate
<1>10. ASSUME NEW c \in Clients, Write(c) PROVE CallersTypeOK'
  <2>1. Len(messages[Key(c)]) + 2 \in Nat
    BY <1>10, CallTyped DEF Write, TablesTypeOK
  <2>2. PICK w \in Nat \ {0} : Limit = 2 * w
    BY LimitEven
  <2>3. \A n \in Nat : Excess(n, Limit) \in Nat
    BY <2>2 DEF Excess
  <2> QED BY <1>10, <2>1, <2>3 DEF Write
<1>11. ASSUME NEW c \in Clients, Commit(c) PROVE CallersTypeOK'
  <2>1. Reply("committed") \in Results /\ Reply("skipped") \in Results /\ Reply("error") \in Results
    BY <1>2 DEF Statuses
  <2> QED BY <1>11, <2>1 DEF Commit
<1>12. ASSUME NEW c \in Clients, Return(c) PROVE CallersTypeOK'
  <2>1. Reply("none") \in Results
    BY <1>2 DEF Statuses
  <2> QED BY <1>12, <2>1 DEF Return
<1>13. CASE UNCHANGED vars
  BY <1>13 DEF vars
<1> QED BY <1>3, <1>4, <1>5, <1>6, <1>7, <1>8, <1>9, <1>10, <1>11, <1>12, <1>13
        DEF Next, Step, Fail, DeadlockAbort, Done

\* Each statement leaves its caller where the call goes on.
LEMMA CallStep == ASSUME CInv, [Next]_vars, NEW d \in Clients PROVE CallInv(d)'
<1>1. TypeOK /\ CallersTypeOK /\ \A c \in Clients : CallInv(c) /\ MarkInv(c)
  BY TypeParts DEF CInv
<1> USE <1>1 DEF CallersTypeOK, Goto, Answer, Holds, callVars, locals, CallInv, Started
<1>2. ASSUME NEW c \in Clients, Invoke(c) PROVE CallInv(d)'
  BY <1>2, CallFields DEF Invoke
<1>3. ASSUME NEW c \in Clients, NEW s, Rollback(c, s), pc[c] \notin {"idle", "return"}
      PROVE  CallInv(d)'
  BY <1>3 DEF Rollback
<1>4. ASSUME NEW c \in Clients, LoadVersion(c) \/ LoadMessages(c) PROVE CallInv(d)'
  BY <1>4 DEF LoadVersion, LoadMessages
<1>5. ASSUME NEW c \in Clients, InsertConversation(c) \/ InsertHash(c) \/ CheckReference(c)
      PROVE  CallInv(d)'
  BY <1>5 DEF InsertConversation, InsertHash, CheckReference
<1>6. ASSUME NEW c \in Clients, SelectPrevious(c) PROVE CallInv(d)'
  BY <1>3, <1>6 DEF SelectPrevious
<1>7. ASSUME NEW c \in Clients, SelectForUpdate(c) \/ Write(c) PROVE CallInv(d)'
  BY <1>7 DEF SelectForUpdate, Write
<1>8. ASSUME NEW c \in Clients, Commit(c) PROVE CallInv(d)'
  BY <1>8 DEF Commit
<1>9. ASSUME NEW c \in Clients, Return(c) PROVE CallInv(d)'
  BY <1>9 DEF Return
<1>10. CASE UNCHANGED vars
  BY <1>10 DEF vars
<1> QED BY <1>2, <1>3, <1>4, <1>5, <1>6, <1>7, <1>8, <1>9, <1>10, WaitsSomewhere
        DEF Next, Step, Fail, DeadlockAbort, Done

\* Each statement leaves the marks that the next one relies on.
LEMMA MarkStep == ASSUME CInv, [Next]_vars, NEW d \in Clients PROVE MarkInv(d)'
<1>1. TypeOK /\ CallersTypeOK /\ \A c \in Clients : CallInv(c) /\ MarkInv(c)
  BY TypeParts DEF CInv
<1>2. conversations \subseteq conversations'
  BY TablesStep DEF tables, Persist
<1> USE <1>1, <1>2 DEF CallersTypeOK, Goto, Answer, Holds, callVars, locals, CallInv, MarkInv, Started,
                       tables, Key
<1>3. ASSUME NEW c \in Clients, Invoke(c) PROVE MarkInv(d)'
  BY <1>3 DEF Invoke
<1>4. ASSUME NEW c \in Clients, NEW s, Rollback(c, s), pc[c] \notin {"idle", "return"}
      PROVE  MarkInv(d)'
  BY <1>4 DEF Rollback
<1>5. ASSUME NEW c \in Clients, LoadVersion(c) \/ LoadMessages(c) PROVE MarkInv(d)'
  BY <1>5 DEF LoadVersion, LoadMessages
<1>6. ASSUME NEW c \in Clients, InsertConversation(c) PROVE MarkInv(d)'
  BY <1>6 DEF InsertConversation
<1>7. ASSUME NEW c \in Clients, InsertHash(c) PROVE MarkInv(d)'
  BY <1>7 DEF InsertHash
<1>8. ASSUME NEW c \in Clients, CheckReference(c) PROVE MarkInv(d)'
  BY <1>8 DEF CheckReference
<1>9. ASSUME NEW c \in Clients, SelectPrevious(c) PROVE MarkInv(d)'
  BY <1>4, <1>9 DEF SelectPrevious
<1>10. ASSUME NEW c \in Clients, SelectForUpdate(c) PROVE MarkInv(d)'
  BY <1>10, CallTyped DEF SelectForUpdate, OpKinds
<1>11. ASSUME NEW c \in Clients, Write(c) PROVE MarkInv(d)'
  BY <1>11 DEF Write
<1>12. ASSUME NEW c \in Clients, Commit(c) PROVE MarkInv(d)'
  BY <1>12 DEF Commit
<1>13. ASSUME NEW c \in Clients, Return(c) PROVE MarkInv(d)'
  BY <1>13 DEF Return
<1>14. CASE UNCHANGED vars
  BY <1>14 DEF vars
<1> QED BY <1>3, <1>4, <1>5, <1>6, <1>7, <1>8, <1>9, <1>10, <1>11, <1>12, <1>13, <1>14,
           WaitsSomewhere DEF Next, Step, Fail, DeadlockAbort, Done

\* Types, places and marks go together.
LEMMA CStep == CInv /\ [Next]_vars => CInv'
BY TablesTypeStep, CallersTypeStep, CallStep, MarkStep, TypeParts DEF CInv, TypeOK, TablesTypeOK, CallersTypeOK
-----------------------------------------------------------------------------
\* What a commit does to the rows of a conversation.
LEMMA PersistEffect ==
    ASSUME CInv, NEW c \in Clients, ViewInv(c), Commit(c), Persist(c), NEW k \in Keys
    PROVE  /\ k \in conversations \/ k = Key(c) => k \in conversations'
           /\ k # Key(c) \/ "write" \notin tx[c] =>
                 UNCHANGED <<version[k], messages[k], log[k], hashes[k]>>
           /\ k = Key(c) /\ "write" \in tx[c] =>
                 /\ version'[k] = version[k] + 1
                 /\ messages'[k] = Trim(messages[k] \o Pair(call[c].turn), Limit)
                 /\ log'[k] = Append(log[k], RecordOf(call[c]))
                 /\ hashes'[k] = IF call[c].kind = "appendIdem"
                                 THEN [hashes[k] EXCEPT ![call[c].idem] = call[c].turn]
                                 ELSE hashes[k]
<1>1. /\ TablesTypeOK /\ CallersTypeOK /\ MarkInv(c) /\ pc[c] = "commit"
      /\ Key(c) \in Keys /\ call[c].turn \in Turns
      /\ call[c].kind = "appendIdem" <=> call[c].idem \in IdemKeys
  BY CallTyped, TypeParts DEF CInv, Commit
<1>2. k \in conversations \/ k = Key(c) => k \in conversations'
  BY <1>1 DEF MarkInv, Started, Persist
<1>3. "hash" \in tx[c] <=> call[c].kind = "appendIdem" /\ "write" \in tx[c]
  BY <1>1 DEF MarkInv
<1>4. ASSUME k # Key(c) \/ "write" \notin tx[c]
      PROVE  UNCHANGED <<version[k], messages[k], log[k], hashes[k]>>
  BY <1>1, <1>3, <1>4 DEF Persist, TablesTypeOK
<1>5. ASSUME k = Key(c), "write" \in tx[c]
      PROVE  /\ version'[k] = version[k] + 1
             /\ messages'[k] = Trim(messages[k] \o Pair(call[c].turn), Limit)
             /\ log'[k] = Append(log[k], RecordOf(call[c]))
             /\ hashes'[k] = IF call[c].kind = "appendIdem"
                             THEN [hashes[k] EXCEPT ![call[c].idem] = call[c].turn]
                             ELSE hashes[k]
  <2> DEFINE all == messages[k] \o Pair(call[c].turn)
  <2>1. seen[c] = version[k] /\ excess[c] = Excess(Len(messages[k]) + 2, Limit)
    BY <1>1, <1>5 DEF ViewInv, MarkInv
  <2>2. /\ version'[k] = seen[c] + 1
        /\ messages'[k] = SubSeq(all, excess[c] + 1, Len(all))
        /\ log'[k] = Append(log[k], RecordOf(call[c]))
    BY <1>1, <1>5 DEF Persist, TablesTypeOK
  <2>3. hashes'[k] = IF call[c].kind = "appendIdem"
                     THEN [hashes[k] EXCEPT ![call[c].idem] = call[c].turn]
                     ELSE hashes[k]
    BY <1>1, <1>3, <1>5 DEF Persist, TablesTypeOK
  <2>4. all \in Seq(Message) /\ Len(all) = Len(messages[k]) + 2
    <3>1. \A t \in Turns : Pair(t) \in Seq(Message) /\ Len(Pair(t)) = 2
      BY DEF Pair, Message
    <3>2. messages[k] \in Seq(Message)
      BY DEF CInv, TypeOK
    <3>3. \A m \in Seq(Message), u \in Seq(Message) :
             m \o u \in Seq(Message) /\ Len(m \o u) = Len(m) + Len(u)
      OBVIOUS
    <3> QED BY <1>1, <3>1, <3>2, <3>3
  <2>5. excess[c] = Excess(Len(all), Limit)
    BY <2>1, <2>4
  <2> HIDE DEF all
  <2>6. excess[c] = 0 => SubSeq(all, excess[c] + 1, Len(all)) = all
    BY <2>4
  <2>7. SubSeq(all, excess[c] + 1, Len(all)) = Trim(all, Limit)
    BY <2>5, <2>6 DEF Trim
  <2> QED BY <2>1, <2>2, <2>3, <2>7 DEF all
<1> QED BY <1>2, <1>4, <1>5

\* A caller's own state changes by its own steps.
Local(d) == <<pc[d], call[d], tx[d], seen[d], excess[d], result[d], since[d]>>
Own(d) == Invoke(d) \/ Step(d) \/ Fail(d) \/ DeadlockAbort(d)

\* One caller at a time takes a step.
LEMMA OneSteps ==
    ASSUME CInv, NEW c \in Clients, Own(c)
    PROVE  \A d \in Clients : d # c => UNCHANGED Local(d)
<1>1. CallersTypeOK
  BY TypeParts DEF CInv
<1> SUFFICES ASSUME NEW d \in Clients, d # c PROVE UNCHANGED Local(d)
  OBVIOUS
<1> USE <1>1 DEF CallersTypeOK, Local, locals, callVars, Goto, Answer, Holds, Rollback
<1>2. CASE Invoke(c) \/ Fail(c) \/ DeadlockAbort(c)
  BY <1>2 DEF Invoke, Fail, DeadlockAbort
<1>3. CASE LoadVersion(c) \/ LoadMessages(c)
  BY <1>3 DEF LoadVersion, LoadMessages
<1>4. CASE InsertConversation(c) \/ InsertHash(c) \/ CheckReference(c)
  BY <1>4 DEF InsertConversation, InsertHash, CheckReference
<1>5. CASE SelectPrevious(c) \/ SelectForUpdate(c) \/ Write(c)
  BY <1>5 DEF SelectPrevious, SelectForUpdate, Write
<1>6. CASE Commit(c)
  BY <1>6 DEF Commit
<1>7. CASE Return(c)
  BY <1>7 DEF Return
<1> QED BY <1>2, <1>3, <1>4, <1>5, <1>6, <1>7 DEF Own, Step

\* What other callers do leaves it alone.
LEMMA LocalStep ==
    ASSUME CInv, [Next]_vars, NEW d \in Clients
    PROVE  UNCHANGED Local(d) \/ Own(d)
<1>1. CASE UNCHANGED vars
  BY <1>1 DEF vars, Local, locals, callVars
<1>2. ASSUME NEW c \in Clients, Own(c) PROVE UNCHANGED Local(d) \/ Own(d)
  BY <1>2, OneSteps
<1> QED BY <1>1, <1>2 DEF Next, Own, Done

\* A commit changes only the caller that commits.
LEMMA CommitOwn ==
    ASSUME CInv, NEW c \in Clients, NEW d \in Clients, Commit(c), UNCHANGED Local(d)
    PROVE  c # d
BY DEF CInv, TypeOK, Commit, Local, Answer, Goto

\* A statement that is executed waits for no lock.
LEMMA NothingBlocks ==
    ASSUME NEW c \in Clients, Blockers(c) = {}
    PROVE  \A d \in Clients \ {c} : Key(d) = Key(c) =>
             /\ pc[c] = "hash" /\ call[d].idem = call[c].idem => "hash" \notin tx[d]
             /\ pc[c] = "select" => "update" \notin tx[d]
<1>1. CASE pc[c] = "hash"
  BY <1>1 DEF Blockers, Others
<1>2. CASE pc[c] = "select"
  BY <1>2 DEF Blockers, Others
<1> QED BY <1>1, <1>2

\* No two transactions have the same row locked.
LEMMA ExclusiveStep == CInv /\ Exclusive /\ [Next]_vars => Exclusive'
<1> SUFFICES ASSUME CInv, Exclusive, [Next]_vars PROVE Exclusive'
  OBVIOUS
<1>1. CallersTypeOK /\ \A c \in Clients : CallInv(c) /\ MarkInv(c)
  BY TypeParts DEF CInv
<1> USE <1>1 DEF CallersTypeOK, Goto, Answer, Holds, callVars, locals, Exclusive, Key
<1>2. ASSUME NEW c \in Clients, Invoke(c) PROVE Exclusive'
  BY <1>2 DEF Invoke, MarkInv, Started
<1>3. ASSUME NEW c \in Clients, NEW s, Rollback(c, s) PROVE Exclusive'
  BY <1>3 DEF Rollback
<1>4. ASSUME NEW c \in Clients, LoadVersion(c) \/ LoadMessages(c) PROVE Exclusive'
  BY <1>4 DEF LoadVersion, LoadMessages
<1>5. ASSUME NEW c \in Clients, InsertConversation(c) \/ CheckReference(c) \/ Write(c) PROVE Exclusive'
  <2>1. UNCHANGED call /\ \E m \in Marks \ {"update", "hash"} :
           tx' = tx \/ tx' = [tx EXCEPT ![c] = @ \cup {m}]
    BY <1>5 DEF InsertConversation, CheckReference, Write, Marks
  <2> QED BY <2>1
<1>6. ASSUME NEW c \in Clients, InsertHash(c) PROVE Exclusive'
  BY <1>6, NothingBlocks DEF InsertHash
<1>7. ASSUME NEW c \in Clients, SelectPrevious(c) PROVE Exclusive'
  BY <1>3, <1>7 DEF SelectPrevious
<1>8. ASSUME NEW c \in Clients, SelectForUpdate(c) PROVE Exclusive'
  BY <1>8, NothingBlocks DEF SelectForUpdate
<1>9. ASSUME NEW c \in Clients, Commit(c) PROVE Exclusive'
  BY <1>9 DEF Commit
<1>10. ASSUME NEW c \in Clients, Return(c) PROVE Exclusive'
  BY <1>10 DEF Return, MarkInv, Started
<1>11. CASE UNCHANGED vars
  BY <1>11 DEF vars
<1> QED BY <1>2, <1>3, <1>4, <1>5, <1>6, <1>7, <1>8, <1>9, <1>10, <1>11
        DEF Next, Step, Fail, DeadlockAbort, Done

\* What a transaction has read under its locks stays true to its commit.
LEMMA ViewStep ==
    ASSUME CInv, Exclusive, \A c \in Clients : ViewInv(c), [Next]_vars, NEW d \in Clients
    PROVE  ViewInv(d)'
<1>1. /\ TablesTypeOK /\ CallersTypeOK /\ TypeOK /\ CallInv(d) /\ MarkInv(d) /\ ViewInv(d)
  BY TypeParts DEF CInv
<1>2. CASE UNCHANGED Local(d) /\ UNCHANGED tables
  BY <1>1, <1>2 DEF Local, tables, ViewInv, Key
<1>3. ASSUME UNCHANGED Local(d), NEW c \in Clients, Commit(c), Persist(c) PROVE ViewInv(d)'
  <2>1. CASE tx[d] = {} /\ pc[d] \notin {"previous", "commit", "write"}
    BY <1>3, <2>1 DEF Local, ViewInv
  <2>2. CASE pc[d] \in Started
    <3>0. PICK k \in Keys : k = Key(d)
      BY <1>1, <2>2, CallTyped DEF Started
    <3>1. c # d /\ Key(d) = k /\ Key(d)' = k /\ MarkInv(c) /\ ViewInv(c) /\ Commit(c)
      BY <1>3, <3>0, CommitOwn DEF CInv, Local, Key
    <3>2. CASE UNCHANGED <<version[k], messages[k], log[k], hashes[k]>>
      BY <1>1, <1>3, <3>1, <3>2 DEF Local, ViewInv
    <3>3. CASE k = Key(c) /\ "write" \in tx[c]
      <4>1. "update" \notin tx[d] /\ "write" \notin tx[d]
        BY <1>1, <3>1, <3>3 DEF Exclusive, MarkInv
      <4>2. \A i \in IdemKeys : \/ hashes'[k][i] = hashes[k][i]
                                \/ /\ i = call[c].idem /\ "hash" \in tx[c]
                                   /\ hashes[k][i] = NoTurn /\ hashes'[k][i] \in Turns
        <5>1. /\ hashes'[k] = IF call[c].kind = "appendIdem"
                              THEN [hashes[k] EXCEPT ![call[c].idem] = call[c].turn]
                              ELSE hashes[k]
              /\ pc[c] = "commit" /\ call[c].turn \in Turns
          BY <1>1, <1>3, <3>1, <3>3, PersistEffect, CallTyped DEF Commit, CInv
        <5>2. call[c].kind = "appendIdem" => "hash" \in tx[c] /\ hashes[k][call[c].idem] = NoTurn
          BY <3>1, <3>3, <5>1 DEF MarkInv, ViewInv
        <5>3. hashes[k] \in [IdemKeys -> Turns \cup {NoTurn}]
          BY <1>1, <3>1 DEF TablesTypeOK
        <5> QED BY <5>1, <5>2, <5>3
      <4>3. call[d].kind = "appendIdem" => call[d].idem \in IdemKeys
        BY <1>1, <2>2, CallTyped DEF Started
      <4>4. "hash" \in tx[d] => hashes'[k][call[d].idem] = NoTurn
        BY <1>1, <3>1, <3>3, <4>2, <4>3 DEF Exclusive, MarkInv, ViewInv
      <4>5. pc[d] = "previous" => hashes'[k][call[d].idem] # NoTurn
        BY <1>1, <3>1, <4>2, <4>3, SQLStoreAssumption DEF CallInv, ViewInv
      <4>6. pc[d] = "commit" /\ call[d].kind = "appendIdem" /\ "write" \notin tx[d] =>
               hashes'[k][call[d].idem] = call[d].turn
        BY <1>1, <2>2, <3>1, <4>2, <4>3, SQLStoreAssumption, CallTyped DEF ViewInv, Started
      <4> QED BY <1>1, <1>3, <3>1, <4>1, <4>4, <4>5, <4>6 DEF Local, ViewInv
    <3>4. k # Key(c) \/ "write" \notin tx[c] =>
             UNCHANGED <<version[k], messages[k], log[k], hashes[k]>>
      <4>1. CInv /\ Persist(c)
        BY <1>3
      <4> QED BY <3>1, <4>1, PersistEffect
    <3> QED BY <3>2, <3>3, <3>4
  <2> QED BY <1>1, <2>1, <2>2 DEF MarkInv, Started
<1>4. ASSUME Own(d) PROVE ViewInv(d)'
  <2> USE <1>1, <1>4 DEF CallersTypeOK, Goto, Answer, Holds, callVars, locals, tables, ViewInv, MarkInv,
                         CallInv, Started, Key
  <2>1. CASE Invoke(d) \/ LoadVersion(d) \/ LoadMessages(d)
    BY <2>1 DEF Invoke, LoadVersion, LoadMessages
  <2>2. ASSUME NEW s, Rollback(d, s) PROVE ViewInv(d)'
    BY <2>2 DEF Rollback
  <2>3. CASE InsertConversation(d) \/ CheckReference(d)
    BY <2>3 DEF InsertConversation, CheckReference
  <2>4. CASE InsertHash(d)
    BY <2>4 DEF InsertHash
  <2>5. CASE SelectPrevious(d)
    BY <2>2, <2>5 DEF SelectPrevious
  <2>6. CASE SelectForUpdate(d)
    BY <2>6 DEF SelectForUpdate
  <2>7. CASE Write(d)
    BY <2>7 DEF Write
  <2>8. CASE Commit(d)
    BY <2>8 DEF Commit
  <2>9. CASE Return(d)
    BY <2>9 DEF Return
  <2> QED BY <2>1, <2>2, <2>3, <2>4, <2>5, <2>6, <2>7, <2>8, <2>9
          DEF Own, Step, Fail, DeadlockAbort
<1>5. CASE UNCHANGED Local(d) /\ ~UNCHANGED tables
  BY <1>3, <1>5, TablesStep
<1> QED BY <1>2, <1>4, <1>5, LocalStep
-----------------------------------------------------------------------------
\* The rows of a conversation stay the transcript of its log.
LEMMA RowsStep ==
    ASSUME CInv, \A c \in Clients : ViewInv(c), [Next]_vars, NEW k \in Keys, RowsInv(k)
    PROVE  RowsInv(k)'
<1>1. CASE UNCHANGED tables
  BY <1>1 DEF tables, RowsInv
<1>2. ASSUME NEW c \in Clients, Commit(c), Persist(c) PROVE RowsInv(k)'
  <2>1. CASE k # Key(c) \/ "write" \notin tx[c]
    BY <1>2, <2>1, PersistEffect DEF RowsInv
  <2>2. CASE k = Key(c) /\ "write" \in tx[c]
    <3>1. log[k] \in Seq(Record) /\ RecordOf(call[c]) \in Record
          /\ RecordOf(call[c]).turn = call[c].turn
      BY <1>2, CallTyped DEF CInv, TypeOK, Commit, RecordOf
    <3>2. PICK w \in Nat \ {0} : Limit = 2 * w
      BY LimitEven
    <3>3. /\ version'[k] = version[k] + 1 /\ k \in conversations'
          /\ messages'[k] = Trim(messages[k] \o Pair(call[c].turn), Limit)
          /\ log'[k] = Append(log[k], RecordOf(call[c]))
      BY <1>2, <2>2, PersistEffect
    <3>4. Len(log'[k]) = Len(log[k]) + 1
      BY <3>1, <3>3
    <3>5. messages'[k] = TranscriptOf(log'[k], Len(log'[k]), Limit)
      BY <3>1, <3>2, <3>3, <3>4, TrimShowsLog DEF RowsInv
    <3> QED BY <3>3, <3>4, <3>5 DEF RowsInv
  <2> QED BY <2>1, <2>2
<1> QED BY <1>1, <1>2, TablesStep

\* A turn committed under a retry key has its hash in the table, and only such turns have one.
LEMMA RecordedStep ==
    ASSUME CInv, \A c \in Clients : ViewInv(c), [Next]_vars, NEW k \in Keys,
           HashLogged(k), LogHashed(k), OnceInv(k)
    PROVE  HashLogged(k)' /\ LogHashed(k)' /\ OnceInv(k)'
<1>1. CASE UNCHANGED <<log[k], hashes[k]>>
  BY <1>1 DEF HashLogged, LogHashed, OnceInv
<1>2. ASSUME NEW c \in Clients, Commit(c), Persist(c), k = Key(c), "write" \in tx[c]
      PROVE  HashLogged(k)' /\ LogHashed(k)' /\ OnceInv(k)'
  <2> DEFINE r == RecordOf(call[c])
             n == Len(log[k])
  <2>1. /\ log[k] \in Seq(Record) /\ r \in Record /\ r = [turn |-> call[c].turn, idem |-> call[c].idem]
        /\ call[c].turn \in Turns
        /\ call[c].kind = "appendIdem" <=> call[c].idem \in IdemKeys
        /\ call[c].idem \in IdemKeys \cup {NoIdem}
        /\ hashes[k] \in [IdemKeys -> Turns \cup {NoTurn}]
    BY <1>2, CallTyped, CallFields DEF CInv, TypeOK, Commit, RecordOf
  <2>2. /\ log'[k] = Append(log[k], r)
        /\ hashes'[k] = IF call[c].kind = "appendIdem"
                        THEN [hashes[k] EXCEPT ![call[c].idem] = call[c].turn]
                        ELSE hashes[k]
    BY <1>2, PersistEffect
  <2>3. /\ n \in Nat /\ DOMAIN log[k] = 1 .. n /\ DOMAIN log'[k] = 1 .. n + 1
        /\ \A m \in 1 .. n : log'[k][m] = log[k][m] /\ log[k][m] \in Record
        /\ log'[k][n + 1] = r
    <3>1. \A s \in Seq(Record), x \in Record :
             /\ Len(s) \in Nat /\ DOMAIN s = 1 .. Len(s) /\ DOMAIN Append(s, x) = 1 .. Len(s) + 1
             /\ \A m \in 1 .. Len(s) : Append(s, x)[m] = s[m] /\ s[m] \in Record
             /\ Append(s, x)[Len(s) + 1] = x
      OBVIOUS
    <3> QED BY <2>1, <2>2, <3>1
  <2> HIDE DEF r, n
  <2>4. call[c].kind = "appendIdem" => hashes[k][call[c].idem] = NoTurn
    BY <1>2 DEF CInv, MarkInv, ViewInv, Commit
  <2>5. \A i \in IdemKeys :
           hashes'[k][i] = IF i = call[c].idem THEN call[c].turn ELSE hashes[k][i]
    BY <2>1, <2>2, <2>3
  <2>6. \A m \in 1 .. n : log[k][m].idem = call[c].idem => call[c].idem = NoIdem
    BY <2>1, <2>3, <2>4 DEF LogHashed
  <2>7. HashLogged(k)'
    <3> SUFFICES ASSUME NEW i \in IdemKeys, hashes'[k][i] # NoTurn
                 PROVE  \E m \in DOMAIN log'[k] : log'[k][m] = [turn |-> hashes'[k][i], idem |-> i]
      BY DEF HashLogged
    <3>1. CASE i = call[c].idem
      BY <2>1, <2>3, <2>5, <3>1
    <3>2. CASE i # call[c].idem
      BY <2>3, <2>5, <3>2 DEF HashLogged
    <3> QED BY <3>1, <3>2
  <2>8. LogHashed(k)'
    <3> SUFFICES ASSUME NEW m \in 1 .. n + 1, log'[k][m].idem # NoIdem
                 PROVE  hashes'[k][log'[k][m].idem] # NoTurn
      BY <2>3 DEF LogHashed
    <3>1. log'[k][m].idem \in IdemKeys
      BY <2>1, <2>3 DEF Record
    <3>2. CASE m = n + 1
      BY <2>1, <2>3, <2>5, <3>1, <3>2, SQLStoreAssumption
    <3>3. CASE m \in 1 .. n
      BY <2>1, <2>3, <2>5, <3>1, <3>3, SQLStoreAssumption DEF LogHashed
    <3> QED BY <2>3, <3>2, <3>3
  <2>9. OnceInv(k)'
    <3> SUFFICES ASSUME NEW m \in 1 .. n + 1, NEW p \in 1 .. n + 1,
                        log'[k][m].idem = log'[k][p].idem, log'[k][m].idem # NoIdem
                 PROVE  m = p
      BY <2>3 DEF OnceInv
    <3>1. r.idem = call[c].idem
      BY <2>1
    <3>2. CASE m \in 1 .. n /\ p \in 1 .. n
      BY <2>3, <3>2 DEF OnceInv
    <3>3. CASE m = n + 1 /\ p \in 1 .. n
      BY <2>3, <2>6, <3>1, <3>3
    <3>4. CASE p = n + 1 /\ m \in 1 .. n
      BY <2>3, <2>6, <3>1, <3>4
    <3> QED BY <2>3, <3>2, <3>3, <3>4
  <2> QED BY <2>7, <2>8, <2>9
<1>3. CASE UNCHANGED tables
  BY <1>1, <1>3 DEF tables
<1> QED BY <1>1, <1>2, <1>3, TablesStep, PersistEffect

\* A load shows what was committed when it started, and goes on showing it.
LEMMA LoadStep ==
    ASSUME CInv, \A c \in Clients : ViewInv(c) /\ LoadInv(c), \A k \in Keys : RowsInv(k),
           [Next]_vars, NEW d \in Clients
    PROVE  LoadInv(d)'
<1>1. /\ TypeOK /\ TablesTypeOK /\ CallersTypeOK /\ CallInv(d) /\ MarkInv(d) /\ LoadInv(d)
  BY TypeParts DEF CInv
<1>2. PICK w \in Nat \ {0} : Limit = 2 * w
  BY LimitEven
<1>3. ASSUME NEW k \in Keys
      PROVE  /\ Len(log[k]) \in Nat /\ Len(log[k]) <= Len(log'[k])
             /\ \A n \in 0 .. Len(log[k]) : TranscriptOf(log'[k], n, Limit) = TranscriptOf(log[k], n, Limit)
  <2>1. CASE log'[k] = log[k]
    BY <1>1, <2>1 DEF TablesTypeOK
  <2>2. ASSUME NEW r \in Record, log'[k] = Append(log[k], r)
        PROVE  /\ Len(log[k]) \in Nat /\ Len(log[k]) <= Len(log'[k])
               /\ \A n \in 0 .. Len(log[k]) :
                     TranscriptOf(log'[k], n, Limit) = TranscriptOf(log[k], n, Limit)
    <3>1. log[k] \in Seq(Record) /\ Limit \in Nat
      BY <1>1, <1>2 DEF TablesTypeOK
    <3>2. Len(log[k]) \in Nat /\ Len(log'[k]) = Len(log[k]) + 1
      BY <2>2, <3>1
    <3> QED BY <2>2, <3>1, <3>2, TranscriptKept
  <2>3. log'[k] = log[k] \/ \E r \in Record : log'[k] = Append(log[k], r)
    <3>1. CASE UNCHANGED tables
      BY <3>1 DEF tables
    <3>2. ASSUME NEW c \in Clients, Commit(c), Persist(c)
          PROVE  log'[k] = log[k] \/ \E r \in Record : log'[k] = Append(log[k], r)
      <4>1. RecordOf(call[c]) \in Record
        BY <3>2, CallTyped DEF CInv, Commit
      <4> QED BY <3>2, <4>1, PersistEffect
    <3> QED BY <3>1, <3>2, TablesStep
  <2> QED BY <2>1, <2>2, <2>3
<1>4. CASE UNCHANGED Local(d)
  <2>1. CASE pc[d] = "idle"
    <3>1. result[d] = Reply("none")
      BY <1>1, <2>1 DEF CallInv
    <3> QED BY <1>4, <2>1, <3>1 DEF Local, LoadInv, Reply
  <2>2. CASE pc[d] # "idle"
    <3>1. PICK k \in Keys : k = Key(d) /\ Key(d)' = k
      BY <1>1, <1>4, <2>2, CallTyped DEF Local, Key
    <3>2. since[d] \in Nat /\ seen[d] \in Nat /\ result[d].version \in Nat
      BY <1>1 DEF CallersTypeOK, Results
    <3>3. /\ UNCHANGED <<pc[d], since[d], seen[d], result[d]>>
          /\ Len(log[k]) \in Nat /\ Len(log'[k]) \in Nat
      BY <1>3, <1>4, TablesTypeStep DEF Local, TablesTypeOK
    <3>4. since[d] <= Len(log'[k]) /\ (pc[d] = "messages" => since[d] <= seen[d] /\ seen[d] <= Len(log'[k]))
      BY <1>1, <1>3, <2>2, <3>1, <3>2, <3>3 DEF LoadInv
    <3>5. ASSUME result[d].status = "loaded"
          PROVE  /\ since[d] <= result[d].version
                 /\ \E n \in result[d].version .. Len(log'[k]) :
                       result[d].messages = TranscriptOf(log'[k], n, Limit)
      <4>1. PICK n \in result[d].version .. Len(log[k]) :
               result[d].messages = TranscriptOf(log[k], n, Limit)
        BY <1>1, <3>1, <3>5 DEF LoadInv
      <4>2. n \in 0 .. Len(log[k]) /\ n \in result[d].version .. Len(log'[k])
        BY <1>3, <3>2, <3>3
      <4> QED BY <1>1, <1>3, <3>5, <4>1, <4>2 DEF LoadInv
    <3> QED BY <3>1, <3>3, <3>4, <3>5 DEF LoadInv
  <2> QED BY <2>1, <2>2
<1>5. ASSUME Own(d) PROVE LoadInv(d)'
  <2> USE <1>1, <1>5 DEF CallersTypeOK, Goto, Answer, Holds, callVars, locals, CallInv
  <2>1. CASE Invoke(d)
    <3>1. PICK o \in Calls : /\ call' = [call EXCEPT ![d] = o]
                             /\ since' = [since EXCEPT ![d] = Len(log[o.key])]
                             /\ Goto(d, IF o.kind = "load" THEN "version" ELSE "conversation")
      BY <2>1 DEF Invoke
    <3>2. /\ Key(d)' = o.key /\ since'[d] = Len(log[o.key]) /\ Len(log[o.key]) \in Nat
          /\ pc'[d] # "messages" /\ result'[d].status = "none" /\ log' = log
      BY <2>1, <3>1, CallFields DEF Invoke, tables, Key, TablesTypeOK, Reply
    <3> QED BY <3>2 DEF LoadInv, Key
  <2>2. CASE pc[d] \notin {"idle", "version", "messages"}
    <3>1. PICK k \in Keys : k = Key(d)
      BY <2>2, CallTyped
    <3>2. result'[d].status # "loaded" \/ UNCHANGED result
      BY <2>2 DEF Own, Step, Fail, DeadlockAbort, Rollback, Invoke, LoadVersion, LoadMessages,
         InsertConversation, InsertHash, CheckReference, SelectPrevious, SelectForUpdate, Write,
         Commit, Return, Reply
    <3>3. pc[d] # "return" => pc'[d] \notin {"idle", "messages"}
      <4>1. ASSUME pc[d] # "return" PROVE pc'[d] \in Started \cup {"return"}
        <5>1. CASE Fail(d) \/ DeadlockAbort(d) \/ Commit(d)
          BY <5>1 DEF Fail, DeadlockAbort, Rollback, Commit
        <5>2. CASE \/ InsertConversation(d) \/ InsertHash(d) \/ CheckReference(d)
                   \/ SelectPrevious(d) \/ SelectForUpdate(d) \/ Write(d)
          BY <5>2 DEF Rollback, InsertConversation, InsertHash, CheckReference, SelectPrevious,
             SelectForUpdate, Write, Started
        <5> QED BY <2>2, <4>1, <5>1, <5>2 DEF Own, Step, Invoke, LoadVersion, LoadMessages, Return
      <4> QED BY <4>1 DEF Started
    <3>9. pc[d] # "return" => UNCHANGED <<call, since>> /\ result[d].status = "none"
      BY <2>2 DEF Own, Step, Fail, DeadlockAbort, Rollback, Invoke, LoadVersion, LoadMessages,
         InsertConversation, InsertHash, CheckReference, SelectPrevious, SelectForUpdate, Write,
         Commit, Return, Reply
    <3>4. CASE pc[d] = "return"
      <4>1. Return(d)
        BY <2>2, <3>4, WaitsSomewhere DEF Own, Step, Fail, Invoke, LoadVersion, LoadMessages,
           InsertConversation, InsertHash, CheckReference, SelectPrevious, SelectForUpdate, Write,
           Commit
      <4> QED BY <4>1 DEF Return, LoadInv, Reply
    <3>5. CASE pc[d] # "return"
      <4>1. since[d] <= Len(log[k]) /\ since[d] \in Nat /\ Len(log'[k]) \in Nat /\ Key(d)' = k
        BY <2>2, <3>1, <3>5, <3>9, TablesTypeStep DEF LoadInv, TablesTypeOK, Key
      <4>2. since'[d] <= Len(log'[k]) /\ result'[d].status # "loaded" /\ pc'[d] # "messages"
        BY <1>3, <3>2, <3>3, <3>5, <3>9, <4>1
      <4> QED BY <4>1, <4>2 DEF LoadInv
    <3> QED BY <3>4, <3>5
  <2>3. CASE pc[d] \in {"version", "messages"}
    <3>1. PICK k \in Keys : k = Key(d)
      BY <2>3, CallTyped
    <3>2. /\ since[d] <= Len(log[k]) /\ since[d] \in Nat /\ seen[d] \in Nat /\ Len(log[k]) \in Nat
          /\ result[d].status = "none" /\ version[k] = Len(log[k]) /\ RowsInv(k)
      BY <1>3, <2>3, <3>1 DEF LoadInv, RowsInv, Reply
    <3>3. CASE LoadVersion(d)
      <4>1. log' = log /\ since' = since /\ Key(d)' = k
        BY <3>1, <3>3 DEF LoadVersion, tables, Key
      <4>2. CASE Key(d) \in conversations
        <5>1. seen'[d] = Len(log[k]) /\ result' = result
          BY <3>1, <3>2, <3>3, <4>2 DEF LoadVersion
        <5> QED BY <3>2, <4>1, <5>1 DEF LoadInv
      <4>3. CASE Key(d) \notin conversations
        <5>1. Len(log[k]) = 0 /\ messages[k] = TranscriptOf(log[k], 0, Limit) /\ since[d] = 0
          BY <3>1, <3>2, <4>3 DEF RowsInv
        <5>2. TranscriptOf(log[k], 0, Limit) = <<>>
          BY <1>2 DEF TranscriptOf, PairsOf
        <5>3. /\ result'[d].messages = <<>> /\ result'[d].version = 0 /\ pc'[d] = "return"
          BY <3>3, <4>3 DEF LoadVersion, Loaded
        <5>4. 0 \in result'[d].version .. Len(log'[k])
          BY <4>1, <5>1, <5>3
        <5> QED BY <4>1, <5>1, <5>2, <5>3, <5>4 DEF LoadInv
      <4> QED BY <4>2, <4>3
    <3>4. CASE LoadMessages(d)
      <4>1. log' = log /\ since' = since /\ Key(d)' = k /\ pc'[d] = "return"
        BY <3>1, <3>4 DEF LoadMessages, tables, Key
      <4>2. result'[d].messages = messages[k] /\ result'[d].version = seen[d]
        BY <3>1, <3>4 DEF LoadMessages, Loaded
      <4>3. since[d] <= seen[d] /\ seen[d] <= Len(log[k])
        BY <3>1, <3>4 DEF LoadMessages, LoadInv
      <4>4. Len(log[k]) \in seen[d] .. Len(log[k]) /\ messages[k] = TranscriptOf(log[k], Len(log[k]), Limit)
        BY <3>2, <4>3 DEF RowsInv
      <4> QED BY <3>2, <4>1, <4>2, <4>3, <4>4 DEF LoadInv
    <3>5. CASE Fail(d)
      <4>1. log' = log /\ since' = since /\ Key(d)' = k /\ pc'[d] = "return" /\ result'[d].status = "error"
        BY <3>1, <3>5 DEF Fail, Rollback, tables, Key, Reply
      <4> QED BY <3>2, <4>1 DEF LoadInv
    <3> QED BY <2>3, <3>3, <3>4, <3>5, WaitsSomewhere
            DEF Own, Step, Invoke, InsertConversation, InsertHash, CheckReference, SelectPrevious,
                SelectForUpdate, Write, Commit, Return
  <2>4. CASE pc[d] = "idle"
    BY <2>1, <2>4, WaitsSomewhere
       DEF Own, Step, Fail, LoadVersion, LoadMessages, InsertConversation, InsertHash,
           CheckReference, SelectPrevious, SelectForUpdate, Write, Commit, Return
  <2> QED BY <2>2, <2>3, <2>4
<1> QED BY <1>4, <1>5, LocalStep
-----------------------------------------------------------------------------
\* The empty tables satisfy the invariant,
LEMMA InitInv == Init => IInv
<1> SUFFICES ASSUME Init PROVE IInv
  OBVIOUS
<1>1. Reply("none") \in Results
  BY ReplyType DEF Statuses
<1>2. TablesTypeOK
  BY DEF Init, TablesTypeOK
<1>3. CallersTypeOK
  BY <1>1, SQLStoreAssumption DEF Init, CallersTypeOK, Labels
<1>4. \A c \in Clients : CallInv(c) /\ MarkInv(c) /\ ViewInv(c)
  BY DEF Init, CallInv, MarkInv, ViewInv, Started
<1>5. Exclusive
  BY DEF Init, Exclusive
<1>6. \A c \in Clients : LoadInv(c)
  BY DEF Init, LoadInv, Reply
<1>7. ASSUME NEW k \in Keys PROVE RowsInv(k) /\ HashLogged(k) /\ LogHashed(k) /\ OnceInv(k)
  <2>1. PICK w \in Nat \ {0} : Limit = 2 * w
    BY LimitEven
  <2>2. TranscriptOf(<<>>, 0, Limit) = <<>>
    BY <2>1 DEF TranscriptOf, PairsOf
  <2>3. /\ log[k] = <<>> /\ version[k] = 0 /\ messages[k] = <<>>
        /\ \A i \in IdemKeys : hashes[k][i] = NoTurn
    BY DEF Init
  <2>4. Len(log[k]) = 0 /\ DOMAIN log[k] = {}
    BY <2>3
  <2>5. RowsInv(k)
    BY <2>2, <2>3, <2>4 DEF RowsInv
  <2> QED BY <2>3, <2>4, <2>5 DEF HashLogged, LogHashed, OnceInv
<1> QED BY <1>2, <1>3, <1>4, <1>5, <1>6, <1>7, TypeParts DEF IInv, CInv

\* and each statement keeps it.
LEMMA NextInv == IInv /\ [Next]_vars => IInv'
<1> SUFFICES ASSUME IInv, [Next]_vars PROVE IInv'
  OBVIOUS
<1> USE DEF IInv
<1>1. CInv' /\ Exclusive'
  BY CStep, ExclusiveStep
<1>2. ASSUME NEW c \in Clients PROVE ViewInv(c)' /\ LoadInv(c)'
  BY ViewStep, LoadStep
<1>3. ASSUME NEW k \in Keys PROVE RowsInv(k)' /\ HashLogged(k)' /\ LogHashed(k)' /\ OnceInv(k)'
  BY RowsStep, RecordedStep
<1> QED BY <1>1, <1>2, <1>3

\* The inductive invariant holds of every execution.
LEMMA Invariance == Spec => []IInv
BY InitInv, NextInv, PTL DEF Spec

\* The variables keep their types, and a transaction that is over has no locks.
THEOREM TypeCorrect == Spec => []TypeOK
<1>1. IInv => TypeOK
  BY DEF IInv, CInv
<1> QED BY <1>1, Invariance, PTL

\* No update is lost between SELECT FOR UPDATE and COMMIT, and the trim leaves the last
\* Limit/2 turns whole, for every limit (sql_store.go:165-197, 200-222).
THEOREM RowsCorrect == Spec => []RowsShowLog
<1>1. IInv => RowsShowLog
  BY DEF IInv, RowsInv, RowsShowLog
<1> QED BY <1>1, Invariance, PTL

\* No retry key is committed twice, also when its caller was told of an error and tries again
\* (sql_store.go:130-164).
THEOREM OnceCorrect == Spec => []CommittedOnce
<1>1. IInv => CommittedOnce
  BY DEF IInv, OnceInv, CommittedOnce
<1> QED BY <1>1, Invariance, PTL

\* A load shows committed turns, all those that were committed when it started, and a version
\* that is not ahead of its messages (sql_store.go:43-77).
THEOREM LoadCorrect == Spec => []LoadShowsCommitted
<1>1. IInv => LoadShowsCommitted
  BY DEF IInv, LoadInv, LoadShowsCommitted
<1> QED BY <1>1, Invariance, PTL
-----------------------------------------------------------------------------
\* The abstract log speaks of the same calls, turns and results.
LEMMA SameWords ==
    /\ Log!Calls = Calls /\ Log!NoCall = NoCall
    /\ \A s : Log!Reply(s) = Reply(s)
    /\ \A l, i : Log!CommittedUnder(l, i) = CommittedUnder(l, i)
    /\ \A o : Log!RecordOf(o) = RecordOf(o)
<1>1. Log!Calls = Calls /\ Log!NoCall = NoCall
  BY DEF Calls, Log!Calls, LoadCalls, Log!LoadCalls, VersionCalls, Log!VersionCalls,
     IdemCalls, Log!IdemCalls, NoCall, Log!NoCall
<1>2. \A s : Log!Reply(s) = Reply(s)
  BY DEF Reply, Log!Reply
<1>3. \A l, i : Log!CommittedUnder(l, i) = CommittedUnder(l, i)
  BY DEF CommittedUnder, Log!CommittedUnder
<1>4. \A o : Log!RecordOf(o) = RecordOf(o)
  BY DEF RecordOf, Log!RecordOf
<1> QED BY <1>1, <1>2, <1>3, <1>4

\* What the log sees of one caller.
SeenPhase(c) == IF Loading(c) THEN "idle" ELSE PhaseAt(pc[c])
SeenCall(c) == IF Loading(c) THEN NoCall ELSE call[c]
SeenResult(c) == IF Loading(c) THEN Reply("none") ELSE result[c]
Seen(c) == <<SeenPhase(c), SeenCall(c), SeenResult(c)>>

\* A step of one caller is a step of that caller in the log.
LEMMA SeenStep ==
    ASSUME CInv, [Next]_vars, NEW c \in Clients,
           \A d \in Clients : d # c => UNCHANGED Local(d)
    PROVE  /\ logPhase' = [logPhase EXCEPT ![c] = SeenPhase(c)']
           /\ logCall' = [logCall EXCEPT ![c] = SeenCall(c)']
           /\ logResult' = [logResult EXCEPT ![c] = SeenResult(c)']
           /\ logPhase[c] = SeenPhase(c) /\ logCall[c] = SeenCall(c) /\ logResult[c] = SeenResult(c)
           /\ UNCHANGED Seen(c) => UNCHANGED <<logPhase, logCall, logResult>>
<1>1. ASSUME NEW d \in Clients, d # c PROVE UNCHANGED Seen(d)
  BY <1>1 DEF Seen, SeenPhase, SeenCall, SeenResult, Local, Loading
<1>2. /\ logPhase = [d \in Clients |-> SeenPhase(d)] /\ logPhase' = [d \in Clients |-> SeenPhase(d)']
      /\ logCall = [d \in Clients |-> SeenCall(d)] /\ logCall' = [d \in Clients |-> SeenCall(d)']
      /\ logResult = [d \in Clients |-> SeenResult(d)] /\ logResult' = [d \in Clients |-> SeenResult(d)']
  BY DEF logPhase, logCall, logResult, SeenPhase, SeenCall, SeenResult
<1> QED BY <1>1, <1>2 DEF Seen

\* A step of one caller that the log does not see.
LEMMA Unseen ==
    ASSUME CInv, [Next]_vars, NEW c \in Clients, Own(c), UNCHANGED <<call[c], log>>,
           Loading(c) \/ (PhaseAt(pc[c]) = PhaseAt(pc[c])' /\ UNCHANGED result[c])
    PROVE  UNCHANGED Log!logVars
<1>1. UNCHANGED Seen(c)
  BY DEF Seen, SeenPhase, SeenCall, SeenResult, Loading
<1> QED BY <1>1, OneSteps, SeenStep DEF Log!logVars

\* An append of the log takes effect when its caller gets the answer.
LEMMA SeenEffect ==
    ASSUME CInv, [Next]_vars, NEW c \in Clients, Own(c), ~Loading(c), UNCHANGED call[c],
           pc[c] \notin {"idle", "return"}, pc'[c] = "return", NEW s,
           result'[c] = Reply(s)
    PROVE  Log!TakeEffect(c, Log!Reply(s)) /\ logCall[c] = call[c]
<1>1. SeenPhase(c) = "pending" /\ SeenPhase(c)' = "done"
  BY DEF SeenPhase, PhaseAt, Loading
<1>2. SeenCall(c) = call[c] /\ SeenCall(c)' = SeenCall(c) /\ SeenResult(c)' = Reply(s)
  BY DEF SeenCall, SeenResult, Loading
<1>3. logCall' = logCall
  <2>1. logCall' = [logCall EXCEPT ![c] = SeenCall(c)'] /\ logCall[c] = SeenCall(c)
    BY OneSteps, SeenStep
  <2>2. DOMAIN logCall = Clients /\ logCall = [d \in Clients |-> logCall[d]]
    BY DEF logCall
  <2> QED BY <1>2, <2>1, <2>2
<1> QED BY <1>1, <1>2, <1>3, OneSteps, SeenStep, SameWords DEF Log!TakeEffect

\* Each statement of the store is a step of the log, or none.
LEMMA StepRefines == IInv /\ [Next]_vars => [Log!LogNext]_(Log!logVars)
<1> SUFFICES ASSUME IInv, [Next]_vars PROVE Log!LogNext \/ UNCHANGED Log!logVars
  BY DEF Log!logVars
<1>1. /\ CInv /\ CallersTypeOK /\ TypeOK
      /\ \A c \in Clients : CallInv(c) /\ MarkInv(c) /\ ViewInv(c) /\ LoadInv(c)
      /\ \A k \in Keys : RowsInv(k) /\ HashLogged(k) /\ LogHashed(k)
  BY TypeParts DEF IInv, CInv
<1>2. CASE UNCHANGED vars
  BY <1>2 DEF vars, tables, callVars, Log!logVars, logPhase, logCall, logResult, Loading
<1>3. ASSUME NEW c \in Clients, Own(c)
      PROVE  (\E d \in Clients : \/ Log!Invoke(d) \/ Log!AppendCommits(d) \/ Log!AppendSkipped(d)
                                 \/ Log!AppendConflicts(d) \/ Log!Fails(d)
                                 \/ Log!CommitUnacknowledged(d) \/ Log!Return(d))
             \/ UNCHANGED Log!logVars
  <2>1. CASE Invoke(c)
    <3>1. PICK o \in Calls : /\ call' = [call EXCEPT ![c] = o]
                             /\ pc' = [pc EXCEPT ![c] = IF o.kind = "load" THEN "version"
                                                       ELSE "conversation"]
      BY <2>1 DEF Invoke, Goto
    <3>2. /\ call[c] = NoCall /\ pc[c] = "idle" /\ result[c] = Reply("none") /\ log' = log
          /\ call'[c] = o /\ result' = result
          /\ pc'[c] = IF o.kind = "load" THEN "version" ELSE "conversation"
      BY <1>1, <2>1, <3>1 DEF Invoke, CallInv, tables, CallersTypeOK
    <3>3. SeenPhase(c) = "idle" /\ SeenCall(c) = NoCall /\ SeenResult(c) = Reply("none")
      BY <3>2 DEF SeenPhase, SeenCall, SeenResult, Loading, NoCall, PhaseAt
    <3>4. CASE o.kind = "load"
      <4>1. UNCHANGED Seen(c)
        BY <3>2, <3>3, <3>4 DEF Seen, SeenPhase, SeenCall, SeenResult, Loading
      <4> QED BY <1>1, <1>3, <3>2, <4>1, OneSteps, SeenStep DEF Log!logVars
    <3>5. CASE o.kind # "load"
      <4>1. SeenPhase(c)' = "pending" /\ SeenCall(c)' = o /\ SeenResult(c)' = SeenResult(c)
        BY <3>2, <3>3, <3>5 DEF SeenPhase, SeenCall, SeenResult, Loading, PhaseAt
      <4>2. /\ logPhase[c] = "idle" /\ logPhase' = [logPhase EXCEPT ![c] = "pending"]
            /\ logCall' = [logCall EXCEPT ![c] = o]
            /\ logResult' = [logResult EXCEPT ![c] = SeenResult(c)] /\ logResult[c] = SeenResult(c)
        BY <1>1, <1>3, <3>3, <4>1, OneSteps, SeenStep
      <4>3. logResult' = logResult
        <5>1. logResult = [d \in Clients |-> logResult[d]]
          BY DEF logResult
        <5> QED BY <4>2, <5>1
      <4>4. o \in Log!Calls
        BY SameWords
      <4> QED BY <3>2, <4>2, <4>3, <4>4 DEF Log!Invoke
    <3> QED BY <3>4, <3>5
  <2>2. CASE Return(c)
    <3>1. /\ pc[c] = "return" /\ pc'[c] = "idle" /\ call'[c] = NoCall /\ result'[c] = Reply("none")
          /\ log' = log
      BY <1>1, <2>2 DEF Return, Goto, tables, CallersTypeOK
    <3>2. SeenPhase(c)' = "idle" /\ SeenCall(c)' = NoCall /\ SeenResult(c)' = Reply("none")
      BY <3>1 DEF SeenPhase, SeenCall, SeenResult, Loading, NoCall, PhaseAt
    <3>3. CASE Loading(c)
      <4>1. UNCHANGED Seen(c)
        BY <3>2, <3>3 DEF Seen, SeenPhase, SeenCall, SeenResult
      <4> QED BY <1>1, <1>3, <3>1, <4>1, OneSteps, SeenStep DEF Log!logVars
    <3>4. CASE ~Loading(c)
      <4>1. SeenPhase(c) = "done"
        BY <3>1, <3>4 DEF SeenPhase, PhaseAt
      <4>2. Log!Return(c)
        BY <1>1, <1>3, <3>1, <3>2, <4>1, OneSteps, SeenStep, SameWords DEF Log!Return
      <4> QED BY <4>2
    <3> QED BY <3>3, <3>4
  <2>3. ASSUME NEW s, Rollback(c, s), pc[c] \notin {"idle", "return"}, ~Loading(c)
        PROVE  Log!TakeEffect(c, Log!Reply(s)) /\ logCall[c] = call[c] /\ log' = log
    <3>1. /\ pc'[c] = "return" /\ call' = call /\ result'[c] = Reply(s) /\ log' = log
      BY <1>1, <2>3 DEF Rollback, Answer, Goto, callVars, tables, CallersTypeOK
    <3> QED BY <1>1, <1>3, <2>3, <3>1, SeenEffect
  <2>4. CASE Fail(c) \/ DeadlockAbort(c)
    <3>1. Rollback(c, "error") /\ pc[c] \notin {"idle", "return"}
      BY <2>4, WaitsSomewhere DEF Fail, DeadlockAbort
    <3>2. CASE Loading(c)
      BY <1>1, <1>3, <3>1, <3>2, Unseen DEF Rollback, callVars, tables
    <3>3. CASE ~Loading(c)
      <4>1. Log!Fails(c)
        BY <2>3, <3>1, <3>3 DEF Log!Fails, Log!TakeEffect
      <4> QED BY <4>1
    <3> QED BY <3>2, <3>3
  <2>5. CASE LoadVersion(c) \/ LoadMessages(c)
    <3>1. Loading(c) /\ UNCHANGED <<call[c], log>>
      BY <1>1, <2>5 DEF LoadVersion, LoadMessages, CallInv, Loading, callVars, tables
    <3> QED BY <1>1, <1>3, <3>1, Unseen
  <2>6. CASE \/ InsertConversation(c) \/ InsertHash(c) \/ CheckReference(c)
             \/ SelectForUpdate(c) \/ Write(c) \/ (SelectPrevious(c) /\ ~Rollback(c, "conflict"))
    <3>1. /\ UNCHANGED <<call, log, result>>
          /\ pc[c] \in Started \cup {"conversation"} /\ \E l \in Started : Goto(c, l)
      BY <2>6 DEF InsertConversation, InsertHash, CheckReference, SelectForUpdate, Write,
         SelectPrevious, Goto, callVars, tables, Started
    <3>2. pc'[c] \in Started
      BY <1>1, <3>1 DEF CallersTypeOK, Goto
    <3>3. PhaseAt(pc[c]) = PhaseAt(pc[c])'
      BY <3>1, <3>2 DEF PhaseAt, Started
    <3> QED BY <1>1, <1>3, <3>1, <3>3, Unseen
  <2>7. CASE SelectPrevious(c) /\ Rollback(c, "conflict")
    <3>1. /\ ~Loading(c) /\ call[c].kind = "appendIdem" /\ pc[c] = "previous"
          /\ Key(c) \in Keys /\ call[c].idem \in IdemKeys
      BY <1>1, <2>7, CallTyped DEF SelectPrevious, CallInv, Loading
    <3>2. Log!TakeEffect(c, Log!Reply("conflict")) /\ logCall[c] = call[c] /\ log' = log
      BY <2>3, <2>7, <3>1
    <3>3. hashes[Key(c)][call[c].idem] # call[c].turn /\ hashes[Key(c)][call[c].idem] # NoTurn
      <4>1. pc'[c] = "return"
        BY <1>1, <2>7 DEF Rollback, Answer, Goto, CallersTypeOK
      <4> QED BY <1>1, <2>7, <3>1, <4>1 DEF SelectPrevious, ViewInv, Goto, CallersTypeOK
    <3>4. PICK n \in DOMAIN log[Key(c)] :
             log[Key(c)][n] = [turn |-> hashes[Key(c)][call[c].idem], idem |-> call[c].idem]
      BY <1>1, <3>1, <3>3 DEF HashLogged
    <3>5. n \in CommittedUnder(log[Key(c)], call[c].idem) /\ log[Key(c)][n].turn # call[c].turn
      BY <3>3, <3>4 DEF CommittedUnder
    <3>6. Log!AppendConflicts(c)
      BY <3>1, <3>2, <3>5, SameWords DEF Log!AppendConflicts, Key
    <3> QED BY <3>6
  <2>8. CASE Commit(c)
    <3>1. /\ ~Loading(c) /\ pc[c] = "commit" /\ Key(c) \in Keys /\ call[c].kind \in OpKinds
          /\ call[c].kind = "appendIdem" <=> call[c].idem \in IdemKeys
          /\ call' = call /\ pc'[c] = "return"
      BY <1>1, <2>8, CallTyped DEF Commit, CallInv, Loading, Started, callVars, Answer, Goto,
         CallersTypeOK
    <3>2. ASSUME NEW s, Answer(c, Reply(s))
          PROVE  Log!TakeEffect(c, Log!Reply(s)) /\ logCall[c] = call[c]
      <4>1. result'[c] = Reply(s)
        BY <1>1, <3>2 DEF Answer, CallersTypeOK
      <4> QED BY <1>1, <1>3, <3>1, <4>1, SeenEffect
    <3>3. ASSUME Answer(c, Reply("error")), log' = log PROVE Log!Fails(c)
      BY <3>2, <3>3 DEF Log!Fails, Log!TakeEffect
    <3>4. version[Key(c)] = Len(log[Key(c)])
      BY <1>1, <3>1 DEF RowsInv
    <3>5. CASE Persist(c) /\ "write" \in tx[c]
      <4>1. log' = [log EXCEPT ![Key(c)] = Append(@, RecordOf(call[c]))]
        BY <3>5 DEF Persist
      <4>2. call[c].kind = "appendIf" => call[c].expected = Len(log[Key(c)])
        BY <1>1, <3>1, <3>4, <3>5 DEF ViewInv, MarkInv
      <4>3. call[c].kind = "appendIdem" => CommittedUnder(log[Key(c)], call[c].idem) = {}
        <5> SUFFICES ASSUME call[c].kind = "appendIdem", NEW n \in DOMAIN log[Key(c)],
                            log[Key(c)][n].idem = call[c].idem
                     PROVE  FALSE
          BY DEF CommittedUnder
        <5>1. hashes[Key(c)][call[c].idem] = NoTurn
          BY <1>1, <3>1, <3>5 DEF MarkInv, ViewInv
        <5> QED BY <1>1, <3>1, <5>1, ConversationAssumption DEF LogHashed
      <4>4. logCall[c] = call[c] => Log!MayCommit(c) /\ Log!Commit(c)
        <5> SUFFICES ASSUME logCall[c] = call[c] PROVE Log!MayCommit(c) /\ Log!Commit(c)
          OBVIOUS
        <5>1. Log!MayCommit(c)
          BY <3>1, <4>2, <4>3, SameWords DEF Log!MayCommit, OpKinds, Key, Loading
        <5>2. Log!Commit(c)
          BY <4>1, SameWords DEF Log!Commit, Key
        <5> QED BY <5>1, <5>2
      <4>5. CASE Answer(c, Reply("committed"))
        <5>1. Log!AppendCommits(c)
          BY <3>2, <4>4, <4>5 DEF Log!AppendCommits
        <5> QED BY <5>1
      <4>6. CASE Answer(c, Reply("error"))
        <5>1. Log!CommitUnacknowledged(c)
          BY <3>2, <4>4, <4>6 DEF Log!CommitUnacknowledged
        <5> QED BY <5>1
      <4> QED BY <2>8, <3>3, <3>5, <4>5, <4>6 DEF Commit, tables
    <3>6. CASE Persist(c) /\ "write" \notin tx[c]
      <4>1. log' = log
        BY <3>6 DEF Persist
      <4>2. call[c].kind \in {"appendIf", "appendIdem"}
        BY <1>1, <3>1, <3>6 DEF MarkInv, Loading, OpKinds
      <4>3. call[c].kind = "appendIf" => call[c].expected # Len(log[Key(c)])
        BY <1>1, <3>1, <3>4, <3>6 DEF ViewInv, MarkInv
      <4>4. call[c].kind = "appendIdem" =>
               \E n \in CommittedUnder(log[Key(c)], call[c].idem) :
                  log[Key(c)][n].turn = call[c].turn
        <5> SUFFICES ASSUME call[c].kind = "appendIdem"
                     PROVE  \E n \in CommittedUnder(log[Key(c)], call[c].idem) :
                               log[Key(c)][n].turn = call[c].turn
          OBVIOUS
        <5>1. hashes[Key(c)][call[c].idem] = call[c].turn /\ call[c].turn \in Turns
          BY <1>1, <3>1, <3>6, CallTyped DEF ViewInv
        <5>2. PICK n \in DOMAIN log[Key(c)] :
                 log[Key(c)][n] = [turn |-> call[c].turn, idem |-> call[c].idem]
          BY <1>1, <3>1, <5>1, SQLStoreAssumption DEF HashLogged
        <5> QED BY <5>2 DEF CommittedUnder
      <4>5. CASE Answer(c, Reply("skipped"))
        <5>1. Log!AppendSkipped(c)
          BY <3>2, <4>1, <4>2, <4>3, <4>4, <4>5, SameWords DEF Log!AppendSkipped, Key
        <5> QED BY <5>1
      <4> QED BY <2>8, <3>3, <3>6, <4>1, <4>5 DEF Commit
    <3> QED BY <2>8, <3>3, <3>5, <3>6 DEF Commit, tables
  <2> QED BY <1>3, <2>1, <2>2, <2>4, <2>5, <2>6, <2>7, <2>8 DEF Own, Step
<1> QED BY <1>2, <1>3 DEF Next, Own, Done, Log!LogNext

\* The appends are linearizable: the store implements the abstract conversation log, whose
\* operations answer an error without effect or after it (sql_store.go:100-198).
THEOREM Refinement == Spec => AppendsLinearizable
<1>1. Init => Log!LogInit
  BY SameWords DEF Init, Log!LogInit, logPhase, logCall, logResult, PhaseAt, Loading, NoCall
<1>2. IInv /\ [Next]_vars => [Log!LogNext]_(Log!logVars)
  BY StepRefines
<1> QED BY <1>1, <1>2, Invariance, PTL DEF Spec, AppendsLinearizable, Log!LogSpec
===============================================================================
