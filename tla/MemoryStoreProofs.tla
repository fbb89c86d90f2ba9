-------------------------- MODULE MemoryStoreProofs --------------------------
(***************************************************************************)
(* The in-memory store shows the committed log and commits a retry key     *)
(* once, for any callers, conversations, retry keys and message limit.     *)
(***************************************************************************)
EXTENDS MemoryStore, SequenceTheorems, TLAPS

\* The fields of a call.
LEMMA CallFields ==
    ASSUME NEW o \in Calls
    PROVE  /\ o.kind \in OpKinds /\ o.key \in Keys /\ o.turn \in Turns
           /\ o.idem \in IdemKeys \cup {NoIdem}
           /\ o.kind = "appendIdem" <=> o.idem \in IdemKeys
           /\ RecordOf(o) \in Record
           /\ o # NoCall
<1>1. /\ o.kind \in Kinds /\ o.key \in Keys /\ o.turn \in Turns
      /\ o.idem \in IdemKeys \cup {NoIdem}
      /\ IdemCalls(o)
  BY DEF Calls
<1>2. o.kind \in OpKinds
  BY <1>1, ConversationAssumption
<1>3. o # NoCall
  BY <1>2 DEF NoCall, OpKinds
<1> QED BY <1>1, <1>2, <1>3, ConversationAssumption DEF IdemCalls, RecordOf, Record

\* The empty reply and the others are results.
LEMMA ReplyType == \A s \in Statuses : Reply(s) \in Results
BY DEF Reply, Results

\* The limit a constructor computes is a positive even number
\* (store.go:70-78, sql_store.go:25-36).
LEMMA EvenLimitType ==
    ASSUME NEW max \in Int, NEW default \in Nat, default >= 2
    PROVE  \E w \in Nat \ {0} : EvenLimit(max, default) = 2 * w
<1> DEFINE e == EvenLimit(max, default)
<1>1. e \in Nat /\ e >= 2 /\ e % 2 = 0
  BY DEF EvenLimit
<1> HIDE DEF e
<1>2. e = 2 * (e \div 2) /\ e \div 2 \in Nat \ {0}
  BY <1>1
<1> QED BY <1>2 DEF e

\* The messages of a stretch of the log are a sequence of messages, two for
\* each turn.
LEMMA PairsOfType ==
    ASSUME NEW l \in Seq(Record), NEW to \in 0 .. Len(l), NEW from \in 0 .. to
    PROVE  /\ PairsOf(l, from, to) \in Seq(Message)
           /\ Len(PairsOf(l, from, to)) = 2 * (to - from)
           /\ \A j \in 1 .. 2 * (to - from) :
                 PairsOf(l, from, to)[j] = MessageAt(l, from, j)
<1>1. \A j \in 1 .. 2 * (to - from) : MessageAt(l, from, j) \in Message
  <2> TAKE j \in 1 .. 2 * (to - from)
  <2>1. from + (j + 1) \div 2 \in 1 .. Len(l)
    OBVIOUS
  <2>2. l[from + (j + 1) \div 2] \in Record
    BY <2>1
  <2> QED BY <2>2 DEF MessageAt, Message, Record
<1>2. 2 * (to - from) \in Nat
  OBVIOUS
<1> QED BY <1>1, <1>2 DEF PairsOf

\* Appending the two messages of a turn extends the stretch by that turn.
LEMMA PairsOfPush ==
    ASSUME NEW l \in Seq(Record), NEW from \in 0 .. Len(l), NEW r \in Record
    PROVE  PairsOf(l, from, Len(l)) \o Pair(r.turn)
              = PairsOf(Append(l, r), from, Len(l) + 1)
<1> DEFINE n == Len(l)
           d == n - from
           T == PairsOf(l, from, n)
           m == Append(l, r)
           U == PairsOf(m, from, n + 1)
           P == Pair(r.turn)
<1>1. n \in Nat /\ d \in Nat /\ from \in Nat /\ n = from + d
  OBVIOUS
<1>2. /\ m \in Seq(Record) /\ Len(m) = n + 1 /\ m[n + 1] = r
      /\ \A i \in 1 .. n : m[i] = l[i]
  OBVIOUS
<1>3. /\ P \in Seq(Message) /\ Len(P) = 2
      /\ P[1] = [role |-> "user", turn |-> r.turn]
      /\ P[2] = [role |-> "assistant", turn |-> r.turn]
  BY DEF Pair, Message, Record
<1>4. /\ T \in Seq(Message) /\ Len(T) = 2 * d
      /\ \A j \in 1 .. 2 * d : T[j] = MessageAt(l, from, j)
  <2>1. n \in 0 .. Len(l) /\ from \in 0 .. n
    OBVIOUS
  <2> HIDE DEF n
  <2> QED BY <2>1, PairsOfType
<1>5. n + 1 \in 0 .. Len(m) /\ from \in 0 .. n + 1
  BY <1>1, <1>2
<1> HIDE DEF n, m, P, T, U, d
<1>6. /\ U \in Seq(Message) /\ Len(U) = 2 * (n + 1 - from)
      /\ \A j \in 1 .. 2 * (n + 1 - from) : U[j] = MessageAt(m, from, j)
  <2>1. \A to \in 0 .. Len(m) : \A f \in 0 .. to :
           /\ PairsOf(m, f, to) \in Seq(Message)
           /\ Len(PairsOf(m, f, to)) = 2 * (to - f)
           /\ \A j \in 1 .. 2 * (to - f) : PairsOf(m, f, to)[j] = MessageAt(m, f, j)
    BY <1>2, PairsOfType, Zenon
  <2> QED BY <1>1, <1>5, <2>1 DEF U
<1>7. 2 * (n + 1 - from) = 2 * d + 2
  BY <1>1
<1>8. /\ T \o P \in Seq(Message) /\ Len(T \o P) = 2 * d + 2
      /\ \A j \in 1 .. 2 * d + 2 :
            (T \o P)[j] = IF j <= 2 * d THEN T[j] ELSE P[j - 2 * d]
  <2>1. /\ T \o P \in Seq(Message) /\ Len(T \o P) = Len(T) + Len(P)
        /\ \A j \in 1 .. Len(T) + Len(P) :
              (T \o P)[j] = IF j <= Len(T) THEN T[j] ELSE P[j - Len(T)]
    BY <1>3, <1>4, ConcatProperties, Zenon
  <2> QED BY <1>3, <1>4, <2>1
<1> DEFINE A == T \o P
<1>9. /\ A \in Seq(Message) /\ Len(A) = 2 * d + 2
      /\ \A j \in 1 .. 2 * d + 2 : A[j] = IF j <= 2 * d THEN T[j] ELSE P[j - 2 * d]
  BY <1>8
<1> HIDE DEF A
<1>10. ASSUME NEW j \in 1 .. 2 * d + 2
      PROVE  A[j] = U[j]
  <2>1. CASE j \in 1 .. 2 * d
    <3>1. from + (j + 1) \div 2 \in 1 .. n
      BY <1>1, <2>1
    <3>2. A[j] = MessageAt(l, from, j)
      BY <1>1, <1>3, <1>4, <1>9, <2>1
    <3>3. m[from + (j + 1) \div 2] = l[from + (j + 1) \div 2]
      BY <1>2, <3>1
    <3> QED BY <1>6, <1>7, <3>2, <3>3 DEF MessageAt
  <2>2. CASE j = 2 * d + 1
    <3>1. j % 2 = 1 /\ from + (j + 1) \div 2 = n + 1
      BY <1>1, <2>2
    <3>2. A[j] = [role |-> "user", turn |-> r.turn]
      BY <1>1, <1>3, <1>4, <1>9, <2>2
    <3> QED BY <1>2, <1>6, <1>7, <3>1, <3>2 DEF MessageAt
  <2>3. CASE j = 2 * d + 2
    <3>1. j % 2 # 1 /\ from + (j + 1) \div 2 = n + 1
      BY <1>1, <2>3
    <3>2. A[j] = [role |-> "assistant", turn |-> r.turn]
      BY <1>1, <1>3, <1>4, <1>9, <2>3
    <3> QED BY <1>2, <1>6, <1>7, <3>1, <3>2 DEF MessageAt
  <2> QED BY <1>1, <2>1, <2>2, <2>3
<1>11. A = U
  <2>1. A \in Seq(Message) /\ U \in Seq(Message) /\ Len(A) = Len(U)
    BY <1>6, <1>7, <1>9
  <2>2. \A j \in 1 .. Len(A) : A[j] = U[j]
    BY <1>9, <1>10
  <2> QED BY <2>1, <2>2
<1> QED BY <1>11 DEF A, T, P, U, m, n

\* Dropping the two oldest messages drops the oldest turn.
LEMMA PairsOfDrop ==
    ASSUME NEW l \in Seq(Record), NEW to \in 1 .. Len(l), NEW from \in 0 .. to - 1
    PROVE  SubSeq(PairsOf(l, from, to), 3, 2 * (to - from)) = PairsOf(l, from + 1, to)
<1> DEFINE d == to - from
           T == PairsOf(l, from, to)
           U == PairsOf(l, from + 1, to)
           S == SubSeq(T, 3, 2 * d)
<1>1. to \in Nat /\ from \in Nat /\ d \in Nat /\ d >= 1
      /\ to - (from + 1) = d - 1
  OBVIOUS
<1>2. /\ T \in Seq(Message) /\ Len(T) = 2 * d
      /\ \A j \in 1 .. 2 * d : T[j] = MessageAt(l, from, j)
  BY PairsOfType
<1>3. /\ U \in Seq(Message) /\ Len(U) = 2 * (d - 1)
      /\ \A j \in 1 .. 2 * (d - 1) : U[j] = MessageAt(l, from + 1, j)
  <2>1. to \in 0 .. Len(l) /\ from + 1 \in 0 .. to
    OBVIOUS
  <2> QED BY <1>1, <2>1, PairsOfType
<1> HIDE DEF d, T, U
<1>4. /\ S \in Seq(Message) /\ Len(S) = 2 * (d - 1)
      /\ \A j \in 1 .. 2 * (d - 1) : S[j] = T[j + 2]
  BY <1>1, <1>2
<1>5. ASSUME NEW j \in 1 .. 2 * (d - 1)
      PROVE  S[j] = U[j]
  <2>1. j + 2 \in 1 .. 2 * d
    BY <1>1
  <2>2. (j + 2) % 2 = j % 2 /\ from + ((j + 2) + 1) \div 2 = from + 1 + (j + 1) \div 2
    BY <1>1
  <2>3. MessageAt(l, from, j + 2) = MessageAt(l, from + 1, j)
    BY <2>2 DEF MessageAt
  <2> QED BY <1>2, <1>3, <1>4, <2>1, <2>3
<1> HIDE DEF S
<1>6. S = U
  <2>1. S \in Seq(Message) /\ U \in Seq(Message) /\ Len(S) = Len(U)
    BY <1>3, <1>4
  <2>2. \A j \in 1 .. Len(S) : S[j] = U[j]
    BY <1>4, <1>5
  <2> QED BY <2>1, <2>2
<1> QED BY <1>6 DEF S, U, T, d

\* Appending a turn's two messages and trimming is the transcript of the log
\* with that turn: no pair is torn and the oldest ones go first
\* (store.go:169-176, sql_store.go:182-222).
LEMMA TrimShowsLog ==
    ASSUME NEW l \in Seq(Record), NEW r \in Record, NEW w \in Nat \ {0}
    PROVE  Trim(TranscriptOf(l, Len(l), 2 * w) \o Pair(r.turn), 2 * w)
              = TranscriptOf(Append(l, r), Len(l) + 1, 2 * w)
<1> DEFINE n == Len(l)
           m == Append(l, r)
           from == IF n > w THEN n - w ELSE 0
           to == IF n + 1 > w THEN n + 1 - w ELSE 0
           A == PairsOf(m, from, n + 1)
<1>1. n \in Nat /\ from \in 0 .. n /\ (2 * w) \div 2 = w
  OBVIOUS
<1>2. m \in Seq(Record) /\ Len(m) = n + 1
  OBVIOUS
<1>3. TranscriptOf(l, n, 2 * w) \o Pair(r.turn) = A
  BY <1>1, PairsOfPush DEF TranscriptOf
<1>4. TranscriptOf(m, n + 1, 2 * w) = PairsOf(m, to, n + 1)
  BY <1>1 DEF TranscriptOf
<1> HIDE DEF m, n
<1>5. n + 1 \in 0 .. Len(m) /\ from \in 0 .. n + 1
  BY <1>1, <1>2
<1> HIDE DEF from, to, A
<1>6. Len(A) = 2 * (n + 1 - from)
  <2>1. \A t \in 0 .. Len(m) : \A f \in 0 .. t : Len(PairsOf(m, f, t)) = 2 * (t - f)
    BY <1>2, PairsOfType, Zenon
  <2> QED BY <1>1, <1>5, <2>1 DEF A
<1>7. CASE n < w
  <2>1. from = 0 /\ to = 0 /\ 2 * (n + 1 - from) <= 2 * w
    BY <1>1, <1>7 DEF from, to
  <2>2. Trim(A, 2 * w) = A
    BY <1>1, <1>6, <2>1 DEF Trim, Excess
  <2> QED BY <1>3, <1>4, <2>1, <2>2 DEF A, m, n
<1>8. CASE n >= w
  <2>1. from = n - w /\ to = from + 1 /\ 2 * (n + 1 - from) = 2 * w + 2
    BY <1>1, <1>8 DEF from, to
  <2>2. Trim(A, 2 * w) = SubSeq(A, 3, 2 * (n + 1 - from))
    BY <1>1, <1>6, <2>1 DEF Trim, Excess
  <2>3. n + 1 \in 1 .. Len(m) /\ from \in 0 .. (n + 1) - 1
    BY <1>1, <1>2, <2>1, <1>8
  <2>4. Trim(A, 2 * w) = PairsOf(m, to, n + 1)
    <3>1. \A t \in 1 .. Len(m) : \A f \in 0 .. t - 1 :
             SubSeq(PairsOf(m, f, t), 3, 2 * (t - f)) = PairsOf(m, f + 1, t)
      BY <1>2, PairsOfDrop, Zenon
    <3>2. SubSeq(A, 3, 2 * (n + 1 - from)) = PairsOf(m, from + 1, n + 1)
      BY <1>1, <2>1, <2>3, <3>1 DEF A
    <3> QED BY <2>1, <2>2, <3>2, Zenon
  <2> QED BY <1>3, <1>4, <2>4 DEF m, n
<1> QED BY <1>1, <1>7, <1>8
-----------------------------------------------------------------------------
\* NewMemoryStore's limit is twice a positive number of turns (store.go:70-78).
LEMMA LimitEven == \E w \in Nat \ {0} : Limit = 2 * w
<1>1. MaxMessages \in Int /\ DefaultMessages \in Nat /\ DefaultMessages >= 2
  BY ConversationAssumption DEF DefaultMessages
<1> QED BY <1>1, EvenLimitType DEF Limit
-----------------------------------------------------------------------------
\* The calls under way, and where in the code they are.
CallInv ==
    \A c \in Clients :
       /\ pc[c] = "idle" <=> call[c] = NoCall
       /\ pc[c] \in {"marker", "storeMarker", "lock", "record"} =>
             call[c].kind = "appendIdem"

\* c found the marker of its conversation, c is inside marker.mu.
HasMarker(c) ==
    /\ pc[c] \in {"lock", "entry", "storeEntry", "locked", "record"}
    /\ call[c].kind = "appendIdem"
HoldsMarker(c) == HasMarker(c) /\ pc[c] # "lock"

\* The objects the sync.Maps do not hold are untouched, and whoever looked one
\* up found the one that is published.
HeapInv ==
    \A k \in Keys, a \in Clients : entries[k] # a =>
       heap[k][a] = [messages |-> <<>>, version |-> 0]
ValuesInv ==
    \A k \in Keys, a \in Clients : idempotency[k] # a =>
       values[k][a] = [i \in IdemKeys |-> NoTurn]
EntryFound(c) ==
    pc[c] = "locked" => entry[c] \in Clients /\ entry[c] = entries[Key(c)]
MarkerFound(c) ==
    HasMarker(c) => marker[c] \in Clients /\ marker[c] = idempotency[Key(c)]

ObjectInv ==
    /\ HeapInv /\ ValuesInv
    /\ \A c \in Clients : EntryFound(c) /\ MarkerFound(c)

\* Inside marker.mu the mutex is held, and until the hash is recorded the retry
\* key has none.
MutexHeld(c) ==
    HoldsMarker(c) => /\ mu[Key(c)][marker[c]] = c
                      /\ values[Key(c)][marker[c]][call[c].idem] = NoTurn
MutexInv == \A c \in Clients : MutexHeld(c)

\* A turn of the log that carries a retry key has its hash recorded, or its
\* caller is about to record it.
Recorded(k, n) ==
    /\ idempotency[k] \in Clients
    /\ \/ values[k][idempotency[k]][log[k][n].idem] = log[k][n].turn
       \/ \E c \in Clients : /\ pc[c] = "record"
                             /\ call[c].key = k
                             /\ RecordOf(call[c]) = log[k][n]
LogRecorded ==
    \A k \in Keys : \A n \in DOMAIN log[k] : log[k][n].idem # NoIdem => Recorded(k, n)

\* A hash recorded is that of a turn in the log, and so is one to be recorded.
InLog(k, r) == \E n \in DOMAIN log[k] : log[k][n] = r
RecordedLogged ==
    \A k \in Keys, a \in Clients, i \in IdemKeys :
       values[k][a][i] # NoTurn => InLog(k, [turn |-> values[k][a][i], idem |-> i])
CallerLogged ==
    \A c \in Clients : pc[c] = "record" => InLog(Key(c), RecordOf(call[c]))

RecordedInv == LogRecorded /\ RecordedLogged /\ CallerLogged

IInv ==
    /\ TypeOK /\ CallInv /\ ObjectInv /\ MutexInv /\ RecordedInv
    /\ EntryShowsLog /\ CommittedOnce
-----------------------------------------------------------------------------
\* A caller inside the store executes a call.
LEMMA CallTyped ==
    ASSUME TypeOK, CallInv, NEW c \in Clients, pc[c] # "idle"
    PROVE  call[c] \in Calls
BY DEF TypeOK, CallInv

\* append writes a memoryEntry.
LEMMA AppendedType ==
    ASSUME NEW e \in [messages : Seq(Message), version : Nat], NEW t \in Turns
    PROVE  Appended(e, t) \in [messages : Seq(Message), version : Nat]
<1>1. Pair(t) \in Seq(Message)
  BY DEF Pair, Message
<1>2. e.messages \o Pair(t) \in Seq(Message)
  BY <1>1
<1>3. PICK w \in Nat \ {0} : Limit = 2 * w
  BY LimitEven
<1>4. \A s \in Seq(Message) : Trim(s, Limit) \in Seq(Message)
  BY <1>3 DEF Trim, Excess
<1>5. Trim(e.messages \o Pair(t), Limit) \in Seq(Message)
  BY <1>2, <1>4
<1>6. e.version + 1 \in Nat
  OBVIOUS
<1> QED BY <1>5, <1>6 DEF Appended

\* Writing one object of one conversation.
LEMMA WriteType ==
    ASSUME NEW K, NEW A, NEW S, NEW f \in [K -> [A -> S]],
           NEW k \in K, NEW a \in A, NEW v \in S
    PROVE  [f EXCEPT ![k][a] = v] \in [K -> [A -> S]]
OBVIOUS

\* Each step keeps the types.
LEMMA TypeStep == TypeOK /\ CallInv /\ ObjectInv /\ [Next]_vars => TypeOK'
<1> SUFFICES ASSUME TypeOK, CallInv, ObjectInv, [Next]_vars PROVE TypeOK'
  OBVIOUS
<1> USE DEF Goto, Answer, Key, Labels, mapVars, dataVars, callVars
<1>1. CASE UNCHANGED vars
  BY <1>1 DEF TypeOK, vars
<1>2. ASSUME NEW c \in Clients, Invoke(c) PROVE TypeOK'
  BY <1>2, MemoryStoreAssumption DEF TypeOK, Invoke
<1>3. ASSUME NEW c \in Clients, Cancelled(c) PROVE TypeOK'
  <2>1. call[c] \in Calls /\ call[c].key \in Keys
    BY <1>3, CallTyped, CallFields DEF Cancelled
  <2>2. Reply("error") \in Results
    BY ReplyType DEF Statuses
  <2>3. mu' \in [Keys -> [Clients -> Clients \cup {NoObject}]]
    BY <1>3, <2>1 DEF TypeOK, Cancelled
  <2> QED BY <1>3, <2>2, <2>3 DEF TypeOK, Cancelled
<1>4. ASSUME NEW c \in Clients, LookupMarker(c) PROVE TypeOK'
  <2>1. call[c].key \in Keys
    BY <1>4, CallTyped, CallFields DEF LookupMarker
  <2> QED BY <1>4, <2>1 DEF TypeOK, LookupMarker
<1>5. ASSUME NEW c \in Clients, StoreMarker(c) PROVE TypeOK'
  <2>1. call[c].key \in Keys
    BY <1>5, CallTyped, CallFields DEF StoreMarker
  <2> QED BY <1>5, <2>1 DEF TypeOK, StoreMarker, LoadOrStore
<1>6. ASSUME NEW c \in Clients, LockMarker(c) PROVE TypeOK'
  <2>1. call[c].key \in Keys
    BY <1>6, CallTyped, CallFields DEF LockMarker
  <2>2. Reply("skipped") \in Results /\ Reply("conflict") \in Results
    BY ReplyType DEF Statuses
  <2>3. mu' \in [Keys -> [Clients -> Clients \cup {NoObject}]]
    <3>1. mu' = mu \/ mu' = [mu EXCEPT ![call[c].key][marker[c]] = c]
      BY <1>6 DEF LockMarker
    <3>2. mu \in [Keys -> [Clients -> Clients \cup {NoObject}]]
      BY DEF TypeOK
    <3> QED BY <2>1, <3>1, <3>2
  <2>4. result' \in [Clients -> Results]
    BY <1>6, <2>2 DEF TypeOK, LockMarker
  <2>5. pc' \in [Clients -> Labels]
    BY <1>6 DEF TypeOK, LockMarker
  <2> QED BY <1>6, <2>3, <2>4, <2>5 DEF TypeOK, LockMarker
<1>7. ASSUME NEW c \in Clients, LookupEntry(c) PROVE TypeOK'
  <2>1. call[c].key \in Keys
    BY <1>7, CallTyped, CallFields DEF LookupEntry
  <2> QED BY <1>7, <2>1 DEF TypeOK, LookupEntry
<1>8. ASSUME NEW c \in Clients, StoreEntry(c) PROVE TypeOK'
  <2>1. call[c].key \in Keys
    BY <1>8, CallTyped, CallFields DEF StoreEntry
  <2> QED BY <1>8, <2>1 DEF TypeOK, StoreEntry, LoadOrStore
<1>9. ASSUME NEW c \in Clients, ReadEntry(c) PROVE TypeOK'
  <2>1. call[c].key \in Keys /\ entry[c] \in Clients
    BY <1>9, CallTyped, CallFields DEF ReadEntry, ObjectInv, EntryFound
  <2>2. heap[call[c].key][entry[c]] \in [messages : Seq(Message), version : Nat]
    BY <2>1 DEF TypeOK
  <2>3. \A e \in [messages : Seq(Message), version : Nat] :
           Loaded(e.messages, e.version) \in Results
    BY DEF Loaded, Results, Statuses
  <2>4. result' \in [Clients -> Results]
    BY <1>9, <2>2, <2>3 DEF TypeOK, ReadEntry
  <2> QED BY <1>9, <2>4 DEF TypeOK, ReadEntry
<1>10. ASSUME NEW c \in Clients, WriteEntry(c) PROVE TypeOK'
  <2>1. /\ call[c].key \in Keys /\ call[c].turn \in Turns /\ RecordOf(call[c]) \in Record
        /\ entry[c] \in Clients
    BY <1>10, CallTyped, CallFields DEF WriteEntry, ObjectInv, EntryFound
  <2>2. Appended(heap[call[c].key][entry[c]], call[c].turn)
           \in [messages : Seq(Message), version : Nat]
    <3>1. heap[call[c].key][entry[c]] \in [messages : Seq(Message), version : Nat]
      BY <2>1 DEF TypeOK
    <3> QED BY <2>1, <3>1, AppendedType
  <2>3. heap' \in [Keys -> [Clients -> [messages : Seq(Message), version : Nat]]]
    <3>1. \/ heap' = heap
          \/ heap' = [heap EXCEPT ![call[c].key][entry[c]] =
                          Appended(heap[call[c].key][entry[c]], call[c].turn)]
      BY <1>10 DEF WriteEntry
    <3>2. heap \in [Keys -> [Clients -> [messages : Seq(Message), version : Nat]]]
      BY DEF TypeOK
    <3> DEFINE E == [messages : Seq(Message), version : Nat]
               v == Appended(heap[call[c].key][entry[c]], call[c].turn)
    <3>3. v \in E /\ heap \in [Keys -> [Clients -> E]]
      BY <2>2, <3>2
    <3>4. heap' = heap \/ heap' = [heap EXCEPT ![call[c].key][entry[c]] = v]
      BY <3>1
    <3> HIDE DEF E, v
    <3>5. [heap EXCEPT ![call[c].key][entry[c]] = v] \in [Keys -> [Clients -> E]]
      BY <2>1, <3>3, WriteType
    <3>6. heap' \in [Keys -> [Clients -> E]]
      BY <3>3, <3>4, <3>5
    <3> QED BY <3>6 DEF E
  <2>4. log' \in [Keys -> Seq(Record)]
    <3>1. \/ log' = log
          \/ log' = [log EXCEPT ![call[c].key] = Append(@, RecordOf(call[c]))]
      BY <1>10 DEF WriteEntry
    <3>2. log \in [Keys -> Seq(Record)]
      BY DEF TypeOK
    <3>3. Append(log[call[c].key], RecordOf(call[c])) \in Seq(Record)
      BY <2>1, <3>2
    <3> QED BY <2>1, <3>1, <3>2, <3>3
  <2>5. Reply("skipped") \in Results /\ Reply("committed") \in Results
    BY ReplyType DEF Statuses
  <2>6. result' \in [Clients -> Results]
    BY <1>10, <2>5 DEF TypeOK, WriteEntry
  <2>7. pc' \in [Clients -> Labels]
    BY <1>10 DEF TypeOK, WriteEntry
  <2> QED BY <1>10, <2>3, <2>4, <2>6, <2>7 DEF TypeOK, WriteEntry
<1>11. ASSUME NEW c \in Clients, RecordHash(c) PROVE TypeOK'
  <2>1. /\ call[c].key \in Keys /\ call[c].turn \in Turns /\ call[c].idem \in IdemKeys
        /\ marker[c] \in Clients
    BY <1>11, CallTyped, CallFields DEF RecordHash, ObjectInv, MarkerFound, CallInv, HasMarker
  <2>2. values' \in [Keys -> [Clients -> [IdemKeys -> Turns \cup {NoTurn}]]]
    BY <1>11, <2>1 DEF TypeOK, RecordHash
  <2>3. mu' \in [Keys -> [Clients -> Clients \cup {NoObject}]]
    BY <1>11, <2>1 DEF TypeOK, RecordHash
  <2> QED BY <1>11, <2>2, <2>3 DEF TypeOK, RecordHash
<1>12. ASSUME NEW c \in Clients, Return(c) PROVE TypeOK'
  <2>1. Reply("none") \in Results
    BY ReplyType DEF Statuses
  <2> QED BY <1>12, <2>1 DEF TypeOK, Return
<1>13. CASE Done
  BY <1>13 DEF Done, TypeOK, vars
<1> QED
  BY <1>1, <1>2, <1>3, <1>4, <1>5, <1>6, <1>7, <1>8, <1>9, <1>10, <1>11, <1>12,
     <1>13 DEF Next, Step
\* Each step keeps a caller's place and its call together.
LEMMA CallStep == TypeOK /\ CallInv /\ [Next]_vars => CallInv'
<1> SUFFICES ASSUME TypeOK, CallInv, [Next]_vars PROVE CallInv'
  OBVIOUS
<1> USE DEF Goto, Answer, Key, mapVars, dataVars, callVars
<1>1. CASE UNCHANGED vars
  BY <1>1 DEF vars, CallInv
<1>2. ASSUME NEW c \in Clients, Invoke(c) PROVE CallInv'
  BY <1>2, CallTyped, CallFields DEF TypeOK, Invoke, CallInv
<1>3. ASSUME NEW c \in Clients, Cancelled(c) PROVE CallInv'
  BY <1>3, CallTyped, CallFields DEF TypeOK, Cancelled, CallInv
<1>4. ASSUME NEW c \in Clients, LookupMarker(c) PROVE CallInv'
  BY <1>4, CallTyped, CallFields DEF TypeOK, LookupMarker, CallInv
<1>5. ASSUME NEW c \in Clients, StoreMarker(c) PROVE CallInv'
  BY <1>5, CallTyped, CallFields DEF TypeOK, StoreMarker, CallInv
<1>6. ASSUME NEW c \in Clients, LockMarker(c) PROVE CallInv'
  BY <1>6, CallTyped, CallFields DEF TypeOK, LockMarker, CallInv
<1>7. ASSUME NEW c \in Clients, LookupEntry(c) PROVE CallInv'
  BY <1>7, CallTyped, CallFields DEF TypeOK, LookupEntry, CallInv
<1>8. ASSUME NEW c \in Clients, StoreEntry(c) PROVE CallInv'
  BY <1>8, CallTyped, CallFields DEF TypeOK, StoreEntry, CallInv
<1>9. ASSUME NEW c \in Clients, ReadEntry(c) PROVE CallInv'
  BY <1>9, CallTyped, CallFields DEF TypeOK, ReadEntry, CallInv
<1>10. ASSUME NEW c \in Clients, WriteEntry(c) PROVE CallInv'
  BY <1>10, CallTyped, CallFields DEF TypeOK, WriteEntry, CallInv
<1>11. ASSUME NEW c \in Clients, RecordHash(c) PROVE CallInv'
  BY <1>11, CallTyped, CallFields DEF TypeOK, RecordHash, CallInv
<1>12. ASSUME NEW c \in Clients, Return(c) PROVE CallInv'
  BY <1>12, CallTyped, CallFields DEF TypeOK, Return, CallInv
<1>13. CASE Done
  BY <1>13 DEF Done, vars, CallInv
<1> QED
  BY <1>1, <1>2, <1>3, <1>4, <1>5, <1>6, <1>7, <1>8, <1>9, <1>10, <1>11, <1>12,
     <1>13 DEF Next, Step

\* Who changes the objects of a conversation.
LEMMA Frames ==
    ASSUME [Next]_vars
    PROVE  /\ \/ UNCHANGED <<entries, heap, log>>
              \/ \E c \in Clients : StoreEntry(c) \/ WriteEntry(c)
           /\ \/ UNCHANGED <<idempotency, values>>
              \/ \E c \in Clients : StoreMarker(c) \/ RecordHash(c)
BY DEF Next, Step, vars, Invoke, Cancelled, LookupMarker, StoreMarker, LockMarker,
       LookupEntry, StoreEntry, ReadEntry, WriteEntry, RecordHash, Return, Done,
       mapVars, dataVars, callVars

\* Each step leaves a memoryEntry that is not published alone.
LEMMA HeapStep == TypeOK /\ CallInv /\ ObjectInv /\ [Next]_vars => HeapInv'
<1> SUFFICES ASSUME TypeOK, CallInv, ObjectInv, [Next]_vars,
                    NEW k \in Keys, NEW a \in Clients, entries'[k] # a
             PROVE  heap'[k][a] = [messages |-> <<>>, version |-> 0]
  BY DEF HeapInv
<1>1. CASE UNCHANGED <<entries, heap, log>>
  BY <1>1 DEF ObjectInv, HeapInv
<1>2. ASSUME NEW c \in Clients, StoreEntry(c)
      PROVE  heap'[k][a] = [messages |-> <<>>, version |-> 0]
  <2>1. heap' = heap
    BY <1>2 DEF StoreEntry, dataVars
  <2>2. entries[k] # a
    BY <1>2, MemoryStoreAssumption DEF StoreEntry, LoadOrStore, Key, TypeOK
  <2> QED BY <2>1, <2>2 DEF ObjectInv, HeapInv
<1>3. ASSUME NEW c \in Clients, WriteEntry(c)
      PROVE  heap'[k][a] = [messages |-> <<>>, version |-> 0]
  <2>1. entries' = entries /\ entry[c] = entries[Key(c)]
    BY <1>3 DEF WriteEntry, mapVars, ObjectInv, EntryFound
  <2>2. heap'[k][a] = heap[k][a]
    <3> DEFINE v == Appended(heap[Key(c)][entry[c]], call[c].turn)
    <3>1. heap' = heap \/ heap' = [heap EXCEPT ![Key(c)][entry[c]] = v]
      BY <1>3 DEF WriteEntry
    <3>2. ~(k = Key(c) /\ a = entry[c])
      BY <2>1
    <3> HIDE DEF v
    <3>3. heap \in [Keys -> [Clients -> [messages : Seq(Message), version : Nat]]]
      BY DEF TypeOK
    <3> QED BY <3>1, <3>2, <3>3
  <2> QED BY <2>1, <2>2 DEF ObjectInv, HeapInv
<1> QED BY <1>1, <1>2, <1>3, Frames

\* Each step leaves a memoryIdempotency that is not published alone.
LEMMA ValuesStep == TypeOK /\ CallInv /\ ObjectInv /\ [Next]_vars => ValuesInv'
<1> SUFFICES ASSUME TypeOK, CallInv, ObjectInv, [Next]_vars,
                    NEW k \in Keys, NEW a \in Clients, idempotency'[k] # a
             PROVE  values'[k][a] = [i \in IdemKeys |-> NoTurn]
  BY DEF ValuesInv
<1>1. CASE UNCHANGED <<idempotency, values>>
  BY <1>1 DEF ObjectInv, ValuesInv
<1>2. ASSUME NEW c \in Clients, StoreMarker(c)
      PROVE  values'[k][a] = [i \in IdemKeys |-> NoTurn]
  <2>1. values' = values
    BY <1>2 DEF StoreMarker, dataVars
  <2>2. idempotency[k] # a
    BY <1>2, MemoryStoreAssumption DEF StoreMarker, LoadOrStore, Key, TypeOK
  <2> QED BY <2>1, <2>2 DEF ObjectInv, ValuesInv
<1>3. ASSUME NEW c \in Clients, RecordHash(c)
      PROVE  values'[k][a] = [i \in IdemKeys |-> NoTurn]
  <2>1. idempotency' = idempotency /\ marker[c] = idempotency[Key(c)]
    BY <1>3 DEF RecordHash, mapVars, ObjectInv, MarkerFound, HasMarker, CallInv
  <2>2. ~(k = Key(c) /\ a = marker[c])
    BY <2>1
  <2>3. values \in [Keys -> [Clients -> [IdemKeys -> Turns \cup {NoTurn}]]]
    BY DEF TypeOK
  <2>4. values'[k][a] = values[k][a]
    BY <1>3, <2>2, <2>3 DEF RecordHash
  <2> QED BY <2>1, <2>4 DEF ObjectInv, ValuesInv
<1> QED BY <1>1, <1>2, <1>3, Frames

\* A step of one caller leaves the others where they are.
LEMMA OthersStay ==
    ASSUME TypeOK, NEW c \in Clients, Invoke(c) \/ Step(c), NEW d \in Clients, d # c
    PROVE  /\ pc'[d] = pc[d] /\ call'[d] = call[d] /\ entry'[d] = entry[d]
           /\ marker'[d] = marker[d] /\ result'[d] = result[d]
<1> USE DEF TypeOK, Goto, Answer, mapVars, dataVars, callVars
<1>1. CASE Invoke(c) BY <1>1 DEF Invoke
<1>2. CASE Cancelled(c) BY <1>2 DEF Cancelled
<1>3. CASE LookupMarker(c) BY <1>3 DEF LookupMarker
<1>4. CASE StoreMarker(c) BY <1>4 DEF StoreMarker
<1>5. CASE LockMarker(c) BY <1>5 DEF LockMarker
<1>6. CASE LookupEntry(c) BY <1>6 DEF LookupEntry
<1>7. CASE StoreEntry(c) BY <1>7 DEF StoreEntry
<1>8. CASE ReadEntry(c) BY <1>8 DEF ReadEntry
<1>9. CASE WriteEntry(c) BY <1>9 DEF WriteEntry
<1>10. CASE RecordHash(c) BY <1>10 DEF RecordHash
<1>11. CASE Return(c) BY <1>11 DEF Return
<1> QED BY <1>1, <1>2, <1>3, <1>4, <1>5, <1>6, <1>7, <1>8, <1>9, <1>10, <1>11 DEF Step

\* A published object stays published.
LEMMA PublishedStay ==
    ASSUME TypeOK, [Next]_vars, NEW k \in Keys
    PROVE  /\ entries[k] \in Clients => entries'[k] = entries[k]
           /\ idempotency[k] \in Clients => idempotency'[k] = idempotency[k]
<1>1. entries[k] \in Clients => entries'[k] = entries[k]
  <2>1. \/ UNCHANGED entries
        \/ \E c \in Clients : StoreEntry(c)
    BY Frames DEF WriteEntry, mapVars
  <2> QED BY <2>1, MemoryStoreAssumption DEF StoreEntry, LoadOrStore, TypeOK
<1>2. idempotency[k] \in Clients => idempotency'[k] = idempotency[k]
  <2>1. \/ UNCHANGED idempotency
        \/ \E c \in Clients : StoreMarker(c)
    BY Frames DEF RecordHash, mapVars
  <2> QED BY <2>1, MemoryStoreAssumption DEF StoreMarker, LoadOrStore, TypeOK
<1> QED BY <1>1, <1>2

\* Each caller keeps pointing at the published objects.
LEMMA FoundStep ==
    TypeOK /\ CallInv /\ ObjectInv /\ [Next]_vars =>
       (\A c \in Clients : EntryFound(c) /\ MarkerFound(c))'
<1> SUFFICES ASSUME TypeOK, CallInv, ObjectInv, [Next]_vars, NEW d \in Clients
             PROVE  EntryFound(d)' /\ MarkerFound(d)'
  OBVIOUS
<1> USE DEF EntryFound, MarkerFound, HasMarker, Key
<1>1. EntryFound(d) /\ MarkerFound(d)
  BY DEF ObjectInv
<1>2. pc[d] # "idle" => call[d].key \in Keys
  BY CallTyped, CallFields
<1>3. CASE pc'[d] = pc[d] /\ call'[d] = call[d] /\ entry'[d] = entry[d]
           /\ marker'[d] = marker[d]
  BY <1>1, <1>2, <1>3, PublishedStay
<1>4. CASE Invoke(d) \/ Step(d)
  <2> USE DEF TypeOK, CallInv, Goto, mapVars, callVars
  <2>1. CASE Invoke(d) BY <2>1, CallFields DEF Invoke
  <2>2. CASE Cancelled(d) BY <2>2 DEF Cancelled
  <2>3. CASE LookupMarker(d)
    <3>1. pc[d] = "marker" /\ call' = call /\ idempotency' = idempotency
          /\ entries' = entries /\ entry' = entry
      BY <2>3 DEF LookupMarker
    <3>2. \/ /\ pc'[d] = "lock" /\ marker'[d] = idempotency[call[d].key]
             /\ idempotency[call[d].key] # NoObject
          \/ pc'[d] = "storeMarker"
      BY <2>3 DEF LookupMarker
    <3> QED BY <1>2, <3>1, <3>2
  <2>4. CASE StoreMarker(d) BY <2>4, <1>2 DEF StoreMarker, LoadOrStore
  <2>5. CASE LockMarker(d) BY <2>5, <1>1 DEF LockMarker
  <2>6. CASE LookupEntry(d)
    <3>1. pc[d] = "entry" /\ call' = call /\ idempotency' = idempotency
          /\ entries' = entries /\ marker' = marker
      BY <2>6 DEF LookupEntry
    <3>2. \/ /\ pc'[d] = "locked" /\ entry'[d] = entries[call[d].key]
             /\ entries[call[d].key] # NoObject
          \/ pc'[d] = "storeEntry"
      BY <2>6 DEF LookupEntry
    <3> QED BY <1>1, <1>2, <3>1, <3>2
  <2>7. CASE StoreEntry(d) BY <2>7, <1>1, <1>2 DEF StoreEntry, LoadOrStore
  <2>8. CASE ReadEntry(d) BY <2>8 DEF ReadEntry
  <2>9. CASE WriteEntry(d) BY <2>9, <1>1 DEF WriteEntry
  <2>10. CASE RecordHash(d) BY <2>10 DEF RecordHash
  <2>11. CASE Return(d) BY <2>11 DEF Return
  <2> QED BY <1>4, <2>1, <2>2, <2>3, <2>4, <2>5, <2>6, <2>7, <2>8, <2>9, <2>10, <2>11
          DEF Step
<1>5. CASE \E c \in Clients : c # d /\ (Invoke(c) \/ Step(c))
  BY <1>3, <1>5, OthersStay
<1>6. CASE Done \/ UNCHANGED vars
  BY <1>3, <1>6 DEF Done, vars
<1> QED BY <1>4, <1>5, <1>6 DEF Next

\* marker.mu excludes: two callers inside it are one.
LEMMA MutexExcludes ==
    ASSUME TypeOK, CallInv, ObjectInv, MutexInv,
           NEW c \in Clients, NEW d \in Clients, HoldsMarker(c), HasMarker(d),
           Key(c) = Key(d)
    PROVE  /\ marker[d] = marker[c]
           /\ mu[Key(d)][marker[d]] = c
           /\ HoldsMarker(d) => c = d
BY DEF ObjectInv, MarkerFound, MutexInv, MutexHeld, HoldsMarker

\* Each step respects marker.mu.
LEMMA MutexStep == TypeOK /\ CallInv /\ ObjectInv /\ MutexInv /\ [Next]_vars => MutexInv'
<1> SUFFICES ASSUME TypeOK, CallInv, ObjectInv, MutexInv, [Next]_vars, NEW d \in Clients
             PROVE  MutexHeld(d)'
  BY DEF MutexInv
<1>1. MutexHeld(d)
  BY DEF MutexInv
<1>2. pc[d] # "idle" => call[d].key \in Keys
  BY CallTyped, CallFields
<1>3. CASE Invoke(d) \/ Step(d)
  <2> USE DEF TypeOK, CallInv, Goto, mapVars, dataVars, callVars, Key,
              MutexHeld, HoldsMarker, HasMarker
  <2>1. CASE Invoke(d) BY <2>1, CallFields DEF Invoke
  <2>2. CASE Cancelled(d) BY <2>2 DEF Cancelled
  <2>3. CASE LookupMarker(d) BY <2>3 DEF LookupMarker
  <2>4. CASE StoreMarker(d) BY <2>4 DEF StoreMarker
  <2>5. CASE LockMarker(d)
    <3>1. pc[d] = "lock" /\ call[d].kind = "appendIdem" /\ marker[d] \in Clients
      BY <2>5 DEF LockMarker, ObjectInv, MarkerFound
    <3>2. /\ call' = call /\ marker' = marker /\ values' = values
          /\ \/ /\ values[call[d].key][marker[d]][call[d].idem] = NoTurn
                /\ mu' = [mu EXCEPT ![call[d].key][marker[d]] = d]
             \/ pc'[d] = "return"
      BY <2>5 DEF LockMarker
    <3> QED BY <1>2, <3>1, <3>2
  <2>6. CASE LookupEntry(d) BY <2>6, <1>1 DEF LookupEntry
  <2>7. CASE StoreEntry(d) BY <2>7, <1>1 DEF StoreEntry
  <2>8. CASE ReadEntry(d) BY <2>8 DEF ReadEntry
  <2>9. CASE WriteEntry(d)
    <3>1. pc[d] = "locked" /\ call' = call /\ marker' = marker /\ values' = values /\ mu' = mu
      BY <2>9 DEF WriteEntry
    <3> QED BY <1>1, <3>1
  <2>10. CASE RecordHash(d) BY <2>10 DEF RecordHash
  <2>11. CASE Return(d) BY <2>11 DEF Return
  <2> QED BY <1>3, <2>1, <2>2, <2>3, <2>4, <2>5, <2>6, <2>7, <2>8, <2>9, <2>10, <2>11
          DEF Step
<1>4. CASE \E c \in Clients : c # d /\ (Invoke(c) \/ Step(c))
  <2> PICK c \in Clients : c # d /\ (Invoke(c) \/ Step(c))
    BY <1>4
  <2>1. pc'[d] = pc[d] /\ call'[d] = call[d] /\ marker'[d] = marker[d]
    BY OthersStay
  <2> SUFFICES ASSUME HoldsMarker(d)
               PROVE  /\ mu'[Key(d)][marker[d]] = mu[Key(d)][marker[d]]
                      /\ values'[Key(d)][marker[d]][call[d].idem]
                            = values[Key(d)][marker[d]][call[d].idem]
    BY <1>1, <2>1 DEF MutexHeld, HoldsMarker, HasMarker, Key
  <2>2. /\ Key(d) \in Keys /\ marker[d] \in Clients /\ mu[Key(d)][marker[d]] = d
        /\ d # NoObject
    BY <1>1, <1>2, MemoryStoreAssumption
       DEF HoldsMarker, HasMarker, ObjectInv, MarkerFound, MutexHeld, Key
  <2>3. CASE UNCHANGED <<mu, values>>
    BY <2>3
  <2>4. ASSUME Cancelled(c) \/ RecordHash(c), HoldsMarker(c) PROVE Key(c) # Key(d)
    BY <2>4, MutexExcludes DEF HoldsMarker
  <2>5. CASE Cancelled(c)
    <3>1. values' = values /\ (mu' = mu \/
             (HoldsMarker(c) /\ mu' = [mu EXCEPT ![Key(c)][marker[c]] = NoObject]))
      BY <2>5 DEF Cancelled, HoldsMarker, HasMarker
    <3>2. HoldsMarker(c) => Key(c) # Key(d)
      BY <2>4, <2>5
    <3>3. mu \in [Keys -> [Clients -> Clients \cup {NoObject}]]
      BY DEF TypeOK
    <3> QED BY <2>2, <3>1, <3>2, <3>3
  <2>6. CASE LockMarker(c)
    <3>1. /\ mu[Key(c)][marker[c]] = NoObject /\ values' = values
          /\ mu' = mu \/ mu' = [mu EXCEPT ![Key(c)][marker[c]] = c]
      BY <2>6 DEF LockMarker
    <3>2. ~(Key(c) = Key(d) /\ marker[c] = marker[d])
      BY <2>2, <3>1
    <3>3. mu \in [Keys -> [Clients -> Clients \cup {NoObject}]]
      BY DEF TypeOK
    <3> QED BY <2>2, <3>1, <3>2, <3>3
  <2>7. CASE RecordHash(c)
    <3>1. HoldsMarker(c)
      BY <2>7 DEF RecordHash, HoldsMarker, HasMarker, CallInv
    <3>2. Key(c) # Key(d)
      BY <2>4, <2>7, <3>1
    <3>3. /\ mu \in [Keys -> [Clients -> Clients \cup {NoObject}]]
          /\ values \in [Keys -> [Clients -> [IdemKeys -> Turns \cup {NoTurn}]]]
      BY DEF TypeOK
    <3>4. /\ mu' = [mu EXCEPT ![Key(c)][marker[c]] = NoObject]
          /\ values' = [values EXCEPT ![Key(c)][marker[c]][call[c].idem] = call[c].turn]
      BY <2>7 DEF RecordHash
    <3> QED BY <2>2, <3>2, <3>3, <3>4
  <2>8. UNCHANGED <<mu, values>> \/ Cancelled(c) \/ LockMarker(c) \/ RecordHash(c)
    BY DEF Step, Invoke, Cancelled, LookupMarker, StoreMarker, LockMarker,
       LookupEntry, StoreEntry, ReadEntry, WriteEntry, RecordHash, Return, dataVars
  <2> QED BY <2>3, <2>5, <2>6, <2>7, <2>8
<1>5. CASE Done \/ UNCHANGED vars
  BY <1>1, <1>5 DEF Done, vars, MutexHeld, HoldsMarker, HasMarker, Key
<1> QED BY <1>3, <1>4, <1>5 DEF Next

\* The log grows only by an append, which adds the caller's turn.
LEMMA LogFrame ==
    ASSUME TypeOK, CallInv, [Next]_vars, NEW k \in Keys
    PROVE  \/ log'[k] = log[k]
           \/ \E c \in Clients :
                /\ WriteEntry(c) /\ Key(c) = k
                /\ call[c] \in Calls
                /\ log'[k] = Append(log[k], RecordOf(call[c]))
<1>1. CASE log' = log
  BY <1>1
<1>2. CASE \E c \in Clients : WriteEntry(c)
  <2> PICK c \in Clients : WriteEntry(c)
    BY <1>2
  <2>1. call[c] \in Calls
    BY CallTyped DEF WriteEntry
  <2>2. log' = log \/ log' = [log EXCEPT ![Key(c)] = Append(@, RecordOf(call[c]))]
    BY DEF WriteEntry
  <2>3. log \in [Keys -> Seq(Record)]
    BY DEF TypeOK
  <2> QED BY <2>1, <2>2, <2>3
<1> QED BY <1>1, <1>2, Frames DEF StoreEntry, dataVars

\* What is in the log stays there.
LEMMA LogGrows ==
    ASSUME TypeOK, CallInv, [Next]_vars, NEW k \in Keys, NEW n \in DOMAIN log[k]
    PROVE  n \in DOMAIN log'[k] /\ log'[k][n] = log[k][n]
<1>1. log[k] \in Seq(Record)
  BY DEF TypeOK
<1>2. \A r \in Record : n \in DOMAIN Append(log[k], r) /\ Append(log[k], r)[n] = log[k][n]
  BY <1>1
<1> QED BY <1>2, LogFrame, CallFields

\* Each step keeps the published memoryEntry the transcript of the log.
LEMMA EntryStep ==
    TypeOK /\ CallInv /\ ObjectInv /\ EntryShowsLog /\ [Next]_vars => EntryShowsLog'
<1> DEFINE Shown(l) == [messages |-> TranscriptOf(l, Len(l), Limit), version |-> Len(l)]
<1> SUFFICES ASSUME TypeOK, CallInv, ObjectInv, EntryShowsLog, [Next]_vars, NEW k \in Keys
             PROVE  IF entries'[k] = NoObject THEN log'[k] = <<>>
                    ELSE heap'[k][entries'[k]] = Shown(log'[k])
  BY DEF EntryShowsLog
<1>1. IF entries[k] = NoObject THEN log[k] = <<>> ELSE heap[k][entries[k]] = Shown(log[k])
  BY DEF EntryShowsLog
<1>2. log[k] \in Seq(Record)
  BY DEF TypeOK
<1> HIDE DEF Shown
<1>3. CASE UNCHANGED <<entries, heap, log>>
  BY <1>1, <1>3
<1>4. ASSUME NEW c \in Clients, StoreEntry(c)
      PROVE  IF entries'[k] = NoObject THEN log'[k] = <<>>
             ELSE heap'[k][entries'[k]] = Shown(log'[k])
  <2>1. heap' = heap /\ log' = log
    BY <1>4 DEF StoreEntry, dataVars
  <2>2. CASE entries'[k] = entries[k]
    BY <1>1, <2>1, <2>2
  <2>3. CASE entries'[k] # entries[k]
    <3>1. entries[k] = NoObject /\ entries'[k] = c /\ c # NoObject
      BY <1>4, <2>3, MemoryStoreAssumption DEF StoreEntry, LoadOrStore, TypeOK
    <3>2. log[k] = <<>>
      BY <1>1, <3>1
    <3>3. heap[k][c] = [messages |-> <<>>, version |-> 0]
      BY <3>1 DEF ObjectInv, HeapInv
    <3>4. Shown(<<>>) = [messages |-> <<>>, version |-> 0]
      <4>1. PICK w \in Nat \ {0} : Limit = 2 * w
        BY LimitEven
      <4>2. Limit \div 2 = w
        BY <4>1
      <4>3. TranscriptOf(<<>>, 0, Limit) = PairsOf(<<>>, 0, 0)
        BY <4>2 DEF TranscriptOf
      <4>4. PairsOf(<<>>, 0, 0) = <<>>
        BY DEF PairsOf
      <4> QED BY <4>3, <4>4 DEF Shown
    <3> QED BY <2>1, <3>1, <3>2, <3>3, <3>4
  <2> QED BY <2>2, <2>3
<1>5. ASSUME NEW c \in Clients, WriteEntry(c)
      PROVE  IF entries'[k] = NoObject THEN log'[k] = <<>>
             ELSE heap'[k][entries'[k]] = Shown(log'[k])
  <2>1. /\ entries' = entries /\ entry[c] = entries[Key(c)] /\ entry[c] \in Clients
        /\ call[c] \in Calls
    BY <1>5, CallTyped DEF WriteEntry, mapVars, ObjectInv, EntryFound
  <2> DEFINE v == Appended(heap[Key(c)][entry[c]], call[c].turn)
  <2>2. \/ heap' = heap /\ log' = log
        \/ /\ heap' = [heap EXCEPT ![Key(c)][entry[c]] = v]
           /\ log' = [log EXCEPT ![Key(c)] = Append(@, RecordOf(call[c]))]
    BY <1>5 DEF WriteEntry
  <2>3. heap \in [Keys -> [Clients -> [messages : Seq(Message), version : Nat]]]
        /\ log \in [Keys -> Seq(Record)]
    BY DEF TypeOK
  <2>4. CASE k # Key(c)
    BY <1>1, <2>1, <2>2, <2>3, <2>4
  <2>5. CASE heap' = heap /\ log' = log
    BY <1>1, <2>1, <2>5
  <2>6. CASE /\ k = Key(c)
             /\ heap' = [heap EXCEPT ![Key(c)][entry[c]] = v]
             /\ log' = [log EXCEPT ![Key(c)] = Append(@, RecordOf(call[c]))]
    <3>1. heap[k][entry[c]] = Shown(log[k]) /\ entries[k] # NoObject
      BY <1>1, <2>1, <2>6, MemoryStoreAssumption
    <3>2. heap'[k][entries[k]] = v /\ log'[k] = Append(log[k], RecordOf(call[c]))
      <4> HIDE DEF v
      <4> QED BY <2>1, <2>3, <2>6
    <3>3. v = Appended(Shown(log[k]), call[c].turn)
      BY <2>6, <3>1
    <3>4. RecordOf(call[c]) \in Record /\ RecordOf(call[c]).turn = call[c].turn
      BY <2>1, CallFields DEF RecordOf
    <3>5. \A r \in Record : Appended(Shown(log[k]), r.turn) = Shown(Append(log[k], r))
      <4> TAKE r \in Record
      <4>1. PICK w \in Nat \ {0} : Limit = 2 * w
        BY LimitEven
      <4>2. Trim(TranscriptOf(log[k], Len(log[k]), Limit) \o Pair(r.turn), Limit)
               = TranscriptOf(Append(log[k], r), Len(log[k]) + 1, Limit)
        BY <1>2, <4>1, TrimShowsLog
      <4>3. Len(Append(log[k], r)) = Len(log[k]) + 1
        BY <1>2
      <4> QED BY <4>2, <4>3 DEF Appended, Shown
    <3>6. v = Shown(log'[k])
      BY <3>2, <3>3, <3>4, <3>5
    <3> QED BY <2>1, <3>1, <3>2, <3>6
  <2> QED BY <2>2, <2>4, <2>5, <2>6
<1> QED BY <1>3, <1>4, <1>5, Frames

\* What the log holds.
LEMMA LogTyped ==
    ASSUME TypeOK, NEW k \in Keys, NEW n \in DOMAIN log[k]
    PROVE  /\ log[k][n].turn \in Turns /\ log[k][n].turn # NoTurn
           /\ log[k][n].idem \in IdemKeys \cup {NoIdem}
<1>1. log[k] \in Seq(Record)
  BY DEF TypeOK
<1>2. log[k][n] \in Record
  BY <1>1, ElementOfSeq
<1> QED BY <1>2, MemoryStoreAssumption DEF Record

\* A turn in the log stays in the log.
LEMMA InLogStays ==
    ASSUME TypeOK, CallInv, [Next]_vars, NEW k \in Keys, NEW r, InLog(k, r)
    PROVE  InLog(k, r)'
<1>1. PICK n \in DOMAIN log[k] : log[k][n] = r
  BY DEF InLog
<1>2. n \in DOMAIN log'[k] /\ log'[k][n] = r
  BY <1>1, LogGrows
<1> QED BY <1>2 DEF InLog

\* An append puts its turn in the log, and an idempotent one goes on to record it.
LEMMA WriteLogs ==
    ASSUME TypeOK, CallInv, NEW c \in Clients, WriteEntry(c), log' # log
    PROVE  /\ call' = call /\ idempotency' = idempotency /\ values' = values
           /\ call[c] \in Calls /\ Key(c) \in Keys
           /\ log' = [log EXCEPT ![Key(c)] = Append(@, RecordOf(call[c]))]
           /\ log'[Key(c)] = Append(log[Key(c)], RecordOf(call[c]))
           /\ call[c].kind = "appendIdem" => pc'[c] = "record"
<1>1. call[c] \in Calls /\ Key(c) \in Keys
  BY CallTyped, CallFields DEF WriteEntry, Key
<1>2. /\ call' = call /\ idempotency' = idempotency /\ values' = values
      /\ log' = [log EXCEPT ![Key(c)] = Append(@, RecordOf(call[c]))]
      /\ pc' = [pc EXCEPT ![c] = IF call[c].kind = "appendIdem" THEN "record" ELSE "return"]
  BY DEF WriteEntry, mapVars, Goto
<1>3. pc \in [Clients -> Labels] /\ log \in [Keys -> Seq(Record)]
  BY DEF TypeOK
<1> QED BY <1>1, <1>2, <1>3

\* Each step keeps a caller that is to record a hash behind a logged turn.
LEMMA CallerLoggedStep ==
    TypeOK /\ CallInv /\ CallerLogged /\ [Next]_vars => CallerLogged'
<1> SUFFICES ASSUME TypeOK, CallInv, CallerLogged, [Next]_vars,
                    NEW d \in Clients, pc'[d] = "record"
             PROVE  InLog(Key(d), RecordOf(call[d]))'
  BY DEF CallerLogged
<1>1. CASE pc[d] = "record" /\ call'[d] = call[d]
  <2>1. Key(d) \in Keys
    BY <1>1, CallTyped, CallFields DEF Key
  <2>2. InLog(Key(d), RecordOf(call[d]))
    BY <1>1 DEF CallerLogged
  <2>3. \A k, r : k = Key(d) /\ r = RecordOf(call[d]) => InLog(k, r)'
    BY <2>1, <2>2, InLogStays
  <2> QED BY <1>1, <2>3 DEF InLog, Key
<1>2. CASE WriteEntry(d)
  <2>1. log' # log
    <3>1. log' = [log EXCEPT ![Key(d)] = Append(@, RecordOf(call[d]))] /\ Key(d) \in Keys
      BY <1>2, CallTyped, CallFields DEF WriteEntry, Goto, TypeOK, Key
    <3>2. log \in [Keys -> Seq(Record)]
      BY DEF TypeOK
    <3> QED BY <3>1, <3>2
  <2>2. /\ call' = call /\ Key(d) \in Keys /\ RecordOf(call[d]) \in Record
        /\ log'[Key(d)] = Append(log[Key(d)], RecordOf(call[d]))
    BY <1>2, <2>1, WriteLogs, CallFields
  <2>3. log[Key(d)] \in Seq(Record)
    BY <2>2 DEF TypeOK
  <2>4. \A s \in Seq(Record), r \in Record :
           Len(s) + 1 \in DOMAIN Append(s, r) /\ Append(s, r)[Len(s) + 1] = r
    OBVIOUS
  <2> QED BY <2>2, <2>3, <2>4 DEF InLog, Key
<1>3. CASE Invoke(d) \/ (Step(d) /\ ~WriteEntry(d))
  <2>1. pc'[d] # "record"
    BY <1>3 DEF TypeOK, Goto, Step, Invoke, Cancelled, LookupMarker, StoreMarker,
       LockMarker, LookupEntry, StoreEntry, ReadEntry, RecordHash, Return
  <2> QED BY <2>1
<1>4. CASE \E c \in Clients : c # d /\ (Invoke(c) \/ Step(c))
  BY <1>1, <1>4, OthersStay
<1>5. CASE Done \/ UNCHANGED vars
  BY <1>1, <1>5 DEF Done, vars
<1> QED BY <1>2, <1>3, <1>4, <1>5 DEF Next, Step

\* Each step records a hash of a turn in the log only.
LEMMA RecordedLoggedStep ==
    TypeOK /\ CallInv /\ ObjectInv /\ CallerLogged /\ RecordedLogged /\ [Next]_vars
       => RecordedLogged'
<1> SUFFICES ASSUME TypeOK, CallInv, ObjectInv, CallerLogged, RecordedLogged, [Next]_vars,
                    NEW k \in Keys, NEW a \in Clients, NEW i \in IdemKeys,
                    values'[k][a][i] # NoTurn
             PROVE  InLog(k, [turn |-> values[k][a][i], idem |-> i])'
  BY DEF RecordedLogged
<1>1. CASE values'[k][a][i] = values[k][a][i]
  <2>1. InLog(k, [turn |-> values[k][a][i], idem |-> i])
    BY <1>1 DEF RecordedLogged
  <2>2. \A r : r = [turn |-> values[k][a][i], idem |-> i] => InLog(k, r)'
    BY <2>1, InLogStays
  <2> QED BY <1>1, <2>2 DEF InLog
<1>2. ASSUME NEW c \in Clients, RecordHash(c), values'[k][a][i] # values[k][a][i]
      PROVE  InLog(k, [turn |-> values[k][a][i], idem |-> i])'
  <2>1. /\ pc[c] = "record" /\ log' = log /\ call[c] \in Calls
        /\ values' = [values EXCEPT ![Key(c)][marker[c]][call[c].idem] = call[c].turn]
    BY <1>2, CallTyped DEF RecordHash
  <2>2. values \in [Keys -> [Clients -> [IdemKeys -> Turns \cup {NoTurn}]]]
    BY DEF TypeOK
  <2>3. k = Key(c) /\ i = call[c].idem /\ values'[k][a][i] = call[c].turn
    BY <1>2, <2>1, <2>2
  <2>4. InLog(k, RecordOf(call[c]))
    BY <2>1, <2>3 DEF CallerLogged
  <2> QED BY <2>1, <2>3, <2>4 DEF InLog, RecordOf
<1>3. UNCHANGED values \/ \E c \in Clients : RecordHash(c)
  BY Frames DEF StoreMarker, dataVars
<1> QED BY <1>1, <1>2, <1>3

\* No caller inside marker.mu finds its retry key in the log, unless it put it there.
LEMMA HeldUnlogged ==
    ASSUME TypeOK, CallInv, ObjectInv, MutexInv, LogRecorded,
           NEW c \in Clients, HoldsMarker(c), NEW n \in DOMAIN log[Key(c)],
           log[Key(c)][n].idem = call[c].idem
    PROVE  pc[c] = "record" /\ RecordOf(call[c]) = log[Key(c)][n]
<1>1. /\ call[c] \in Calls /\ Key(c) \in Keys /\ call[c].idem \in IdemKeys
      /\ call[c].idem # NoIdem
  BY CallTyped, CallFields, ConversationAssumption DEF HoldsMarker, HasMarker, Key
<1>2. Recorded(Key(c), n)
  BY <1>1 DEF LogRecorded
<1>3. log[Key(c)][n].turn # NoTurn
  BY <1>1, LogTyped
<1>4. values[Key(c)][idempotency[Key(c)]][call[c].idem] = NoTurn
  BY DEF MutexInv, MutexHeld, ObjectInv, MarkerFound, HoldsMarker
<1>5. PICK d \in Clients : pc[d] = "record" /\ call[d].key = Key(c)
                           /\ RecordOf(call[d]) = log[Key(c)][n]
  BY <1>2, <1>3, <1>4 DEF Recorded
<1>6. HasMarker(d) /\ HoldsMarker(d)
  BY <1>5 DEF HasMarker, HoldsMarker, CallInv
<1>7. c = d
  BY <1>5, <1>6, MutexExcludes DEF Key
<1> QED BY <1>5, <1>7

\* Each step keeps the logged retry keys recorded.
LEMMA LogRecordedStep ==
    TypeOK /\ CallInv /\ ObjectInv /\ MutexInv /\ LogRecorded /\ [Next]_vars
       => LogRecorded'
<1> SUFFICES ASSUME TypeOK, CallInv, ObjectInv, MutexInv, LogRecorded, [Next]_vars,
                    NEW k \in Keys, NEW n \in DOMAIN log'[k], log'[k][n].idem # NoIdem
             PROVE  Recorded(k, n)'
  BY DEF LogRecorded
<1>1. CASE n \in DOMAIN log[k]
  <2>1. log'[k][n] = log[k][n]
    BY <1>1, LogGrows
  <2>2. Recorded(k, n)
    BY <1>1, <2>1 DEF LogRecorded
  <2>3. idempotency'[k] = idempotency[k] /\ idempotency[k] \in Clients
    BY <2>2, PublishedStay DEF Recorded
  <2> DEFINE i == log[k][n].idem
             t == log[k][n].turn
  <2>4. i \in IdemKeys /\ t \in Turns /\ t # NoTurn
    BY <1>1, <2>1, LogTyped
  <2>5. CASE values[k][idempotency[k]][i] = t
    <3>1. values'[k][idempotency[k]][i] = t
      <4>1. CASE values' = values
        BY <2>5, <4>1
      <4>2. ASSUME NEW c \in Clients, RecordHash(c)
            PROVE  values'[k][idempotency[k]][i] = t
        <5>1. /\ HoldsMarker(c) /\ call[c].idem \in IdemKeys
              /\ values' = [values EXCEPT ![Key(c)][marker[c]][call[c].idem] = call[c].turn]
          BY <4>2, CallTyped, CallFields DEF RecordHash, HoldsMarker, HasMarker, CallInv
        <5>2. values \in [Keys -> [Clients -> [IdemKeys -> Turns \cup {NoTurn}]]]
          BY DEF TypeOK
        <5>3. ~(k = Key(c) /\ idempotency[k] = marker[c] /\ i = call[c].idem)
          BY <2>4, <2>5, <5>1 DEF MutexInv, MutexHeld
        <5> HIDE DEF i, t
        <5> QED BY <2>3, <2>4, <2>5, <5>1, <5>2, <5>3
      <4> QED BY <4>1, <4>2, Frames DEF StoreMarker, dataVars
    <3> QED BY <2>1, <2>3, <3>1 DEF Recorded
  <2>6. ASSUME NEW d \in Clients, pc[d] = "record", call[d].key = k,
               RecordOf(call[d]) = log[k][n]
        PROVE  Recorded(k, n)'
    <3>1. CASE pc'[d] = pc[d] /\ call'[d] = call[d]
      BY <2>1, <2>3, <2>6, <3>1 DEF Recorded
    <3>2. CASE RecordHash(d)
      <4>1. /\ marker[d] = idempotency[k] /\ i = call[d].idem /\ t = call[d].turn
            /\ values' = [values EXCEPT ![k][marker[d]][i] = t]
        <5>1. i = call[d].idem /\ t = call[d].turn
          BY <2>6 DEF RecordOf
        <5>2. marker[d] = idempotency[k]
          BY <2>6 DEF Key, ObjectInv, MarkerFound, HasMarker, CallInv
        <5>3. values' = [values EXCEPT ![k][marker[d]][call[d].idem] = call[d].turn]
          BY <2>6, <3>2 DEF RecordHash, Key
        <5> HIDE DEF i, t
        <5> QED BY <5>1, <5>2, <5>3
      <4>2. values \in [Keys -> [Clients -> [IdemKeys -> Turns \cup {NoTurn}]]]
        BY DEF TypeOK
      <4>3. values'[k][idempotency[k]][i] = t
        <5> HIDE DEF i, t
        <5> QED BY <2>3, <2>4, <4>1, <4>2
      <4> QED BY <2>1, <2>3, <4>3 DEF Recorded
    <3>3. Step(d) => RecordHash(d)
      BY <2>6 DEF Step, Cancelled, LookupMarker, StoreMarker, LockMarker, LookupEntry,
         StoreEntry, ReadEntry, WriteEntry, Return
    <3>4. ~Invoke(d)
      BY <2>6 DEF Invoke
    <3>5. CASE \E c \in Clients : c # d /\ (Invoke(c) \/ Step(c))
      BY <3>1, <3>5, OthersStay
    <3>6. CASE Done \/ UNCHANGED vars
      BY <3>1, <3>6 DEF Done, vars
    <3> QED BY <3>2, <3>3, <3>4, <3>5, <3>6 DEF Next
  <2> QED BY <2>2, <2>5, <2>6 DEF Recorded
<1>2. CASE n \notin DOMAIN log[k]
  <2>1. log'[k] # log[k]
    BY <1>2
  <2>2. PICK c \in Clients : /\ WriteEntry(c) /\ Key(c) = k /\ call[c] \in Calls
                             /\ log'[k] = Append(log[k], RecordOf(call[c]))
    BY <2>1, LogFrame
  <2>3. call' = call /\ idempotency' = idempotency
        /\ (call[c].kind = "appendIdem" => pc'[c] = "record")
    BY <2>1, <2>2, WriteLogs
  <2>4. log[k] \in Seq(Record) /\ RecordOf(call[c]) \in Record
    BY <2>2, CallFields DEF TypeOK
  <2>5. \A s \in Seq(Record), r \in Record : \A m \in DOMAIN Append(s, r) \ DOMAIN s :
           Append(s, r)[m] = r
    OBVIOUS
  <2>6. log'[k][n] = RecordOf(call[c])
    BY <1>2, <2>2, <2>4, <2>5
  <2>7. call[c].kind = "appendIdem"
    BY <2>2, <2>6, CallFields DEF RecordOf
  <2>8. idempotency[k] \in Clients
    BY <2>2, <2>7 DEF ObjectInv, MarkerFound, HasMarker, WriteEntry
  <2> QED BY <2>2, <2>3, <2>6, <2>7, <2>8 DEF Recorded, Key
<1> QED BY <1>1, <1>2

\* Each step commits a retry key that is not in the log.
LEMMA OnceStep ==
    TypeOK /\ CallInv /\ ObjectInv /\ MutexInv /\ LogRecorded /\ CommittedOnce /\ [Next]_vars
       => CommittedOnce'
<1> SUFFICES ASSUME TypeOK, CallInv, ObjectInv, MutexInv, LogRecorded, CommittedOnce,
                    [Next]_vars, NEW k \in Keys
             PROVE  \A m, n \in DOMAIN log'[k] :
                       log'[k][m].idem = log'[k][n].idem /\ log'[k][m].idem # NoIdem => m = n
  BY DEF CommittedOnce
<1>1. \A m, n \in DOMAIN log[k] :
         log[k][m].idem = log[k][n].idem /\ log[k][m].idem # NoIdem => m = n
  BY DEF CommittedOnce
<1>2. CASE log'[k] = log[k]
  BY <1>1, <1>2
<1>3. CASE log'[k] # log[k]
  <2>1. PICK c \in Clients : /\ WriteEntry(c) /\ Key(c) = k /\ call[c] \in Calls
                             /\ log'[k] = Append(log[k], RecordOf(call[c]))
    BY <1>3, LogFrame
  <2>2. log[k] \in Seq(Record) /\ RecordOf(call[c]) \in Record
        /\ RecordOf(call[c]).idem = call[c].idem
    BY <2>1, CallFields DEF TypeOK, RecordOf
  <2>3. \A s \in Seq(Record), r \in Record :
           \A m \in DOMAIN Append(s, r) : \/ m \in DOMAIN s /\ Append(s, r)[m] = s[m]
                                          \/ m = Len(s) + 1 /\ Append(s, r)[m] = r
    OBVIOUS
  <2>4. ASSUME NEW n \in DOMAIN log[k], log[k][n].idem = call[c].idem, call[c].idem # NoIdem
        PROVE  FALSE
    <3>1. HoldsMarker(c) /\ pc[c] = "locked"
      BY <2>1, <2>4, CallFields DEF HoldsMarker, HasMarker, WriteEntry
    <3> QED BY <2>1, <2>4, <3>1, HeldUnlogged
  <2>5. \A m \in DOMAIN log'[k] :
           \/ m \in DOMAIN log[k] /\ log'[k][m] = log[k][m]
           \/ m = Len(log[k]) + 1 /\ log'[k][m] = RecordOf(call[c])
    BY <2>1, <2>2, <2>3
  <2> QED BY <1>1, <2>2, <2>4, <2>5
<1> QED BY <1>2, <1>3

\* A new store satisfies the invariant.
LEMMA InitInv == Init => IInv
<1> SUFFICES ASSUME Init PROVE IInv
  OBVIOUS
<1>1. TypeOK
  <2>1. Reply("none") \in Results
    BY ReplyType DEF Statuses
  <2>2. <<>> \in Seq(Message) /\ <<>> \in Seq(Record)
    OBVIOUS
  <2> QED BY <2>1, <2>2, MemoryStoreAssumption DEF Init, TypeOK, Labels
<1>2. CallInv
  BY DEF Init, CallInv
<1>3. ObjectInv
  BY DEF Init, ObjectInv, HeapInv, ValuesInv, EntryFound, MarkerFound, HasMarker
<1>4. MutexInv
  BY DEF Init, MutexInv, MutexHeld, HoldsMarker, HasMarker
<1>5. LogRecorded /\ CommittedOnce
  <2>1. \A k \in Keys : DOMAIN log[k] = {}
    BY DEF Init
  <2> QED BY <2>1 DEF LogRecorded, CommittedOnce
<1>6. RecordedLogged /\ CallerLogged
  BY DEF Init, RecordedLogged, CallerLogged
<1>7. EntryShowsLog
  BY DEF Init, EntryShowsLog
<1> QED BY <1>1, <1>2, <1>3, <1>4, <1>5, <1>6, <1>7 DEF IInv, RecordedInv

\* Each step keeps the invariant.
LEMMA NextInv == IInv /\ [Next]_vars => IInv'
<1> SUFFICES ASSUME IInv, [Next]_vars PROVE IInv'
  OBVIOUS
<1>1. /\ TypeOK /\ CallInv /\ ObjectInv /\ MutexInv /\ EntryShowsLog /\ CommittedOnce
      /\ LogRecorded /\ RecordedLogged /\ CallerLogged
  BY DEF IInv, RecordedInv
<1>2. TypeOK' /\ CallInv' /\ MutexInv'
  BY <1>1, TypeStep, CallStep, MutexStep
<1>3. ObjectInv'
  BY <1>1, HeapStep, ValuesStep, FoundStep DEF ObjectInv
<1>4. LogRecorded' /\ RecordedLogged' /\ CallerLogged'
  BY <1>1, LogRecordedStep, RecordedLoggedStep, CallerLoggedStep
<1>5. EntryShowsLog' /\ CommittedOnce'
  BY <1>1, EntryStep, OnceStep
<1> QED BY <1>2, <1>3, <1>4, <1>5 DEF IInv, RecordedInv
-----------------------------------------------------------------------------
\* The inductive invariant holds of every execution of MemoryStore.
THEOREM Invariance == Spec => []IInv
BY InitInv, NextInv, PTL DEF Spec

\* The variables keep their types.
THEOREM TypeCorrect == Spec => []TypeOK
<1>1. IInv => TypeOK
  BY DEF IInv
<1> QED BY <1>1, Invariance, PTL

\* The published memoryEntry always holds the last Limit/2 committed turns and
\* the count of all of them, however many callers race to create and to append
\* to it (store.go:153-188).
THEOREM EntryCorrect == Spec => []EntryShowsLog
<1>1. IInv => EntryShowsLog
  BY DEF IInv
<1> QED BY <1>1, Invariance, PTL

\* AppendIdempotent commits a retry key to a conversation at most once
\* (store.go:102-133).
THEOREM OnceCorrect == Spec => []CommittedOnce
<1>1. IInv => CommittedOnce
  BY DEF IInv
<1> QED BY <1>1, Invariance, PTL
-----------------------------------------------------------------------------
\* A move of one caller, seen in the abstract log.
LEMMA PhaseMove ==
    ASSUME TypeOK, NEW c \in Clients, NEW l, Goto(c, l)
    PROVE  phase' = [phase EXCEPT ![c] = PhaseAt(l)]
BY DEF TypeOK, Goto, phase

\* The phase of a call by its caller's position.
LEMMA PhaseOf ==
    ASSUME NEW c \in Clients
    PROVE  /\ phase[c] = "idle" <=> pc[c] = "idle"
           /\ phase[c] = "done" <=> pc[c] \in {"record", "return"}
           /\ phase[c] = "pending" <=> pc[c] \notin {"idle", "record", "return"}
BY DEF phase, PhaseAt

\* A caller that moves without taking effect is not seen.
LEMMA PhaseKept ==
    ASSUME TypeOK, NEW c \in Clients, NEW l, Goto(c, l), PhaseAt(l) = PhaseAt(pc[c])
    PROVE  phase' = phase
BY DEF TypeOK, Goto, phase

\* The abstract log speaks of the same calls, turns and results.
LEMMA SameWords ==
    /\ Log!Calls = Calls /\ Log!NoCall = NoCall
    /\ \A s : Log!Reply(s) = Reply(s)
    /\ \A m, v : Log!Loaded(m, v) = Loaded(m, v)
    /\ \A l, i : Log!CommittedUnder(l, i) = CommittedUnder(l, i)
    /\ \A o : Log!RecordOf(o) = RecordOf(o)
    /\ \A l, n, m : Log!TranscriptOf(l, n, m) = TranscriptOf(l, n, m)
<1>1. Log!Calls = Calls /\ Log!NoCall = NoCall
  BY DEF Calls, Log!Calls, LoadCalls, Log!LoadCalls, VersionCalls, Log!VersionCalls,
     IdemCalls, Log!IdemCalls, NoCall, Log!NoCall
<1>2. \A s : Log!Reply(s) = Reply(s)
  BY DEF Reply, Log!Reply
<1>3. \A m, v : Log!Loaded(m, v) = Loaded(m, v)
  BY DEF Loaded, Log!Loaded
<1>4. \A l, i : Log!CommittedUnder(l, i) = CommittedUnder(l, i)
  BY DEF CommittedUnder, Log!CommittedUnder
<1>5. \A o : Log!RecordOf(o) = RecordOf(o)
  BY DEF RecordOf, Log!RecordOf
<1>6. \A l, n, m : Log!TranscriptOf(l, n, m) = TranscriptOf(l, n, m)
  BY DEF TranscriptOf, Log!TranscriptOf, PairsOf, Log!PairsOf, MessageAt, Log!MessageAt
<1> QED BY <1>1, <1>2, <1>3, <1>4, <1>5, <1>6

\* Each step of the store is one of the log, or none.
LEMMA StepRefines == IInv /\ [Next]_vars => [Log!LogNext]_(Log!logVars)
<1> SUFFICES ASSUME IInv, [Next]_vars PROVE Log!LogNext \/ UNCHANGED Log!logVars
  BY DEF Log!logVars
<1>0. /\ TypeOK /\ CallInv /\ ObjectInv /\ MutexInv /\ EntryShowsLog
      /\ LogRecorded /\ RecordedLogged
  BY DEF IInv, RecordedInv
<1> USE <1>0
<1> USE DEF Answer, Key, mapVars, dataVars, callVars
<1>1. CASE UNCHANGED vars
  BY <1>1 DEF vars, Log!logVars, phase
<1>2. ASSUME NEW c \in Clients, Invoke(c) PROVE Log!Invoke(c)
  <2>1. PICK o \in Calls : /\ call' = [call EXCEPT ![c] = o]
                           /\ Goto(c, IF o.kind = "appendIdem" THEN "marker" ELSE "entry")
    BY <1>2 DEF Invoke
  <2>2. phase' = [phase EXCEPT ![c] = "pending"]
    BY <2>1, PhaseMove DEF PhaseAt
  <2>3. phase[c] = "idle" /\ UNCHANGED <<log, result>>
    BY <1>2, PhaseOf DEF Invoke
  <2> QED BY <2>1, <2>2, <2>3, SameWords DEF Log!Invoke
<1>3. ASSUME NEW c \in Clients, Cancelled(c) PROVE Log!Fails(c)
  <2>1. phase[c] = "pending"
    BY <1>3, PhaseOf DEF Cancelled
  <2>2. phase' = [phase EXCEPT ![c] = "done"]
    BY <1>3, PhaseMove DEF Cancelled, PhaseAt
  <2>3. result' = [result EXCEPT ![c] = Reply("error")] /\ UNCHANGED <<log, call>>
    BY <1>3 DEF Cancelled
  <2> QED BY <2>1, <2>2, <2>3, SameWords DEF Log!Fails, Log!TakeEffect
<1>4. ASSUME NEW c \in Clients, LookupMarker(c) \/ StoreMarker(c) \/ LookupEntry(c)
                                \/ StoreEntry(c)
      PROVE  UNCHANGED Log!logVars
  <2>1. \E l : Goto(c, l) /\ PhaseAt(l) = PhaseAt(pc[c])
    BY <1>4 DEF LookupMarker, StoreMarker, LookupEntry, StoreEntry, PhaseAt
  <2>2. UNCHANGED <<log, call, result>>
    BY <1>4 DEF LookupMarker, StoreMarker, LookupEntry, StoreEntry
  <2> QED BY <2>1, <2>2, PhaseKept DEF Log!logVars
<1>5. ASSUME NEW c \in Clients, LockMarker(c)
      PROVE  Log!AppendSkipped(c) \/ Log!AppendConflicts(c) \/ UNCHANGED Log!logVars
  <2> DEFINE k == call[c].key
             previous == values[k][marker[c]][call[c].idem]
  <2>1. /\ k \in Keys /\ marker[c] \in Clients /\ call[c].idem \in IdemKeys
        /\ call[c].kind = "appendIdem" /\ pc[c] = "lock" /\ call' = call /\ log' = log
    BY <1>5, CallTyped, CallFields DEF LockMarker, CallInv, ObjectInv, MarkerFound, HasMarker
  <2>2. CASE previous = NoTurn
    <3>1. Goto(c, "entry") /\ result' = result
      BY <1>5, <2>2 DEF LockMarker
    <3>2. phase' = phase
      BY <2>1, <3>1, PhaseKept DEF PhaseAt
    <3> QED BY <2>1, <3>1, <3>2 DEF Log!logVars
  <2>3. CASE previous # NoTurn
    <3>1. PICK n \in DOMAIN log[k] : log[k][n] = [turn |-> previous, idem |-> call[c].idem]
      BY <2>1, <2>3 DEF RecordedLogged, InLog
    <3>2. n \in CommittedUnder(log[k], call[c].idem) /\ log[k][n].turn = previous
      BY <3>1 DEF CommittedUnder
    <3>3. Goto(c, "return") /\ result' = [result EXCEPT ![c] =
             Reply(IF previous = call[c].turn THEN "skipped" ELSE "conflict")]
      BY <1>5, <2>3 DEF LockMarker
    <3>4. phase[c] = "pending" /\ phase' = [phase EXCEPT ![c] = "done"]
      BY <2>1, <3>3, PhaseOf, PhaseMove DEF PhaseAt
    <3> HIDE DEF previous
    <3>5. CASE previous = call[c].turn
      BY <2>1, <3>2, <3>3, <3>4, <3>5, SameWords DEF Log!AppendSkipped, Log!TakeEffect
    <3>6. CASE previous # call[c].turn
      BY <2>1, <3>2, <3>3, <3>4, <3>6, SameWords DEF Log!AppendConflicts, Log!TakeEffect
    <3> QED BY <3>5, <3>6
  <2> QED BY <2>2, <2>3
<1>6. ASSUME NEW c \in Clients, pc[c] = "locked"
      PROVE  /\ call[c].key \in Keys /\ phase[c] = "pending"
             /\ heap[call[c].key][entry[c]].messages
                   = TranscriptOf(log[call[c].key], Len(log[call[c].key]), Limit)
             /\ heap[call[c].key][entry[c]].version = Len(log[call[c].key])
  <2>1. call[c].key \in Keys /\ phase[c] = "pending"
    BY <1>6, CallTyped, CallFields, PhaseOf
  <2>2. entry[c] \in Clients /\ entry[c] = entries[call[c].key]
    BY <1>6 DEF ObjectInv, EntryFound
  <2>3. heap[call[c].key][entry[c]] =
           [messages |-> TranscriptOf(log[call[c].key], Len(log[call[c].key]), Limit),
            version |-> Len(log[call[c].key])]
    BY <2>1, <2>2, MemoryStoreAssumption DEF EntryShowsLog
  <2> QED BY <2>1, <2>3
<1>7. ASSUME NEW c \in Clients, ReadEntry(c) PROVE Log!Load(c)
  <2>1. /\ pc[c] = "locked" /\ call[c].kind = "load" /\ UNCHANGED <<log, call>>
        /\ Goto(c, "return")
        /\ result' = [result EXCEPT ![c] = Loaded(heap[call[c].key][entry[c]].messages,
                                                  heap[call[c].key][entry[c]].version)]
    BY <1>7 DEF ReadEntry
  <2>2. phase' = [phase EXCEPT ![c] = "done"]
    BY <2>1, PhaseMove DEF PhaseAt
  <2> QED BY <1>6, <2>1, <2>2, SameWords DEF Log!Load, Log!TakeEffect
<1>8. ASSUME NEW c \in Clients, WriteEntry(c)
      PROVE  Log!AppendCommits(c) \/ Log!AppendSkipped(c)
  <2> DEFINE k == call[c].key
             stale == call[c].kind = "appendIf" /\ heap[k][entry[c]].version # call[c].expected
  <2>1. /\ pc[c] = "locked" /\ call[c].kind # "load" /\ call' = call
        /\ call[c] \in Calls /\ k \in Keys /\ call[c].kind \in OpKinds
    BY <1>8, CallTyped, CallFields DEF WriteEntry
  <2>2. phase[c] = "pending" /\ heap[k][entry[c]].version = Len(log[k])
    BY <1>6, <2>1
  <2>3. CASE stale
    <3>1. /\ log' = log /\ result' = [result EXCEPT ![c] = Reply("skipped")]
          /\ Goto(c, "return")
      BY <1>8, <2>3 DEF WriteEntry
    <3>2. phase' = [phase EXCEPT ![c] = "done"]
      BY <3>1, PhaseMove DEF PhaseAt
    <3> QED BY <2>1, <2>2, <2>3, <3>1, <3>2, SameWords DEF Log!AppendSkipped, Log!TakeEffect
  <2>4. CASE ~stale
    <3>1. /\ log' = [log EXCEPT ![k] = Append(@, RecordOf(call[c]))]
          /\ result' = [result EXCEPT ![c] = Reply("committed")]
          /\ Goto(c, IF call[c].kind = "appendIdem" THEN "record" ELSE "return")
      BY <1>8, <2>4 DEF WriteEntry
    <3>2. phase' = [phase EXCEPT ![c] = "done"]
      BY <3>1, PhaseMove DEF PhaseAt
    <3>3. CommittedUnder(log[k], call[c].idem) = {} \/ call[c].kind # "appendIdem"
      <4> SUFFICES ASSUME call[c].kind = "appendIdem", NEW n \in DOMAIN log[k],
                          log[k][n].idem = call[c].idem
                   PROVE  FALSE
        BY DEF CommittedUnder
      <4>1. HoldsMarker(c)
        BY <2>1 DEF HoldsMarker, HasMarker
      <4> QED BY <2>1, <4>1, HeldUnlogged
    <3>4. Log!MayCommit(c)
      BY <2>1, <2>2, <2>4, <3>3, SameWords DEF Log!MayCommit, OpKinds
    <3> QED BY <2>1, <2>2, <3>1, <3>2, <3>4, SameWords
            DEF Log!AppendCommits, Log!TakeEffect, Log!Commit
  <2> QED BY <2>3, <2>4
<1>9. ASSUME NEW c \in Clients, RecordHash(c) PROVE UNCHANGED Log!logVars
  <2>1. Goto(c, "return") /\ PhaseAt("return") = PhaseAt(pc[c])
        /\ UNCHANGED <<log, call, result>>
    BY <1>9 DEF RecordHash, PhaseAt
  <2> QED BY <2>1, PhaseKept DEF Log!logVars
<1>10. ASSUME NEW c \in Clients, Return(c) PROVE Log!Return(c)
  <2>1. phase[c] = "done" /\ phase' = [phase EXCEPT ![c] = "idle"]
    BY <1>10, PhaseOf, PhaseMove DEF Return, PhaseAt
  <2> QED BY <1>10, <2>1, SameWords DEF Return, Log!Return
<1>11. CASE Done
  BY <1>11 DEF Done, vars, Log!logVars, phase
<1> QED
  BY <1>1, <1>2, <1>3, <1>4, <1>5, <1>7, <1>8, <1>9, <1>10, <1>11
     DEF Next, Step, Log!LogNext

\* Linearizability of MemoryStore: it implements the abstract conversation log,
\* so that what a call returns is what it would have returned alone, at one
\* point of its execution (store.go:80-179).
THEOREM Refinement == Spec => Linearizable
<1>1. Init => Log!LogInit
  BY SameWords DEF Init, Log!LogInit, phase, PhaseAt
<1>2. IInv /\ [Next]_vars => [Log!LogNext]_(Log!logVars)
  BY StepRefines
<1> QED BY <1>1, <1>2, Invariance, PTL DEF Spec, Linearizable, Log!LogSpec
=============================================================================
