-------------------------- MODULE CachedStoreProofs --------------------------
(***************************************************************************)
(* What the cache in front of the primary store promises, for any callers, *)
(* conversations and failures.                                             *)
(***************************************************************************)
EXTENDS CachedStore, TLAPS

\* A call that has not loaded holds no snapshot, and what it has read of the primary store
\* stays true.
CallInv(c) ==
    /\ pc[c] \in {"idle", "get", "version", "messages", "append", "delete"} =>
          snapshot[c] = NoSnapshot
    /\ pc[c] \in {"messages", "delete"} => seen[c] <= committed[key[c]]
SInv == TypeOK /\ SnapshotsCommitted /\ \A c \in Clients : CallInv(c)

\* The callers take turns, and neither cache nor snapshots are behind what was acknowledged.
Orderly == scenario = [serialized |-> TRUE, redisFails |-> FALSE, ambiguous |-> FALSE]
OneCallEach ==
    \A c, d \in Clients : c # d /\ pc[c] # "idle" /\ pc[d] # "idle" => key[c] # key[d]
KeyInv(k) ==
    /\ unknown[k] = {}
    /\ acked[k] <= committed[k]
    /\ cache[k] # NoSnapshot => acked[k] <= cache[k].turns
ViewInv(c) ==
    pc[c] # "idle" =>
        /\ since[c] <= acked[key[c]]
        /\ snapshot[c] # NoSnapshot => acked[key[c]] <= snapshot[c].turns
AInv == Orderly => /\ OneCallEach
                   /\ \A k \in Keys : KeyInv(k)
                   /\ \A c \in Clients : ViewInv(c)
-----------------------------------------------------------------------------
\* The larger of two version numbers.
LEMMA MaxOfTwo ==
    ASSUME NEW a \in Nat, NEW b \in Nat
    PROVE  Max({a, b}) = IF a >= b THEN a ELSE b
<1> DEFINE m == IF a >= b THEN a ELSE b
<1>1. m \in {a, b} /\ \A y \in {a, b} : m >= y
  OBVIOUS
<1>2. Max({a, b}) \in {a, b} /\ \A y \in {a, b} : Max({a, b}) >= y
  BY <1>1 DEF Max
<1> QED BY <1>1, <1>2

\* Every variable keeps its type; a load has something to write or return.
LEMMA TypeStep == TypeOK /\ [Next]_vars => TypeOK'
<1> SUFFICES ASSUME TypeOK, [Next]_vars PROVE TypeOK'
  OBVIOUS
<1> USE CachedStoreAssumption
    DEF TypeOK, vars, primaryVars, callVars, Goto, Labels, Snapshot
<1>1. ASSUME NEW c \in Clients, Invoke(c) PROVE TypeOK'
  BY <1>1 DEF Invoke
<1>2. ASSUME NEW c \in Clients, Get(c) PROVE TypeOK'
  BY <1>2 DEF Get
<1>3. ASSUME NEW c \in Clients, LoadVersion(c) \/ LoadMessages(c) \/ LoadFails(c) PROVE TypeOK'
  BY <1>3 DEF LoadVersion, LoadMessages, LoadFails
<1>4. ASSUME NEW c \in Clients, Set(c) PROVE TypeOK'
  BY <1>4 DEF Set
<1>5. ASSUME NEW c \in Clients, AppendCommits(c) \/ AppendFails(c) \/ AppendSkipped(c) PROVE TypeOK'
  <2>1. CASE AppendCommits(c)
    BY <2>1 DEF AppendCommits
  <2>2. CASE AppendFails(c) \/ AppendSkipped(c)
    BY <2>2 DEF AppendFails, AppendSkipped
  <2> QED BY <1>5, <2>1, <2>2
<1>6. ASSUME NEW c \in Clients, AppendUnacknowledged(c) PROVE TypeOK'
  BY <1>6 DEF AppendUnacknowledged
<1>7. ASSUME NEW c \in Clients, AppendRepeated(c) PROVE TypeOK'
  <2>1. PICK n \in unknown[key[c]] : /\ unknown' = [unknown EXCEPT ![key[c]] = @ \ {n}]
                                     /\ Acknowledge(key[c], n)
    BY <1>7 DEF AppendRepeated
  <2>2. key[c] \in Keys /\ n \in Nat /\ Max({acked[key[c]], n}) \in Nat
    BY MaxOfTwo
  <2>3. acked' \in [Keys -> Nat]
    BY <2>1, <2>2 DEF Acknowledge
  <2>4. unknown' \in [Keys -> SUBSET (Nat \ {0})]
    BY <2>1, <2>2
  <2> QED BY <1>7, <2>3, <2>4 DEF AppendRepeated
<1>8. ASSUME NEW c \in Clients, Delete(c) PROVE TypeOK'
  <2>1. key[c] \in Keys /\ Max({acked[key[c]], seen[c]}) \in Nat
    BY MaxOfTwo
  <2>2. acked' \in [Keys -> Nat]
    BY <1>8, <2>1 DEF Delete, Acknowledge
  <2> QED BY <1>8, <2>2 DEF Delete
<1>9. ASSUME NEW c \in Clients, Return(c) PROVE TypeOK'
  BY <1>9 DEF Return
<1>10. ASSUME NEW k \in Keys, Expire(k) PROVE TypeOK'
  BY <1>10 DEF Expire
<1>11. CASE UNCHANGED vars
  BY <1>11
<1> QED BY <1>1, <1>2, <1>3, <1>4, <1>5, <1>6, <1>7, <1>8, <1>9, <1>10, <1>11
        DEF Next, Step, Done

\* Fills and appends keep the cache and the snapshots to what has been committed.
LEMMA SnapshotStep == SInv /\ [Next]_vars => SInv'
<1> SUFFICES ASSUME SInv, [Next]_vars PROVE SInv'
  OBVIOUS
<1>1. TypeOK /\ TypeOK'
  BY TypeStep DEF SInv
<1> SUFFICES SnapshotsCommitted' /\ \A c \in Clients : CallInv(c)'
  BY <1>1 DEF SInv
<1> USE <1>1, CachedStoreAssumption
    DEF SInv, TypeOK, vars, primaryVars, callVars, Goto, Snapshot, SnapshotsCommitted, Committed, CallInv
<1> DEFINE Goal == SnapshotsCommitted' /\ \A c \in Clients : CallInv(c)'
<1>2. ASSUME NEW c \in Clients, Invoke(c) PROVE Goal
  BY <1>2 DEF Invoke
<1>3. ASSUME NEW c \in Clients, Get(c) PROVE Goal
  BY <1>3 DEF Get
<1>4. ASSUME NEW c \in Clients, LoadVersion(c) \/ LoadFails(c) PROVE Goal
  BY <1>4 DEF LoadVersion, LoadFails
<1>5. ASSUME NEW c \in Clients, LoadMessages(c) PROVE Goal
  BY <1>5 DEF LoadMessages
<1>6. ASSUME NEW c \in Clients, Set(c) PROVE Goal
  BY <1>6 DEF Set
<1>7. ASSUME NEW c \in Clients, AppendCommits(c) \/ AppendUnacknowledged(c) PROVE Goal
  <2>1. /\ committed' = [committed EXCEPT ![key[c]] = @ + 1]
        /\ UNCHANGED <<cache, snapshot, key>> /\ pc[c] = "append"
        /\ pc' = [pc EXCEPT ![c] = "delete"] \/ pc' = [pc EXCEPT ![c] = "failed"]
        /\ seen' = [seen EXCEPT ![c] = committed[key[c]] + 1] \/ UNCHANGED seen
    BY <1>7 DEF AppendCommits, AppendUnacknowledged
  <2>2. \A k \in Keys : committed[k] <= committed'[k]
    BY <2>1
  <2>3. SnapshotsCommitted'
    BY <2>1, <2>2
  <2>4. seen'[c] <= committed'[key[c]] \/ pc'[c] = "failed"
    BY <1>7, <2>1 DEF AppendCommits, AppendUnacknowledged
  <2>5. \A d \in Clients : CallInv(d)'
    BY <2>1, <2>2, <2>4
  <2> QED BY <2>3, <2>5
<1>8. ASSUME NEW c \in Clients, AppendFails(c) \/ AppendSkipped(c) \/ AppendRepeated(c) PROVE Goal
  BY <1>8 DEF AppendFails, AppendSkipped, AppendRepeated
<1>9. ASSUME NEW c \in Clients, Delete(c) PROVE Goal
  BY <1>9 DEF Delete
<1>10. ASSUME NEW c \in Clients, Return(c) PROVE Goal
  BY <1>10 DEF Return
<1>11. ASSUME NEW k \in Keys, Expire(k) PROVE Goal
  BY <1>11 DEF Expire
<1>12. CASE UNCHANGED vars
  BY <1>12
<1> QED BY <1>2, <1>3, <1>4, <1>5, <1>6, <1>7, <1>8, <1>9, <1>10, <1>11, <1>12
        DEF Next, Step, Done

\* Where callers take turns and Redis answers, no fill hides an acknowledged append.
LEMMA AcknowledgedStep == SInv /\ AInv /\ [Next]_vars => AInv'
<1> SUFFICES ASSUME SInv, AInv, [Next]_vars PROVE AInv'
  OBVIOUS
<1>1. TypeOK /\ TypeOK' /\ \A c \in Clients : CallInv(c)
  BY TypeStep DEF SInv
<1>2. scenario' = scenario
  BY DEF Next, Step, Done, vars, callVars, Invoke, Get, LoadVersion, LoadMessages, LoadFails, Set,
         AppendCommits, AppendFails, AppendUnacknowledged, AppendSkipped, AppendRepeated, Delete,
         Return, Expire
<1> SUFFICES ASSUME Orderly
             PROVE  /\ OneCallEach' /\ \A k \in Keys : KeyInv(k)'
                    /\ \A c \in Clients : ViewInv(c)'
  BY <1>2 DEF AInv, Orderly
<1>3. /\ scenario.serialized /\ ~scenario.redisFails /\ ~scenario.ambiguous
      /\ OneCallEach /\ (\A k \in Keys : KeyInv(k)) /\ \A c \in Clients : ViewInv(c)
  BY DEF AInv, Orderly
<1> USE <1>1, <1>3, CachedStoreAssumption
    DEF TypeOK, vars, primaryVars, callVars, Goto, Snapshot, OneCallEach, KeyInv, ViewInv, CallInv
<1> DEFINE Goal == /\ OneCallEach' /\ \A k \in Keys : KeyInv(k)'
                   /\ \A c \in Clients : ViewInv(c)'
<1>4. ASSUME NEW c \in Clients, Invoke(c) PROVE Goal
  BY <1>4 DEF Invoke
<1>5. ASSUME NEW c \in Clients, Get(c) PROVE Goal
  BY <1>5 DEF Get
<1>6. ASSUME NEW c \in Clients, LoadVersion(c) \/ LoadFails(c) PROVE Goal
  BY <1>6 DEF LoadVersion, LoadFails
<1>7. ASSUME NEW c \in Clients, LoadMessages(c) PROVE Goal
  BY <1>7 DEF LoadMessages
<1>8. ASSUME NEW c \in Clients, Set(c) PROVE Goal
  BY <1>8 DEF Set
<1>9. ASSUME NEW c \in Clients, AppendCommits(c) PROVE Goal
  BY <1>9 DEF AppendCommits
<1>10. ASSUME NEW c \in Clients,
              \/ AppendFails(c) \/ AppendSkipped(c)
              \/ AppendUnacknowledged(c) \/ AppendRepeated(c)
       PROVE  Goal
  BY <1>10 DEF AppendFails, AppendSkipped, AppendUnacknowledged, AppendRepeated
<1>11. ASSUME NEW c \in Clients, Delete(c) PROVE Goal
  <2> DEFINE k == key[c]
  <2>1. /\ acked' = [acked EXCEPT ![k] = IF acked[k] >= seen[c] THEN acked[k] ELSE seen[c]]
        /\ k \in Keys /\ snapshot[c] = NoSnapshot /\ seen[c] <= committed[k]
    BY <1>11, MaxOfTwo DEF Delete, Acknowledge
  <2>2. \A d \in Clients : d # c /\ pc[d] # "idle" => key[d] # k
    BY <1>11 DEF Delete
  <2>3. OneCallEach' /\ \A j \in Keys : KeyInv(j)'
    BY <1>11, <2>1 DEF Delete
  <2>4. ASSUME NEW d \in Clients PROVE ViewInv(d)'
    BY <1>11, <2>1, <2>2 DEF Delete
  <2> QED BY <2>3, <2>4
<1>12. ASSUME NEW c \in Clients, Return(c) PROVE Goal
  BY <1>12 DEF Return
<1>13. ASSUME NEW k \in Keys, Expire(k) PROVE Goal
  BY <1>13 DEF Expire
<1>14. CASE UNCHANGED vars
  BY <1>14
<1> QED BY <1>4, <1>5, <1>6, <1>7, <1>8, <1>9, <1>10, <1>11, <1>12, <1>13, <1>14
        DEF Next, Step, Done

\* What was acknowledged is committed, what a call knew of when it began is committed, and a
\* snapshot that is to be written shows it.
PrimaryInv(k) == acked[k] <= committed[k] /\ \A n \in unknown[k] : n <= committed[k]
FillInv(c) ==
    /\ pc[c] # "idle" => since[c] <= committed[key[c]]
    /\ pc[c] = "set" => since[c] <= snapshot[c].turns
FInv == (\A k \in Keys : PrimaryInv(k)) /\ \A c \in Clients : FillInv(c)

\* A load that missed reads the primary store, where everything acknowledged is.
LEMMA FillStep == SInv /\ FInv /\ [Next]_vars => FInv'
<1> SUFFICES ASSUME SInv, FInv, [Next]_vars PROVE FInv'
  OBVIOUS
<1>1. TypeOK /\ TypeOK' /\ (\A c \in Clients : CallInv(c))
  BY TypeStep DEF SInv
<1>2. (\A k \in Keys : PrimaryInv(k)) /\ \A c \in Clients : FillInv(c)
  BY DEF FInv
<1> SUFFICES (\A k \in Keys : PrimaryInv(k)') /\ \A c \in Clients : FillInv(c)'
  BY DEF FInv
<1> USE <1>1, <1>2, CachedStoreAssumption
    DEF TypeOK, vars, primaryVars, callVars, Goto, Snapshot, CallInv, PrimaryInv, FillInv
<1> DEFINE Goal == (\A k \in Keys : PrimaryInv(k)') /\ \A c \in Clients : FillInv(c)'
<1>3. ASSUME NEW c \in Clients, Invoke(c) PROVE Goal
  BY <1>3 DEF Invoke
<1>4. ASSUME NEW c \in Clients, Get(c) PROVE Goal
  BY <1>4 DEF Get
<1>5. ASSUME NEW c \in Clients, LoadVersion(c) \/ LoadFails(c) PROVE Goal
  BY <1>5 DEF LoadVersion, LoadFails
<1>6. ASSUME NEW c \in Clients, LoadMessages(c) PROVE Goal
  BY <1>6 DEF LoadMessages
<1>7. ASSUME NEW c \in Clients, Set(c) PROVE Goal
  BY <1>7 DEF Set
<1>8. ASSUME NEW c \in Clients, AppendCommits(c) PROVE Goal
  BY <1>8 DEF AppendCommits
<1>9. ASSUME NEW c \in Clients, AppendFails(c) \/ AppendSkipped(c) PROVE Goal
  BY <1>9 DEF AppendFails, AppendSkipped
<1>10. ASSUME NEW c \in Clients, AppendUnacknowledged(c) PROVE Goal
  BY <1>10 DEF AppendUnacknowledged
<1>11. ASSUME NEW c \in Clients, AppendRepeated(c) PROVE Goal
  <2>1. PICK n \in unknown[key[c]] : /\ unknown' = [unknown EXCEPT ![key[c]] = @ \ {n}]
                                     /\ Acknowledge(key[c], n)
    BY <1>11 DEF AppendRepeated
  <2>2. key[c] \in Keys /\ n \in Nat /\ n <= committed[key[c]]
    OBVIOUS
  <2>3. acked' = [acked EXCEPT ![key[c]] = IF acked[key[c]] >= n THEN acked[key[c]] ELSE n]
    BY <2>1, <2>2, MaxOfTwo DEF Acknowledge
  <2>4. \A k \in Keys : unknown'[k] \subseteq unknown[k]
    BY <2>1, <2>2
  <2> QED BY <1>11, <2>2, <2>3, <2>4 DEF AppendRepeated
<1>12. ASSUME NEW c \in Clients, Delete(c) PROVE Goal
  <2>1. key[c] \in Keys /\ seen[c] <= committed[key[c]] /\ acked[key[c]] \in Nat /\ seen[c] \in Nat
    BY <1>12 DEF Delete
  <2>2. acked' = [acked EXCEPT ![key[c]] = Max({acked[key[c]], seen[c]})]
    BY <1>12 DEF Delete, Acknowledge
  <2>3. acked' = [acked EXCEPT ![key[c]] = IF acked[key[c]] >= seen[c] THEN acked[key[c]]
                                                                      ELSE seen[c]]
    BY <2>1, <2>2, MaxOfTwo
  <2>4. \A k \in Keys : acked'[k] <= committed[k]
    BY <2>1, <2>3
  <2>5. /\ pc[c] = "delete" /\ pc' = [pc EXCEPT ![c] = "committed"]
        /\ UNCHANGED <<committed, unknown, seen, snapshot, key, since>>
    BY <1>12 DEF Delete
  <2>6. ASSUME NEW k \in Keys PROVE PrimaryInv(k)'
    BY <2>4, <2>5
  <2>7. ASSUME NEW d \in Clients PROVE FillInv(d)'
    BY <2>5
  <2> QED BY <2>6, <2>7
<1>13. ASSUME NEW c \in Clients, Return(c) PROVE Goal
  BY <1>13 DEF Return
<1>14. ASSUME NEW k \in Keys, Expire(k) PROVE Goal
  BY <1>14 DEF Expire
<1>15. CASE UNCHANGED vars
  BY <1>15
<1> QED BY <1>3, <1>4, <1>5, <1>6, <1>7, <1>8, <1>9, <1>10, <1>11, <1>12, <1>13, <1>14, <1>15
        DEF Next, Step, Done

\* At the start nothing is committed, cached or acknowledged.
LEMMA InitCorrect == Init => SInv /\ AInv /\ FInv
BY CachedStoreAssumption
   DEF Init, SInv, AInv, TypeOK, Labels, SnapshotsCommitted, CallInv, OneCallEach, KeyInv, ViewInv,
       FInv, PrimaryInv, FillInv

\* Every variable keeps its type, and a load that is to write the cache or to return has a
\* snapshot (cache.go:38-66).
THEOREM TypeCorrect == Spec => []TypeOK
BY InitCorrect, TypeStep, PTL DEF Spec, SInv

\* The cache and the loads show histories the primary store has been through, their messages
\* never behind their version, whatever fails and whoever calls (cache.go:38-66, 68-96).
THEOREM SnapshotsCorrect == Spec => []SnapshotsCommitted
<1>1. SInv => SnapshotsCommitted
  BY DEF SInv
<1> QED BY <1>1, InitCorrect, SnapshotStep, PTL DEF Spec

\* Under the turn lock, with a Redis that answers and appends that do not deceive, a load shows
\* every turn acknowledged before it started (cache.go:38-96).
THEOREM AcknowledgedCorrect == Spec => []AcknowledgedShown
<1>1. SInv /\ AInv => AcknowledgedShown
  <2> SUFFICES ASSUME SInv, AInv, Orderly, NEW c \in Clients, pc[c] = "loaded"
               PROVE  since[c] <= snapshot[c].turns
    BY DEF AcknowledgedShown, Orderly
  <2>1. key[c] \in Keys /\ since[c] \in Nat /\ acked[key[c]] \in Nat
        /\ snapshot[c] \in Snapshot /\ snapshot[c] # NoSnapshot
    BY DEF SInv, TypeOK
  <2>2. since[c] <= acked[key[c]] /\ acked[key[c]] <= snapshot[c].turns
    BY <2>1 DEF AInv, ViewInv
  <2> QED BY <2>1, <2>2 DEF Snapshot
<1> QED BY <1>1, InitCorrect, SnapshotStep, AcknowledgedStep, PTL DEF Spec

\* Whatever fails and whoever else calls, a load writes into the cache only what shows every turn
\* acknowledged when it began; a stale entry is never written again (cache.go:38-66).
THEOREM FillsFreshCorrect == Spec => []FillsFresh
<1>1. FInv => FillsFresh
  BY DEF FInv, FillInv, FillsFresh
<1> QED BY <1>1, InitCorrect, SnapshotStep, FillStep, PTL DEF Spec
=============================================================================
