------------------------------ MODULE RedisLock ------------------------------
(***************************************************************************)
(* The conversation lock on Redis (src/internal/conversation/lock.go) and  *)
(* the goroutines lockTurn starts for it                                   *)
(* (src/internal/controller/chat/chat_new.go).                             *)
(*                                                                         *)
(* Time is counted in seconds that pass for Redis and for all tickers      *)
(* alike.  Every request locks once, so that the request stands for its    *)
(* random token.                                                           *)
(***************************************************************************)
EXTENDS Integers

CONSTANTS
    Requests,      \* requests, each with its own lock token
    Keys,          \* conversations
    NoOwner,       \* the value of a lock key that is not set
    ConfiguredTtl  \* the ttl given to NewRedisConversationLocker, in seconds

ASSUME LockAssumption ==
    /\ ConfiguredTtl \in Int
    /\ NoOwner \notin Requests

VARIABLES
    owner,     \* owner[k]: the token in Redis
    left,      \* left[k]: seconds until Redis expires it
    renewal,   \* renewal[r]: the renewal goroutine of r, "none" without a lease
    due,       \* due[r]: seconds until its ticker ticks
    late       \* history: late[r]: has a tick of r gone by unserved?

lockVars == <<owner, left, renewal, due, late>>

Ttl == IF ConfiguredTtl <= 0 THEN 30 ELSE ConfiguredTtl

\* Mutant: the ticker ticks with the time to live.
MutInterval == Ttl

\* Seconds between two renewals, never less than one.
Interval == IF Ttl \div 3 < 1 THEN 1 ELSE Ttl \div 3

LockInit ==
    /\ owner = [k \in Keys |-> NoOwner]
    /\ left = [k \in Keys |-> 0]
    /\ renewal = [r \in Requests |-> "none"]
    /\ due = [r \in Requests |-> 0]
    /\ late = [r \in Requests |-> FALSE]

\* Mutant: SET without NX.
MutSetNX(r, k) ==
    /\ owner' = [owner EXCEPT ![k] = r]
    /\ left' = [left EXCEPT ![k] = Ttl]
    /\ renewal' = [renewal EXCEPT ![r] = "on"]
    /\ due' = [due EXCEPT ![r] = Interval]
    /\ UNCHANGED late

\* One round of Lock that finds the key free, and the start of the renewal.
SetNX(r, k) ==
    /\ owner[k] = NoOwner
    /\ owner' = [owner EXCEPT ![k] = r]
    /\ left' = [left EXCEPT ![k] = Ttl]
    /\ renewal' = [renewal EXCEPT ![r] = "on"]
    /\ due' = [due EXCEPT ![r] = Interval]
    /\ UNCHANGED late

\* Redis answers with an error although the key may be set: nobody will renew it.
SetNXFails(r, k) ==
    /\ \/ /\ owner[k] = NoOwner
          /\ owner' = [owner EXCEPT ![k] = r]
          /\ left' = [left EXCEPT ![k] = Ttl]
       \/ UNCHANGED <<owner, left>>
    /\ UNCHANGED <<renewal, due, late>>

\* The ticker ticks and the script finds the token.
Renew(r, k) ==
    /\ renewal[r] = "on"
    /\ due[r] = 0
    /\ owner[k] = r
    /\ left' = [left EXCEPT ![k] = Ttl]
    /\ due' = [due EXCEPT ![r] = Interval]
    /\ UNCHANGED <<owner, renewal, late>>

\* The script finds another token or none; or, where broken, Redis answers with
\* an error, whether or not the script has run.  The goroutine reports and ends.
RenewFails(r, k, broken) ==
    /\ renewal[r] = "on"
    /\ due[r] = 0
    /\ \/ owner[k] # r /\ UNCHANGED left
       \/ broken /\ owner[k] = r /\ left' = [left EXCEPT ![k] = Ttl]
       \/ broken /\ UNCHANGED left
    /\ renewal' = [renewal EXCEPT ![r] = "failed"]
    /\ UNCHANGED <<owner, due, late>>

\* Mutant: DEL whatever the key holds.
MutUnlock(r, k, broken) ==
    /\ renewal' = [renewal EXCEPT ![r] = "off"]
    /\ due' = [due EXCEPT ![r] = 0]
    /\ owner' = [owner EXCEPT ![k] = NoOwner]
    /\ left' = [left EXCEPT ![k] = 0]
    /\ UNCHANGED late

\* releaseLock: cancel ends the renewal, then the script deletes r's own token;
\* its error, and that the token is gone, are dropped.
Unlock(r, k, broken) ==
    /\ renewal' = [renewal EXCEPT ![r] = "off"]
    /\ due' = [due EXCEPT ![r] = 0]
    /\ \/ /\ owner[k] = r
          /\ owner' = [owner EXCEPT ![k] = NoOwner]
          /\ left' = [left EXCEPT ![k] = 0]
       \/ /\ owner[k] # r \/ broken
          /\ UNCHANGED <<owner, left>>
    /\ UNCHANGED late

\* The context of the turn is cancelled, which ends the renewal.
StopRenewal(r) ==
    /\ renewal' = [renewal EXCEPT ![r] = IF @ = "none" THEN @ ELSE "off"]
    /\ due' = [due EXCEPT ![r] = 0]
    /\ UNCHANGED <<owner, left, late>>

\* Is r's process behind: a tick or a report that nobody has served?
Behind(r) == renewal[r] = "failed" \/ (renewal[r] = "on" /\ due[r] = 0)

\* A second passes.  Redis drops a key whose time is over.
Tick ==
    /\ (\E k \in Keys : owner[k] # NoOwner) \/ (\E r \in Requests : due[r] > 0)
    /\ left' = [k \in Keys |-> IF left[k] > 0 THEN left[k] - 1 ELSE 0]
    /\ owner' = [k \in Keys |-> IF left[k] > 1 THEN owner[k] ELSE NoOwner]
    /\ due' = [r \in Requests |-> IF due[r] > 0 THEN due[r] - 1 ELSE 0]
    /\ late' = [r \in Requests |-> late[r] \/ Behind(r)]
    /\ UNCHANGED renewal

LockTypeOK ==
    /\ owner \in [Keys -> Requests \cup {NoOwner}]
    /\ left \in [Keys -> 0 .. Ttl]
    /\ renewal \in [Requests -> {"none", "on", "failed", "off"}]
    /\ due \in [Requests -> 0 .. Interval]
    /\ late \in [Requests -> BOOLEAN]
=============================================================================
