------------------------------ MODULE TurnLoop ------------------------------
(***************************************************************************)
(* The turn loops of a process: one goroutine per conversation that builds *)
(* and runs the queued turns one after the other                           *)
(* (src/internal/conversation/turn_loop.go), and the registry that hands   *)
(* them out and stops them (turn_loop_registry.go).                        *)
(*                                                                         *)
(* A session is known by the request that created it.  eino's TurnLoop is  *)
(* external: it takes all that is queued at once, passes it to GenInput,   *)
(* puts back in front what GenInput did not consume, and ends when         *)
(* GenInput or OnAgentEvents returns an error, or when it is stopped.      *)
(* What a turn's build and emit callbacks do is in module ChatTurn.        *)
(***************************************************************************)
EXTENDS Integers, FiniteSets, SequencesExt

CONSTANTS
    Instances,     \* processes of the service, each with its own registry
    Keys,          \* conversations
    Requests,      \* chat requests, each of which pushes one turn
    NoSession,
    MaxSessions    \* maxSessions of each registry

ASSUME TurnLoopAssumption ==
    /\ NoSession \notin Requests
    /\ MaxSessions \in Nat \ {0}
    /\ IsFiniteSet(Instances)

VARIABLES
    session,    \* session[s]: the TurnLoopSession and its loop
    registry,   \* registry[i][k]: the session in the map of process i
    sweep,      \* sweep[i]: sessions taken off the map that are still to be stopped
    mine        \* mine[r]: the session r's handler got

loopVars == <<session, registry, sweep, mine>>

\* The session before it is created: no loop, nothing queued.
NoLoop == [loop |-> "none", buffer |-> <<>>, items |-> <<>>, index |-> 0,
           turn |-> NoSession, event |-> "none", after |-> "none",
           active |-> 0, stopped |-> FALSE]

LoopInit ==
    /\ session = [s \in Requests |-> NoLoop]
    /\ registry = [i \in Instances |-> [k \in Keys |-> NoSession]]
    /\ sweep = [i \in Instances |-> {}]
    /\ mine = [r \in Requests |-> NoSession]

At(s, l) == session[s].loop = l
-----------------------------------------------------------------------------
\* GetOrCreate, under the registry's mutex.
Registered(i) == {k \in Keys : registry[i][k] # NoSession}
Reusable(i, k) == registry[i][k] # NoSession /\ ~session[registry[i][k]].stopped
HasRoom(i, k) == Cardinality(Registered(i) \ {k}) < MaxSessions

ReuseSession(r, i, k) ==
    /\ Reusable(i, k)
    /\ mine' = [mine EXCEPT ![r] = registry[i][k]]
    /\ UNCHANGED <<session, registry, sweep>>

CreateSession(r, i, k) ==
    /\ ~Reusable(i, k)
    /\ HasRoom(i, k)
    /\ session' = [session EXCEPT ![r].loop = "ready"]
    /\ registry' = [registry EXCEPT ![i][k] = r]
    /\ mine' = [mine EXCEPT ![r] = r]
    /\ UNCHANGED sweep

RegistryFull(i, k) ==
    /\ ~Reusable(i, k)
    /\ ~HasRoom(i, k)
    /\ registry' = [registry EXCEPT ![i][k] = NoSession]
    /\ UNCHANGED <<session, sweep, mine>>
-----------------------------------------------------------------------------
\* push: active is counted up before the loop is asked, and down again if it
\* refuses.
Refuses(s) == session[s].stopped \/ At(s, "ended")

CountActive(r) ==
    /\ ~session[mine[r]].stopped
    /\ session' = [session EXCEPT ![mine[r]].active = @ + 1]
    /\ UNCHANGED <<registry, sweep, mine>>

Enqueue(r) ==
    /\ ~Refuses(mine[r])
    /\ session' = [session EXCEPT ![mine[r]].buffer = Append(@, r)]
    /\ UNCHANGED <<registry, sweep, mine>>

Refuse(r) ==
    /\ Refuses(mine[r])
    /\ session' = [session EXCEPT ![mine[r]].active = @ - 1]
    /\ UNCHANGED <<registry, sweep, mine>>
-----------------------------------------------------------------------------
\* The loop wakes up and calls GenInput on everything queued.
TakeItems(s) ==
    /\ At(s, "ready")
    /\ ~session[s].stopped
    /\ session[s].buffer # <<>>
    /\ session' = [session EXCEPT ![s].loop = "gen", ![s].items = session[s].buffer,
                                  ![s].index = 1, ![s].buffer = <<>>]
    /\ UNCHANGED <<registry, sweep, mine>>

\* The item GenInput looks at.
Building(s) == At(s, "gen") /\ session[s].index <= Len(session[s].items)
Item(s) == session[s].items[session[s].index]

\* Mutant: nothing remains.
MutStartTurn(s) ==
    /\ session' = [session EXCEPT
          ![s].loop = "run", ![s].turn = Item(s), ![s].items = <<>>, ![s].index = 0]
    /\ UNCHANGED <<registry, sweep, mine>>

\* GenInput returns an item whose input was built; all the others remain,
\* those whose build has failed too.
StartTurn(s) ==
    /\ session' = [session EXCEPT
          ![s].loop = "run", ![s].turn = Item(s), ![s].items = <<>>, ![s].index = 0,
          ![s].buffer = RemoveAt(session[s].items, session[s].index) \o @]
    /\ UNCHANGED <<registry, sweep, mine>>

\* The loop calls emit for turn r; the loop goes to after when emit returns.
CallEmit(s, r, event, after) ==
    /\ session' = [session EXCEPT
          ![s].loop = "emit", ![s].turn = r, ![s].event = event, ![s].after = after,
          ![s].index = IF At(s, "gen") THEN @ + 1 ELSE @]
    /\ UNCHANGED <<registry, sweep, mine>>

\* emit returns.  wrappedEmit counts active down at an event that ends a turn,
\* as often as there is one.
EmitReturns(s) ==
    /\ session' = [session EXCEPT
          ![s].loop = session[s].after, ![s].event = "none", ![s].after = "none",
          ![s].turn = IF session[s].after = "run" THEN @ ELSE NoSession,
          ![s].active = IF session[s].event = "message" THEN @ ELSE @ - 1]
    /\ UNCHANGED <<registry, sweep, mine>>

\* No item could be built: GenInput returns ErrTurnInput and the loop ends.
GenInputFails(s) ==
    /\ At(s, "gen")
    /\ session[s].index > Len(session[s].items)
    /\ session' = [session EXCEPT ![s].loop = "ended"]
    /\ UNCHANGED <<registry, sweep, mine>>

\* The loop notices Stop, or the end of the context it was started with,
\* between two turns; what is queued is dropped.
LoopStops(s) ==
    /\ session[s].loop \in {"ready", "gen"}
    /\ session' = [session EXCEPT ![s].loop = "ended"]
    /\ UNCHANGED <<registry, sweep, mine>>
-----------------------------------------------------------------------------
Without(i, S) ==
    [k \in Keys |-> IF registry[i][k] \in S THEN NoSession ELSE registry[i][k]]
Sessions(i) == {registry[i][k] : k \in Registered(i)}

\* IsIdleSince; how long a session has been unused is left open.
Idle(s) == ~session[s].stopped /\ session[s].active = 0

\* evictIdle decides and unregisters under the mutex, and stops afterwards.
EvictIdle(i) ==
    /\ sweep[i] = {}
    /\ \E S \in SUBSET Sessions(i) :
          /\ S # {}
          /\ \A s \in S : Idle(s)
          /\ sweep' = [sweep EXCEPT ![i] = S]
          /\ registry' = [registry EXCEPT ![i] = Without(i, S)]
    /\ UNCHANGED <<session, mine>>

\* StopAll, once the janitor has finished its sweep.
UnregisterAll(i) ==
    /\ sweep[i] = {}
    /\ sweep' = [sweep EXCEPT ![i] = Sessions(i)]
    /\ registry' = [registry EXCEPT ![i] = [k \in Keys |-> NoSession]]
    /\ UNCHANGED <<session, mine>>

\* Stop, one session after the other: the next one when the last has ended.
Waiting(i) == {s \in sweep[i] : session[s].stopped}

StopSession(i, s) ==
    /\ s \in sweep[i]
    /\ Waiting(i) = {}
    /\ session' = [session EXCEPT ![s].stopped = TRUE]
    /\ UNCHANGED <<registry, sweep, mine>>

StopReturns(i, s) ==
    /\ s \in Waiting(i)
    /\ sweep' = [sweep EXCEPT ![i] = @ \ {s}]
    /\ UNCHANGED <<session, registry, mine>>
=============================================================================
