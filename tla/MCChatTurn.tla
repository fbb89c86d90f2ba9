----------------------------- MODULE MCChatTurn -----------------------------
(***************************************************************************)
(* Requests, conversations and processes are interchangeable.              *)
(***************************************************************************)
EXTENDS ChatTurn

Symmetry ==
    Permutations(Requests) \cup Permutations(Keys) \cup Permutations(Instances)

Scenario(locker, faults, places, requests, keys, instances) ==
    [locker |-> locker, faults |-> faults, places |-> places, requests |-> requests,
     keys |-> keys, instances |-> instances]

\* One process without a lock, in which everything may fail: with one place and a
\* registry for one of two conversations, and with two places when it shuts down.
\* Two processes that share the lock: with clients that disconnect, and with three
\* requests of one conversation.
MCTurns ==
    {Scenario(FALSE, {"store", "agent", "send", "cancel"}, 1, 2, 2, 1),
     Scenario(FALSE, {"store", "close"}, 2, 2, 1, 1),
     Scenario(TRUE, {"store", "cancel"}, 2, 2, 1, 2),
     Scenario(TRUE, {}, 2, 3, 1, 2)}

\* Two turns that wait for one place, and two that are queued together when clients
\* may disconnect
MCAnswers ==
    {Scenario(FALSE, {}, 1, 2, 1, 1), Scenario(FALSE, {"cancel"}, 2, 2, 1, 1)}

\* The requests are interchangeable, which liveness cannot take from a symmetry: if the
\* first one streams, so do the others.
SomeRequest == CHOOSE r \in Requests : TRUE

MCInit ==
    /\ Init
    /\ request[SomeRequest].stream => \A r \in Requests : request[r].stream

MCFairSpec == MCInit /\ [][Next]_vars /\ Fairness

MCLeak == {Scenario(FALSE, {"cancel"}, 2, 2, 1, 1)}
=============================================================================
