------------------------------ MODULE MCServer ------------------------------
(* Constants of Server for TLC. *)
EXTENDS Server, TLC

Symmetry == Permutations(Processes)

Config(secret, ttl, roles, backend, redis, otel) ==
    [env |-> [secret |-> secret, hash |-> "good", ttl |-> ttl, roles |-> roles],
     store |-> [backend |-> backend, dsn |-> TRUE, max |-> 3, ttl |-> TRUE, redis |-> redis],
     otel |-> otel]

Operators == Config("s1", 1, {}, "memory", "", FALSE)
Viewers == Config("s1", 2, {"viewer"}, "postgres", "", FALSE)
Rotated == Config("s2", 1, {"viewer"}, "", "", FALSE)
Full == Config("s1", 1, {}, "postgres", "good", TRUE)
BrokenRedis == Config("s1", 1, {}, "postgres", "bad", TRUE)
NoSecret == Config("", 1, {}, "memory", "", FALSE)

\* Two processes at a new Milvus; one process and services that fail; changes of the user's
\* role and of the secret
MCScenarios ==
    {[configs |-> {Full}, faults |-> {"new", "milvus", "kill"}, starts |-> 3, calls |-> 1],
     [configs |-> {Full, BrokenRedis, NoSecret}, faults |-> {"service"}, starts |-> 2, calls |-> 0],
     [configs |-> {Operators, Viewers, Rotated}, faults |-> {"time"}, starts |-> 2, calls |-> 0]}
=============================================================================
