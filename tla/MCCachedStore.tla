--------------------------- MODULE MCCachedStore ---------------------------
(* Constants of CachedStore for TLC. *)
EXTENDS CachedStore

\* Nothing orders the callers and everything fails; the turn lock orders them and nothing does.
MCScenarios ==
    {[serialized |-> FALSE, redisFails |-> TRUE, ambiguous |-> TRUE],
     [serialized |-> TRUE, redisFails |-> FALSE, ambiguous |-> FALSE]}
=============================================================================
