----------------------------- MODULE RunLimiter -----------------------------
(***************************************************************************)
(* The limiter of concurrent turns of each process                         *)
(* (src/internal/conversation/run_limiter.go): a channel with a number of  *)
(* places and a channel that is closed at shutdown.  Its callers' waiting  *)
(* and cancellation are in module ChatTurn.                                *)
(***************************************************************************)
EXTENDS Integers

CONSTANT Instances   \* processes of the service, each with its own limiter

VARIABLES
    tokens,   \* tokens[i]: the places taken
    closed    \* closed[i]: is the limiter shut down?

LimiterInit ==
    /\ tokens = [i \in Instances |-> 0]
    /\ closed = [i \in Instances |-> FALSE]

\* Acquire's second select: a place may be taken although the limiter has been
\* shut down since the first select found it open.
TakeToken(i, places) ==
    /\ tokens[i] < places
    /\ tokens' = [tokens EXCEPT ![i] = @ + 1]
    /\ UNCHANGED closed

\* Release takes one element out of the channel, whoever put it there.
GiveToken(i) ==
    /\ tokens' = [tokens EXCEPT ![i] = IF @ > 0 THEN @ - 1 ELSE 0]
    /\ UNCHANGED closed

CloseLimiter(i) ==
    /\ closed' = [closed EXCEPT ![i] = TRUE]
    /\ UNCHANGED tokens
=============================================================================
