------------------------------- MODULE Access -------------------------------
(***************************************************************************)
(* Who may use a process: the local JWT service (src/internal/auth) and    *)
(* the policy of the tools (src/internal/ai/tools/policy.go).  A token is  *)
(* kept by its holder and shown to whatever process he likes, so that it   *)
(* outlives the process and the configuration that issued it.              *)
(*                                                                         *)
(* One local user; of him only the roles tell configurations apart.  A     *)
(* signature is valid when the secret is the issuer's.                     *)
(***************************************************************************)
EXTENDS Naturals, FiniteSets

CONSTANTS
    Roles,
    MaxClock       \* bound: seconds

VARIABLES
    clock,
    tokens         \* the tokens issued so far

\* The environment variables of auth
EnvironmentType == [secret : {"", "short", "s1", "s2"}, hash : {"", "bad", "good"},
                    ttl : Nat, roles : SUBSET Roles]

Operator == "operator"

ASSUME AccessAssumption == MaxClock \in Nat /\ Operator \in Roles

\* LoadConfig and NewService: the environments that give a service.  A ttl of 0 stands for
\* a text that is not a positive duration.
Valid(e) ==
    /\ e.secret \notin {"", "short"}
    /\ e.hash = "good"
    /\ e.ttl > 0

\* No role in the environment: operator.
RolesOf(e) == IF e.roles = {} THEN {Operator} ELSE e.roles

TokenType == [secret : {"s1", "s2"}, roles : SUBSET Roles, issued : 0 .. MaxClock,
              expires : Nat]

issue(e) ==
    [secret |-> e.secret, roles |-> RolesOf(e), issued |-> clock, expires |-> clock + e.ttl]

\* Login with the right password; a wrong one changes nothing.
Login(e) == tokens' = tokens \cup {issue(e)} /\ UNCHANGED clock

\* Mutant: the expiry is not looked at.
MutValidate(e, t) == t.secret = e.secret /\ t.issued <= clock

\* A signature by this secret, and the times of the token.
Validate(e, t) == t.secret = e.secret /\ t.issued <= clock /\ clock < t.expires

\* Mutant: any role will do.
MutToolAllowed(policy, roles) == policy = {} \/ roles # {}

\* The policies of newReactAgentLambda name no tenants.
toolAllowed(policy, roles) == policy = {} \/ policy \cap roles # {}
=============================================================================
