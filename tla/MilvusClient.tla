---------------------------- MODULE MilvusClient ----------------------------
(***************************************************************************)
(* NewMilvusClient (src/utility/client/client.go): connects, creates the   *)
(* database and the collection with its indexes where they are missing,    *)
(* and loads the collection.  Every process that needs a client calls it,  *)
(* nothing keeps two calls apart, and a process may end between two steps. *)
(*                                                                         *)
(* The Milvus server is external: a database cannot be created twice, a    *)
(* second creation of a collection may be refused or accepted, an index    *)
(* may be created again, and a collection can be loaded when its vector    *)
(* field has an index.                                                     *)
(***************************************************************************)
EXTENDS Naturals, Sequences, SequencesExt

CONSTANT Processes

VARIABLES
    database,     \* has the server the agent's database?
    collection,   \* has the database the collection?
    indexes,      \* the fields of the collection that have an index
    step,         \* step[p]: where p's call is
    defaults,     \* defaults[p]: connections of p to the default database
    clients       \* clients[p]: connections of p to the agent's database

serverVars == <<database, collection, indexes>>
connections == <<defaults, clients>>

\* Mutant: the vector index first.
MutFields == <<"vector", "id", "content">>

\* The indexes, in the order of their creation
Fields == <<"id", "content", "vector">>

Calls == {"databases", "create database", "collections", "create collection", "index", "load"}

Idle == [call |-> "none", index |-> 1]

MilvusInit(ready) ==
    /\ database = ready /\ collection = ready
    /\ indexes = IF ready THEN ToSet(Fields) ELSE {}
    /\ step = [p \in Processes |-> Idle]
    /\ defaults = [p \in Processes |-> 0]
    /\ clients = [p \in Processes |-> 0]

At(p, call) == step[p].call = call
GotoCall(p, call) == step' = [step EXCEPT ![p] = [call |-> call, index |-> 1]]

ListDatabases(p) ==
    /\ At(p, "databases")
    /\ defaults' = [defaults EXCEPT ![p] = @ + 1]
    /\ GotoCall(p, IF database THEN "collections" ELSE "create database")
    /\ UNCHANGED <<serverVars, clients>>

CreateDatabase(p) ==
    /\ At(p, "create database")
    /\ ~database
    /\ database' = TRUE
    /\ GotoCall(p, "collections")
    /\ UNCHANGED <<collection, indexes, connections>>

ListCollections(p) ==
    /\ At(p, "collections")
    /\ clients' = [clients EXCEPT ![p] = @ + 1]
    /\ GotoCall(p, IF collection THEN "load" ELSE "create collection")
    /\ UNCHANGED <<serverVars, defaults>>

CreateCollection(p) ==
    /\ At(p, "create collection")
    /\ collection' = TRUE
    /\ GotoCall(p, "index")
    /\ UNCHANGED <<database, indexes, connections>>

CreateIndex(p) ==
    /\ At(p, "index")
    /\ indexes' = indexes \cup {Fields[step[p].index]}
    /\ IF step[p].index = Len(Fields)
         THEN GotoCall(p, "load")
         ELSE step' = [step EXCEPT ![p].index = @ + 1]
    /\ UNCHANGED <<database, collection, connections>>

\* The connection to the default database is closed first.
LoadCollection(p) ==
    /\ At(p, "load")
    /\ "vector" \in indexes
    /\ defaults' = [defaults EXCEPT ![p] = @ - 1]
    /\ GotoCall(p, "none")
    /\ UNCHANGED <<serverVars, clients>>

\* A call reports an error: the server is broken, the database exists by now, or the
\* collection has no vector index.  Whatever is connected stays connected, but for the
\* connection to the default database once the collection is about to be loaded.
NewMilvusClientFails(p) ==
    /\ step[p].call \in Calls
    /\ \/ At(p, "databases") /\ \E n \in {0, 1} : defaults' = [defaults EXCEPT ![p] = @ + n]
       \/ At(p, "load") /\ defaults' = [defaults EXCEPT ![p] = @ - 1]
       \/ step[p].call \notin {"databases", "load"} /\ UNCHANGED defaults
    /\ \/ At(p, "collections") /\ \E n \in {0, 1} : clients' = [clients EXCEPT ![p] = @ + n]
       \/ ~At(p, "collections") /\ UNCHANGED clients
    /\ GotoCall(p, "none")
    /\ UNCHANGED serverVars

\* The steps of a call that is not over
Connecting(p) ==
    \/ ListDatabases(p) \/ CreateDatabase(p) \/ ListCollections(p)
    \/ CreateCollection(p) \/ CreateIndex(p)

MilvusTypeOK ==
    /\ database \in BOOLEAN /\ collection \in BOOLEAN
    /\ indexes \subseteq ToSet(Fields)
    /\ step \in [Processes -> [call : Calls \cup {"none"}, index : 1 .. Len(Fields)]]
    /\ defaults \in [Processes -> Nat]
    /\ clients \in [Processes -> Nat]
=============================================================================
