------------------------------ MODULE Retriever ------------------------------
(***************************************************************************)
(* Retrieval from the knowledge base while files are indexed: Retrieve     *)
(* (src/internal/ai/retriever/retriever.go) behind the intent router of    *)
(* the chat pipeline, and for the tool query_internal_docs.                *)
(*                                                                         *)
(* A query is its tenant and whether the router lets it through.  Search   *)
(* and Get are two calls of Milvus, between which the rows may change.     *)
(***************************************************************************)
EXTENDS KnowledgeIndex

CONSTANTS
    TopK,        \* retriever.top_k, or the caller's option
    Threshold,   \* retriever.distance_threshold, 0 when there is none
    Distance     \* Distance[v]: from the query to the first part of v

ASSUME RetrieverAssumption ==
    /\ TopK \in Nat \ {0}
    /\ Threshold \in Nat
    /\ Distance \in [Versions -> Nat]

VARIABLES
    query,     \* the query: its tenant and the way it comes
    phase,     \* where Retrieve is
    hits,      \* hits after filterHits
    docs,      \* what Retrieve returns
    touched    \* history: files whose rows changed between Search and Get

retrievalVars == <<query, phase, hits, docs, touched>>
vars == <<indexVars, retrievalVars>>

\* The parts of a text are one further than the other from the query.
DistanceOf(w) == Distance[w.text] + w.id[2] - 1

\* External: the k rows of S nearest to the query, in order, ties in any order.
Nearest(S, k) ==
    LET m == IF Cardinality(S) < k THEN Cardinality(S) ELSE k
    IN {q \in [1 .. m -> S] :
           /\ \A a, b \in 1 .. m : a < b => q[a] # q[b] /\ DistanceOf(q[a]) <= DistanceOf(q[b])
           /\ \A w \in S : (\A a \in 1 .. m : q[a] # w) =>
                 \A a \in 1 .. m : DistanceOf(q[a]) <= DistanceOf(w)}

\* The rows the tenant filter lets through.
Visible == {w \in rows : w.tenant = query.tenant}

searchHits(q) ==
    [n \in DOMAIN q |-> [id |-> q[n].id, distance |-> DistanceOf(q[n]), rank |-> n, row |-> q[n]]]

\* Mutant: the distances are taken for similarities.
MutFilterHits(h) == SelectSeq(h, LAMBDA x : Threshold <= x.distance)

\* The hits that are near enough, in their order.
filterHits(h) ==
    LET kept[n \in 0 .. Len(h)] ==
            IF n = 0 THEN <<>>
            ELSE IF h[n].distance <= Threshold THEN Append(kept[n - 1], h[n]) ELSE kept[n - 1]
    IN IF Threshold = 0 THEN h ELSE kept[Len(h)]

\* Mutant: the documents in the order of their ids.
MutDocumentsForHits(h, get) ==
    [n \in DOMAIN h |->
        LET m == CHOOSE m \in DOMAIN h :
                    Cardinality({a \in DOMAIN h : h[a].id[2] < h[m].id[2]}) <= n - 1
                 /\ Cardinality({a \in DOMAIN h : h[a].id[2] <= h[m].id[2]}) >= n
        IN [row |-> get[h[m].id], rank |-> h[m].rank, distance |-> h[m].distance]]

\* One document per hit.  Hits with one id share a document, so that the last
\* one's rank and distance stand.
documentsForHits(h, get) ==
    [n \in DOMAIN h |->
        LET m == CHOOSE m \in DOMAIN h :
                    h[m].id = h[n].id /\ \A a \in DOMAIN h : h[a].id = h[n].id => a <= m
        IN [row |-> get[h[n].id], rank |-> h[m].rank, distance |-> h[m].distance]]
-----------------------------------------------------------------------------
\* Small talk needs no documents.
shouldRetrieve == query.way # "smalltalk"

\* intentAwareRetriever answers it without the delegate.
Skip ==
    /\ phase = "start"
    /\ ~shouldRetrieve
    /\ phase' = "done"
    /\ UNCHANGED <<indexVars, query, hits, docs, touched>>

\* Mutant: no tenant filter.
MutSearch ==
    /\ phase = "start"
    /\ shouldRetrieve
    /\ \E q \in Nearest(rows, TopK) : hits' = filterHits(searchHits(q))
    /\ phase' = IF hits' = <<>> THEN "done" ELSE "get"
    /\ touched' = {}
    /\ UNCHANGED <<indexVars, query, docs>>

\* Retrieve up to the search, the filter by distance, and the empty result.
Search ==
    /\ phase = "start"
    /\ shouldRetrieve
    /\ \E q \in Nearest(Visible, TopK) : hits' = filterHits(searchHits(q))
    /\ phase' = IF hits' = <<>> THEN "done" ELSE "get"
    /\ touched' = {}
    /\ UNCHANGED <<indexVars, query, docs>>

\* The documents by their ids, from the rows of all tenants.  External: of the
\* rows with one id Milvus returns any one.
Get ==
    /\ phase = "get"
    /\ LET wanted == {hits[n].id : n \in DOMAIN hits} IN
       \/ \E get \in [wanted -> rows] :
             /\ \A i \in wanted : get[i].id = i
             /\ docs' = documentsForHits(hits, get)
             /\ phase' = "done"
       \/ /\ \E i \in wanted : \A w \in rows : w.id # i
          /\ phase' = "failed"
          /\ UNCHANGED docs
    /\ UNCHANGED <<indexVars, query, hits, touched>>

\* The embedder or Milvus reports an error, or its answer does not fit together.
\* Any error ends the server when the tool called: log.Fatal.
RetrieveFails ==
    /\ phase \in {"start", "get"}
    /\ shouldRetrieve
    /\ phase' = IF query.way = "tool" THEN "exited" ELSE "failed"
    /\ UNCHANGED <<indexVars, query, hits, docs, touched>>

Init ==
    /\ IndexInit
    /\ query \in [tenant : Tenants, way : {"chat", "tool", "smalltalk"}]
    /\ phase = "start"
    /\ hits = <<>>
    /\ docs = <<>>
    /\ touched = {}

Indexing ==
    /\ \E j \in Jobs : Index(j)
    /\ touched' = touched \cup {w.id[1] : w \in (rows \ rows') \cup (rows' \ rows)}
    /\ UNCHANGED <<query, phase, hits, docs>>

Over == IndexDone /\ phase \in {"done", "failed", "exited"} /\ UNCHANGED vars

Next == Indexing \/ Skip \/ Search \/ Get \/ RetrieveFails \/ Over

Spec == Init /\ [][Next]_vars
-----------------------------------------------------------------------------
HitType == [id : Files \X Nat, distance : Nat, rank : Nat \ {0}]

\* Every variable keeps its shape; no document comes back without a search.
TypeOK ==
    /\ IndexTypeOK
    /\ query \in [tenant : Tenants, way : {"chat", "tool", "smalltalk"}]
    /\ phase \in {"start", "get", "done", "failed", "exited"}
    /\ \A n \in DOMAIN hits : [x \in {"id", "distance", "rank"} |-> hits[n][x]] \in HitType
    /\ Len(hits) <= TopK
    /\ Len(docs) \in {0, Len(hits)}
    /\ touched \subseteq Files

\* Documents come nearest first, none beyond the threshold, and each says its
\* place, unless two rows had one id (retriever.go:149-160, 183-210, 212-237).
DocumentsRanked ==
    (\A m, n \in DOMAIN hits : m # n => hits[m].id # hits[n].id) =>
        \A n \in DOMAIN docs :
            /\ docs[n].rank = n
            /\ Threshold > 0 => docs[n].distance <= Threshold
            /\ \A m \in 1 .. n : docs[m].distance <= docs[n].distance

\* A document is the part that was found, with its distance, if its file is indexed
\* from one source, one job at a time, and its rows did not change between Search
\* and Get (retriever.go:124-147).
DocumentsFound ==
    \A n \in DOMAIN docs :
        LET f == hits[n].id[1] IN
        OneSource(f) /\ f \notin disturbed /\ f \notin touched => docs[n].row = hits[n].row

\* A tenant gets documents of its own from every file that only one tenant indexes,
\* however indexing runs between Search and Get (retriever.go:74-78, 169-175).
OwnDocuments ==
    \A n \in DOMAIN docs : OneTenant(hits[n].id[1]) => docs[n].row.tenant = query.tenant

\* A user cannot retrieve another tenant's documents, even with identical
\* document ids (the roadmap's acceptance of tenant isolation).
TenantIsolated == \A n \in DOMAIN docs : docs[n].row.tenant = query.tenant
=============================================================================
