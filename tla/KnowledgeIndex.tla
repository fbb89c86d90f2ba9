--------------------------- MODULE KnowledgeIndex ---------------------------
(***************************************************************************)
(* Indexing of the knowledge files: FileUpload and buildIntoIndex          *)
(* (src/internal/controller/chat/chat_v1_file_upload.go), the walk of      *)
(* src/internal/ai/cmd/knowledge_cmd/main.go, and the graph they invoke    *)
(* (src/internal/ai/agent/knowledge_index_pipeline).                       *)
(*                                                                         *)
(* Milvus is external: a set of rows, in which an insert may leave two     *)
(* rows with one primary key.  What one call writes, the next one reads.   *)
(***************************************************************************)
EXTENDS Integers, Sequences, FiniteSets

CONSTANTS
    Jobs,       \* uploads and walks
    Tenants,
    Files,      \* names of files in FileDir
    Versions,   \* texts of a file
    Shipped,    \* the version in FileDir at first
    ChunksOf    \* ChunksOf[v]: into how many parts the splitter cuts v

ASSUME IndexAssumption ==
    /\ Shipped \in Versions
    /\ ChunksOf \in [Versions -> Nat \ {0}]
    /\ IsFiniteSet(Jobs)

VARIABLES
    job,        \* job[j]: upload or walk, for whom, and what is uploaded
    files,      \* files[f]: what FileDir holds
    rows,       \* the rows of the collection
    pc,         \* pc[j]: where j is
    todo,       \* todo[j]: files the walk has before it
    file,       \* file[j]: the file j indexes
    graph,      \* graph[j]: did BuildKnowledgeIndexing return a graph?
    ids,        \* ids[j]: idsToDelete
    text,       \* text[j]: the version the graph has loaded
    disturbed   \* history: files indexed by two jobs at once, or whose Delete failed

indexVars == <<job, files, rows, pc, todo, file, graph, ids, text, disturbed>>

JobType == [kind : {"upload", "walk"}, tenant : Tenants, file : Files, version : Versions]

\* stableChunkID: the file's name and the part's number, whoever the tenant is.
Id(f, n) == <<f, n>>

\* _source as the loader sets it: FileDir + "/" + name, or the walk's path.
Source(j) == <<job[j].kind, file[j]>>

Row(j, v, n) ==
    [id |-> Id(file[j], n), source |-> Source(j), tenant |-> job[j].tenant, text |-> v, by |-> j]

Active(j) == pc[j] \notin {"start", "done", "failed"}

Goto(j, l) == pc' = [pc EXCEPT ![j] = l]

IndexInit ==
    /\ job \in [Jobs -> JobType]
    /\ files = [f \in Files |-> Shipped]
    /\ rows = {}
    /\ pc = [j \in Jobs |-> "start"]
    /\ todo = [j \in Jobs |-> Files]
    /\ file = [j \in Jobs |-> job[j].file]
    /\ graph = [j \in Jobs |-> FALSE]
    /\ ids = [j \in Jobs |-> {}]
    /\ text = [j \in Jobs |-> Shipped]
    /\ disturbed = {}
-----------------------------------------------------------------------------
Take(j, f) ==
    /\ file' = [file EXCEPT ![j] = f]
    /\ disturbed' = disturbed \cup {g \in {f} : \E i \in Jobs \ {j} : Active(i) /\ file[i] = f}
    /\ Goto(j, "prepare")

\* Mutant: a file that exists is kept, as with a random new name.
MutSave(j) ==
    /\ pc[j] = "start"
    /\ job[j].kind = "upload"
    /\ Take(j, job[j].file)
    /\ graph' \in {[graph EXCEPT ![j] = TRUE], [graph EXCEPT ![j] = FALSE]}
    /\ UNCHANGED <<job, files, rows, todo, ids, text>>

\* FileUpload saves the file over the one of that name.
Save(j) ==
    /\ pc[j] = "start"
    /\ job[j].kind = "upload"
    /\ files' = [files EXCEPT ![job[j].file] = job[j].version]
    /\ Take(j, job[j].file)
    /\ graph' \in {[graph EXCEPT ![j] = TRUE], [graph EXCEPT ![j] = FALSE]}
    /\ UNCHANGED <<job, rows, todo, ids, text>>

\* The walk builds its graph once, and panics without one.
Visit(j, f) ==
    /\ pc[j] = "start"
    /\ job[j].kind = "walk"
    /\ f \in todo[j]
    /\ todo' = [todo EXCEPT ![j] = @ \ {f}]
    /\ Take(j, f)
    /\ graph' = [graph EXCEPT ![j] = TRUE]
    /\ UNCHANGED <<job, files, rows, ids, text>>

\* Any error ends an upload, and the whole walk: saving, the graph of the walk,
\* the loader, the Milvus client, the query, and the graph's own steps.
Fails(j) ==
    /\ pc[j] \in {"start", "prepare", "load"}
    /\ Goto(j, "failed")
    /\ UNCHANGED <<job, files, rows, todo, file, graph, ids, text, disturbed>>

\* The ids of the rows with the same source; only the walk asks for the tenant.
Query(j) ==
    /\ pc[j] = "prepare"
    /\ ids' = [ids EXCEPT ![j] =
                  {w.id : w \in {u \in rows :
                      u.source = Source(j) /\ (job[j].kind = "walk" => u.tenant = job[j].tenant)}}]
    /\ Goto(j, "delete")
    /\ UNCHANGED <<job, files, rows, todo, file, graph, text, disturbed>>

\* Mutant: the expression matches nothing.
MutDelete(j) ==
    /\ pc[j] = "delete"
    /\ Goto(j, "load")
    /\ UNCHANGED <<job, files, rows, todo, file, graph, ids, text, disturbed>>

\* Delete by id; that it failed is only printed.
Delete(j) ==
    /\ pc[j] = "delete"
    /\ \/ /\ rows' = {w \in rows : w.id \notin ids[j]}
          /\ UNCHANGED disturbed
       \/ /\ ids[j] # {}
          /\ disturbed' = disturbed \cup {file[j]}
          /\ UNCHANGED rows
    /\ Goto(j, "load")
    /\ UNCHANGED <<job, files, todo, file, graph, ids, text>>

\* Invoke on a nil graph panics.  Otherwise the graph loads the file once more.
Load(j) ==
    /\ pc[j] = "load"
    /\ graph[j]
    /\ text' = [text EXCEPT ![j] = files[file[j]]]
    /\ Goto(j, "insert")
    /\ UNCHANGED <<job, files, rows, todo, file, graph, ids, disturbed>>

\* The splitter's parts, each with the tenant the transformer adds.
NewRows(j) == {Row(j, text[j], n) : n \in 1 .. ChunksOf[text[j]]}

\* The indexer embeds and inserts all parts in one call, which may report an error.
Insert(j) ==
    /\ pc[j] = "insert"
    /\ \/ /\ rows' = rows \cup NewRows(j)
          /\ Goto(j, IF job[j].kind = "walk" /\ todo[j] # {} THEN "start" ELSE "done")
       \/ /\ rows' \in {rows, rows \cup NewRows(j)}
          /\ Goto(j, "failed")
    /\ UNCHANGED <<job, files, todo, file, graph, ids, text, disturbed>>

Index(j) ==
    \/ Save(j) \/ Fails(j) \/ Query(j) \/ Delete(j) \/ Load(j) \/ Insert(j)
    \/ \E f \in Files : Visit(j, f)

IndexDone == \A j \in Jobs : pc[j] \in {"done", "failed"}
-----------------------------------------------------------------------------
IndexTypeOK ==
    /\ job \in [Jobs -> JobType]
    /\ files \in [Files -> Versions]
    /\ rows \subseteq [id : Files \X Nat, source : {"upload", "walk"} \X Files, tenant : Tenants,
                       text : Versions, by : Jobs]
    /\ pc \in [Jobs -> {"start", "prepare", "delete", "load", "insert", "done", "failed"}]
    /\ todo \in [Jobs -> SUBSET Files]
    /\ file \in [Jobs -> Files]
    /\ graph \in [Jobs -> BOOLEAN]
    /\ ids \in [Jobs -> SUBSET (Files \X Nat)]
    /\ text \in [Jobs -> Versions]
    /\ disturbed \subseteq Files

\* The jobs that index f sooner or later.
Indexers(f) == {j \in Jobs : job[j].kind = "walk" \/ job[j].file = f}

\* Uploads alone, or walks for one tenant alone, index f.
OneSource(f) ==
    \A i, j \in Indexers(f) :
        /\ job[i].kind = job[j].kind
        /\ job[i].kind = "walk" => job[i].tenant = job[j].tenant

OneTenant(f) == \A i, j \in Indexers(f) : job[i].tenant = job[j].tenant

RowsOf(f) == {w \in rows : w.id[1] = f}

\* A file that no two jobs index at once is in the collection whole or not at
\* all whenever nobody is at work on it, in one version and from one job, also
\* after failures between Delete and Insert (chat_v1_file_upload.go:83-117,
\* knowledge_cmd/main.go:68-100).
FilesWhole ==
    \A f \in Files :
        OneSource(f) /\ f \notin disturbed /\ (\A j \in Jobs : Active(j) => file[j] # f) =>
            \/ RowsOf(f) = {}
            \/ \E w \in RowsOf(f) :
                  /\ \A u \in RowsOf(f) : u.by = w.by /\ u.text = w.text
                  /\ {u.id : u \in RowsOf(f)} = {Id(f, n) : n \in 1 .. ChunksOf[w.text]}

\* An upload that succeeds, with nobody else at work on the file, has put the
\* version it saved into the collection (chat_v1_file_upload.go:45-66).
UploadIndexed ==
    [][\A j \in Jobs :
          /\ job[j].kind = "upload" /\ OneSource(file[j]) /\ file[j] \notin disturbed
          /\ pc[j] # "done" /\ pc'[j] = "done"
          => {w.text : w \in RowsOf(file[j])'} = {job[j].version}]_indexVars
=============================================================================
