---------------------------- MODULE RetrieverProofs ----------------------------
(***************************************************************************)
(* Files are in the collection whole or not at all, and retrieval finds    *)
(* documents of the tenant, the ones it searched for and in their order,   *)
(* for any jobs, tenants, files, texts, top_k and threshold.               *)
(***************************************************************************)
EXTENDS Retriever, FiniteSetTheorems, WellFoundedInduction, TLAPS

RowType == [id : Files \X Nat, source : {"upload", "walk"} \X Files, tenant : Tenants,
            text : Versions, by : Jobs]

\* The type invariant of the index in two parts.
JobsTypeOK ==
    /\ job \in [Jobs -> JobType]
    /\ files \in [Files -> Versions]
    /\ pc \in [Jobs -> {"start", "prepare", "delete", "load", "insert", "done", "failed"}]
    /\ todo \in [Jobs -> SUBSET Files]
    /\ file \in [Jobs -> Files]
    /\ graph \in [Jobs -> BOOLEAN]
    /\ ids \in [Jobs -> SUBSET (Files \X Nat)]
    /\ text \in [Jobs -> Versions]
    /\ disturbed \subseteq Files
RowsTypeOK == (\A w \in rows : w \in RowType) /\ IsFiniteSet(rows)

\* A job works on its own file, and deletes rows of that file.
JobInv(j) ==
    /\ job[j].kind = "upload" => file[j] = job[j].file
    /\ pc[j] = "delete" => \A i \in ids[j] : i[1] = file[j]

\* A row tells who inserted it, and for whom.
RowInv(w) ==
    /\ w.by \in Indexers(w.id[1])
    /\ w.source = <<job[w.by].kind, w.id[1]>>
    /\ w.tenant = job[w.by].tenant

\* The rows of a file are all the parts of one version, from one job, or there are none.
Complete(f) ==
    \/ RowsOf(f) = {}
    \/ \E w \in RowsOf(f) :
          /\ \A u \in RowsOf(f) : u.by = w.by /\ u.text = w.text
          /\ {u.id : u \in RowsOf(f)} = {Id(f, n) : n \in 1 .. ChunksOf[w.text]}

\* One job at a time is at work on a file; it deletes all its rows before it inserts, and an
\* upload inserts what it saved.
Working(j, f) == Active(j) /\ file[j] = f
Settled(f) == OneSource(f) /\ f \notin disturbed
AloneInv(f) == \A i, j \in Jobs : Working(i, f) /\ Working(j, f) => i = j
ReplaceInv(j, f) ==
    /\ pc[j] = "delete" => \A w \in RowsOf(f) : w.id \in ids[j]
    /\ pc[j] \in {"load", "insert"} => RowsOf(f) = {}
SavedInv(j, f) ==
    job[j].kind = "upload" =>
       /\ files[f] = job[j].version
       /\ pc[j] = "insert" => text[j] = job[j].version
FileInv(f) ==
    Settled(f) =>
       /\ AloneInv(f) /\ Complete(f)
       /\ \A j \in Jobs : Working(j, f) => ReplaceInv(j, f) /\ SavedInv(j, f)

IndexInv ==
    /\ JobsTypeOK /\ RowsTypeOK
    /\ \A j \in Jobs : JobInv(j)
    /\ \A w \in rows : RowInv(w)
    /\ \A f \in Files : FileInv(f)

IndexNext == (\E j \in Jobs : Index(j)) \/ UNCHANGED indexVars
-----------------------------------------------------------------------------
\* What the statements of a job do to the rows.
LEMMA RowsStep ==
    ASSUME NEW j \in Jobs, Index(j)
    PROVE  \/ rows' = rows
           \/ pc[j] = "delete" /\ rows' = {w \in rows : w.id \notin ids[j]}
           \/ pc[j] = "insert" /\ rows' = rows \cup NewRows(j)
BY DEF Index, Save, Fails, Query, Delete, Load, Insert, Visit, Take

\* What they leave alone.
LEMMA OthersStep ==
    ASSUME JobsTypeOK, NEW j \in Jobs, Index(j)
    PROVE  /\ job' = job /\ disturbed \subseteq disturbed'
           /\ \A i \in Jobs \ {j} : UNCHANGED <<pc[i], file[i], ids[i], text[i]>>
<1> USE DEF JobsTypeOK, Goto
<1>1. CASE Save(j) \/ \E f \in Files : Visit(j, f)
  BY <1>1 DEF Save, Visit, Take
<1>2. CASE Fails(j) \/ Delete(j)
  BY <1>2 DEF Fails, Delete
<1>3. CASE Query(j) \/ Load(j) \/ Insert(j)
  BY <1>3 DEF Query, Load, Insert
<1> QED BY <1>1, <1>2, <1>3 DEF Index

\* The rows a job inserts are its own.
LEMMA NewRowsType ==
    ASSUME JobsTypeOK, NEW j \in Jobs, JobInv(j)
    PROVE  /\ \A w \in NewRows(j) : w \in RowType /\ RowInv(w) /\ w.id[1] = file[j]
                                    /\ w.by = j /\ w.text = text[j]
           /\ {w.id : w \in NewRows(j)} = {Id(file[j], n) : n \in 1 .. ChunksOf[text[j]]}
           /\ \E w \in NewRows(j) : TRUE
           /\ IsFiniteSet(NewRows(j))
<1> DEFINE N == ChunksOf[text[j]]
           R(n) == Row(j, text[j], n)
<1>1. /\ file[j] \in Files /\ text[j] \in Versions /\ job[j].kind \in {"upload", "walk"}
      /\ job[j].tenant \in Tenants /\ N \in Nat \ {0}
  BY IndexAssumption DEF JobsTypeOK, JobType
<1>2. \A n \in 1 .. N : /\ R(n) \in RowType /\ R(n).id = Id(file[j], n) /\ R(n).id[1] = file[j]
                        /\ R(n).by = j /\ R(n).text = text[j] /\ R(n).tenant = job[j].tenant
                        /\ R(n).source = <<job[j].kind, file[j]>>
  BY <1>1 DEF Row, Id, Source, RowType
<1>3. NewRows(j) = {R(n) : n \in 1 .. N}
  BY DEF NewRows
<1>4. j \in Indexers(file[j])
  BY <1>1 DEF JobInv, Indexers
<1>5. IsFiniteSet(NewRows(j))
  <2> DEFINE g == [n \in 1 .. N |-> R(n)]
  <2>1. IsFiniteSet(1 .. N)
    BY <1>1, FS_Interval
  <2>2. g \in Surjection(1 .. N, NewRows(j))
    BY <1>3 DEF Surjection
  <2> HIDE DEF g
  <2> QED BY <2>1, <2>2, FS_Surjection
<1>6. 1 \in 1 .. N
  BY <1>1
<1> HIDE DEF R, N
<1>7. \A w \in NewRows(j) : w \in RowType /\ RowInv(w) /\ w.id[1] = file[j]
                            /\ w.by = j /\ w.text = text[j]
  BY <1>2, <1>3, <1>4 DEF RowInv
<1>8. {w.id : w \in NewRows(j)} = {Id(file[j], n) : n \in 1 .. N}
  BY <1>2, <1>3
<1> QED BY <1>3, <1>5, <1>6, <1>7, <1>8 DEF N

\* Each statement keeps the types.
LEMMA JobsTypeStep ==
    ASSUME JobsTypeOK, RowsTypeOK, IndexNext
    PROVE  JobsTypeOK'
<1> USE DEF JobsTypeOK, Goto
<1>1. CASE UNCHANGED indexVars
  BY <1>1 DEF indexVars
<1>2. ASSUME NEW j \in Jobs, Save(j) PROVE JobsTypeOK'
  <2>1. job[j].file \in Files /\ job[j].version \in Versions
    BY DEF JobType
  <2> QED BY <1>2, <2>1 DEF Save, Take
<1>3. ASSUME NEW j \in Jobs, NEW f \in Files, Visit(j, f) PROVE JobsTypeOK'
  BY <1>3 DEF Visit, Take
<1>4. ASSUME NEW j \in Jobs, Fails(j) \/ Delete(j) \/ Insert(j) PROVE JobsTypeOK'
  BY <1>4 DEF Fails, Delete, Insert
<1>5. ASSUME NEW j \in Jobs, Query(j) PROVE JobsTypeOK'
  <2>1. \A w \in rows : w.id \in Files \X Nat
    BY DEF RowsTypeOK, RowType
  <2> QED BY <1>5, <2>1 DEF Query
<1>6. ASSUME NEW j \in Jobs, Load(j) PROVE JobsTypeOK'
  BY <1>6 DEF Load
<1> QED BY <1>1, <1>2, <1>3, <1>4, <1>5, <1>6 DEF IndexNext, Index

\* Rows are well formed, and finitely many,
LEMMA RowsTypeStep ==
    ASSUME IndexInv, IndexNext
    PROVE  RowsTypeOK' /\ \A w \in rows' : RowInv(w)'
<1>1. /\ JobsTypeOK /\ RowsTypeOK /\ \A j \in Jobs : JobInv(j)
      /\ \A w \in rows : RowInv(w)
  BY DEF IndexInv
<1>2. job' = job
  BY <1>1, OthersStep DEF IndexNext, indexVars
<1>3. \A w : RowInv(w)' <=> RowInv(w)
  BY <1>2 DEF RowInv, Indexers
<1>4. CASE rows' = rows
  BY <1>1, <1>3, <1>4 DEF RowsTypeOK
<1>5. ASSUME NEW j \in Jobs, rows' = {w \in rows : w.id \notin ids[j]}
      PROVE  RowsTypeOK' /\ \A w \in rows' : RowInv(w)'
  <2>1. rows' \subseteq rows
    BY <1>5
  <2>2. IsFiniteSet(rows')
    BY <1>1, <2>1, FS_Subset DEF RowsTypeOK
  <2> QED BY <1>1, <1>3, <2>1, <2>2 DEF RowsTypeOK
<1>6. ASSUME NEW j \in Jobs, rows' = rows \cup NewRows(j)
      PROVE  RowsTypeOK' /\ \A w \in rows' : RowInv(w)'
  <2>1. /\ \A w \in NewRows(j) : w \in RowType /\ RowInv(w)
        /\ IsFiniteSet(NewRows(j))
    BY <1>1, NewRowsType
  <2>2. IsFiniteSet(rows')
    BY <1>1, <1>6, <2>1, FS_Union DEF RowsTypeOK
  <2> QED BY <1>1, <1>3, <1>6, <2>1, <2>2 DEF RowsTypeOK
<1>7. CASE UNCHANGED indexVars
  BY <1>4, <1>7 DEF indexVars
<1> QED BY <1>4, <1>5, <1>6, <1>7, RowsStep DEF IndexNext

\* and a job deletes rows of its own file only.
LEMMA JobStep ==
    ASSUME IndexInv, IndexNext, NEW i \in Jobs
    PROVE  JobInv(i)'
<1>1. /\ JobsTypeOK /\ RowsTypeOK /\ JobInv(i) /\ \A w \in rows : RowInv(w)
  BY DEF IndexInv
<1> USE <1>1 DEF JobsTypeOK, Goto, JobInv
<1>2. CASE UNCHANGED indexVars
  BY <1>2 DEF indexVars
<1>3. ASSUME NEW j \in Jobs, Save(j) \/ \E f \in Files : Visit(j, f) PROVE JobInv(i)'
  BY <1>3 DEF Save, Visit, Take
<1>4. ASSUME NEW j \in Jobs, Fails(j) \/ Delete(j) \/ Load(j) \/ Insert(j) PROVE JobInv(i)'
  BY <1>4 DEF Fails, Delete, Load, Insert
<1>5. ASSUME NEW j \in Jobs, Query(j) PROVE JobInv(i)'
  <2>1. \A w \in rows : w.source[2] = w.id[1]
    BY DEF RowInv
  <2>2. \A w \in rows : w.source = Source(j) => w.id[1] = file[j]
    BY <2>1 DEF Source
  <2> QED BY <1>5, <2>2 DEF Query
<1> QED BY <1>2, <1>3, <1>4, <1>5 DEF IndexNext, Index
-----------------------------------------------------------------------------
\* A job changes the rows of its own file.
LEMMA RowsOfStep ==
    ASSUME IndexInv, NEW j \in Jobs, Index(j), NEW f
    PROVE  \/ RowsOf(f)' = RowsOf(f)
           \/ /\ file[j] = f /\ pc[j] = "delete"
              /\ RowsOf(f)' = {w \in RowsOf(f) : w.id \notin ids[j]}
           \/ /\ file[j] = f /\ pc[j] = "insert"
              /\ RowsOf(f)' = RowsOf(f) \cup NewRows(j)
<1>1. /\ JobsTypeOK /\ JobInv(j) /\ \A w \in rows : RowInv(w)
  BY DEF IndexInv
<1>2. CASE rows' = rows
  BY <1>2 DEF RowsOf
<1>3. CASE pc[j] = "delete" /\ rows' = {w \in rows : w.id \notin ids[j]}
  BY <1>1, <1>3 DEF RowsOf, JobInv
<1>4. CASE pc[j] = "insert" /\ rows' = rows \cup NewRows(j)
  <2>1. \A w \in NewRows(j) : w.id[1] = file[j]
    BY <1>1, NewRowsType
  <2>2. file[j] = f => RowsOf(f)' = RowsOf(f) \cup NewRows(j)
    BY <1>4, <2>1 DEF RowsOf
  <2>3. file[j] # f => RowsOf(f)' = RowsOf(f)
    BY <1>4, <2>1 DEF RowsOf
  <2> QED BY <1>4, <2>2, <2>3
<1> QED BY <1>2, <1>3, <1>4, RowsStep

\* Who begins to work on a file that someone else is at work on disturbs it.
LEMMA AloneStep ==
    ASSUME JobsTypeOK, NEW f, AloneInv(f), f \notin disturbed', IndexNext
    PROVE  AloneInv(f)'
<1> USE DEF JobsTypeOK, Goto, AloneInv, Working, Active
<1>1. CASE UNCHANGED indexVars
  BY <1>1 DEF indexVars
<1>2. ASSUME NEW j \in Jobs, NEW g, Take(j, g), pc[j] = "start" PROVE AloneInv(f)'
  BY <1>2 DEF Take
<1>3. ASSUME NEW j \in Jobs, Fails(j) \/ Query(j) \/ Delete(j) \/ Load(j) \/ Insert(j)
      PROVE  AloneInv(f)'
  BY <1>3 DEF Fails, Query, Delete, Load, Insert
<1> QED BY <1>1, <1>2, <1>3 DEF IndexNext, Index, Save, Visit

\* A file that nobody disturbs is replaced as a whole.
LEMMA FileStep ==
    ASSUME IndexInv, IndexNext, NEW f \in Files
    PROVE  FileInv(f)'
<1> SUFFICES ASSUME Settled(f)'
             PROVE  /\ AloneInv(f)' /\ Complete(f)'
                    /\ \A i \in Jobs : Working(i, f)' => ReplaceInv(i, f)' /\ SavedInv(i, f)'
  BY DEF FileInv
<1>1. JobsTypeOK /\ RowsTypeOK /\ FileInv(f) /\ \A i \in Jobs : JobInv(i)
  BY DEF IndexInv
<1>2. job' = job /\ disturbed \subseteq disturbed'
  BY <1>1, OthersStep DEF IndexNext, indexVars
<1>3. Settled(f) /\ f \notin disturbed'
  BY <1>2 DEF Settled, OneSource, Indexers
<1>4. /\ AloneInv(f) /\ Complete(f)
      /\ \A i \in Jobs : Working(i, f) => ReplaceInv(i, f) /\ SavedInv(i, f)
  BY <1>1, <1>3 DEF FileInv
<1>5. AloneInv(f)'
  BY <1>1, <1>3, <1>4, AloneStep
<1>6. RowsOf(f)' = RowsOf(f) => Complete(f)'
  BY <1>4 DEF Complete
<1>7. CASE UNCHANGED indexVars
  BY <1>4, <1>5, <1>7 DEF indexVars, Complete, Working, Active, ReplaceInv, SavedInv, RowsOf
<1>8. ASSUME NEW j \in Jobs, Index(j)
      PROVE  Complete(f)' /\ \A i \in Jobs : Working(i, f)' => ReplaceInv(i, f)' /\ SavedInv(i, f)'
  <2> USE DEF JobsTypeOK, Goto
  <2>1. \A i \in Jobs \ {j} : UNCHANGED <<pc[i], file[i], ids[i], text[i]>>
    BY <1>1, <1>8, OthersStep
  <2>2. ASSUME NEW g, Take(j, g), pc[j] = "start", UNCHANGED rows,
               \/ job[j].kind = "upload" /\ files' = [files EXCEPT ![g] = job[j].version]
               \/ job[j].kind = "walk" /\ files' = files
        PROVE  Complete(f)' /\ \A i \in Jobs : Working(i, f)' => ReplaceInv(i, f)' /\ SavedInv(i, f)'
    <3>1. RowsOf(f)' = RowsOf(f)
      BY <2>2 DEF RowsOf
    <3>2. pc'[j] = "prepare" /\ file'[j] = g
      BY <1>1, <2>2 DEF Take
    <3>3. ASSUME Working(j, f)' PROVE ReplaceInv(j, f)' /\ SavedInv(j, f)'
      BY <1>1, <1>2, <2>2, <3>2, <3>3 DEF ReplaceInv, SavedInv, Working
    <3>4. ASSUME NEW i \in Jobs \ {j}, Working(i, f)' PROVE ReplaceInv(i, f)' /\ SavedInv(i, f)'
      <4>1. Working(i, f)
        BY <2>1, <3>4 DEF Working, Active
      <4>2. g # f
        BY <1>3, <2>2, <4>1 DEF Take, Working, Active
      <4>3. files'[f] = files[f]
        BY <1>1, <2>2, <4>2
      <4> QED BY <1>2, <1>4, <2>1, <3>1, <4>1, <4>3 DEF ReplaceInv, SavedInv
    <3> QED BY <1>6, <3>1, <3>3, <3>4
  <2>3. CASE Save(j)
    BY <2>2, <2>3 DEF Save
  <2>4. CASE \E g \in Files : Visit(j, g)
    BY <2>2, <2>4 DEF Visit
  <2>5. CASE ~Working(j, f) /\ (Fails(j) \/ Query(j) \/ Delete(j) \/ Load(j) \/ Insert(j))
    <3>1. files' = files /\ ~Working(j, f)' /\ RowsOf(f)' = RowsOf(f)
      <4>1. UNCHANGED <<files, file>> /\ (pc[j] = "start" => pc'[j] = "failed" /\ rows' = rows)
        BY <1>1, <2>5 DEF Fails, Query, Delete, Load, Insert
      <4>2. pc[j] \notin {"done", "failed"}
        BY <2>5 DEF Fails, Query, Delete, Load, Insert
      <4>3. RowsOf(f)' = RowsOf(f)
        BY <1>8, <2>5, <4>1, RowsOfStep DEF Working, Active, RowsOf
      <4> QED BY <2>5, <4>1, <4>2, <4>3 DEF Working, Active
    <3>2. ASSUME NEW i \in Jobs, Working(i, f)' PROVE ReplaceInv(i, f)' /\ SavedInv(i, f)'
      <4>1. i # j /\ Working(i, f)
        BY <2>1, <3>1, <3>2 DEF Working, Active
      <4> QED BY <1>2, <1>4, <2>1, <3>1, <4>1 DEF ReplaceInv, SavedInv
    <3> QED BY <1>6, <3>1, <3>2
  <2>6. CASE Working(j, f) /\ (Fails(j) \/ Query(j) \/ Delete(j) \/ Load(j) \/ Insert(j))
    <3>1. /\ ReplaceInv(j, f) /\ SavedInv(j, f) /\ file[j] = f /\ UNCHANGED <<files, file>>
          /\ pc[j] \in {"prepare", "delete", "load", "insert"}
      BY <1>1, <1>4, <2>6 DEF Working, Active, Fails, Query, Delete, Load, Insert
    <3>2. \A i \in Jobs : Working(i, f)' => i = j
      <4>1. \A i \in Jobs \ {j} : ~Working(i, f)
        BY <1>4, <2>6 DEF AloneInv
      <4> QED BY <2>1, <4>1 DEF Working, Active
    <3>3. CASE Fails(j)
      <4>1. RowsOf(f)' = RowsOf(f) /\ ~Working(j, f)'
        BY <1>1, <3>3 DEF Fails, RowsOf, Working, Active
      <4> QED BY <1>6, <3>2, <4>1
    <3>4. CASE Query(j)
      <4>1. RowsOf(f)' = RowsOf(f) /\ pc'[j] = "delete" /\ text' = text
        BY <1>1, <3>4 DEF Query, RowsOf
      <4>2. \A w \in RowsOf(f) : w.source = Source(j) /\ (job[j].kind = "walk" => w.tenant = job[j].tenant)
        <5> TAKE w \in RowsOf(f)
        <5>1. w.by \in Indexers(f) /\ w.source = <<job[w.by].kind, f>> /\ w.tenant = job[w.by].tenant
          BY DEF IndexInv, RowInv, RowsOf
        <5>2. j \in Indexers(f)
          BY <1>1, <3>1 DEF JobInv, Indexers, JobType
        <5> QED BY <1>3, <3>1, <5>1, <5>2 DEF Settled, OneSource, Source
      <4>3. \A w \in RowsOf(f) : w.id \in ids'[j]
        BY <1>1, <3>4, <4>2 DEF Query, RowsOf
      <4>4. ReplaceInv(j, f)' /\ SavedInv(j, f)'
        BY <1>2, <3>1, <4>1, <4>3 DEF ReplaceInv, SavedInv
      <4> QED BY <1>6, <3>2, <4>1, <4>4
    <3>5. CASE Delete(j)
      <4>1. rows' = {w \in rows : w.id \notin ids[j]}
        BY <1>3, <3>1, <3>5 DEF Delete
      <4>2. RowsOf(f)' = {}
        BY <3>1, <3>5, <4>1 DEF ReplaceInv, RowsOf, Delete
      <4>3. pc'[j] = "load" /\ text' = text
        BY <1>1, <3>5 DEF Delete
      <4>4. ReplaceInv(j, f)' /\ SavedInv(j, f)'
        BY <1>2, <3>1, <4>2, <4>3 DEF ReplaceInv, SavedInv
      <4> QED BY <3>2, <4>2, <4>4 DEF Complete
    <3>6. CASE Load(j)
      <4>1. /\ RowsOf(f)' = RowsOf(f) /\ RowsOf(f) = {} /\ pc'[j] = "insert" /\ text'[j] = files[f]
        BY <1>1, <3>1, <3>6 DEF Load, RowsOf, ReplaceInv
      <4>2. ReplaceInv(j, f)' /\ SavedInv(j, f)'
        BY <1>2, <3>1, <4>1 DEF ReplaceInv, SavedInv
      <4> QED BY <1>6, <3>2, <4>1, <4>2
    <3>7. CASE Insert(j)
      <4>1. RowsOf(f) = {} /\ ~Working(j, f)'
        BY <1>1, <3>1, <3>7 DEF Insert, ReplaceInv, Working, Active
      <4>2. RowsOf(f)' = RowsOf(f) \/ RowsOf(f)' = NewRows(j)
        BY <1>8, <3>7, <4>1, RowsOfStep DEF Insert
      <4>3. CASE RowsOf(f)' = NewRows(j)
        <5>1. PICK w \in NewRows(j) : w.by = j /\ w.text = text[j]
          BY <1>1, NewRowsType
        <5>2. /\ \A u \in NewRows(j) : u.by = w.by /\ u.text = w.text
              /\ {u.id : u \in NewRows(j)} = {Id(f, n) : n \in 1 .. ChunksOf[w.text]}
          <6>1. \A u \in NewRows(j) : u.by = j /\ u.text = text[j]
            BY <1>1, NewRowsType
          <6>2. {u.id : u \in NewRows(j)} = {Id(file[j], n) : n \in 1 .. ChunksOf[text[j]]}
            BY <1>1, NewRowsType
          <6> QED BY <3>1, <5>1, <6>1, <6>2
        <5>3. /\ w \in RowsOf(f)' /\ \A u \in RowsOf(f)' : u.by = w.by /\ u.text = w.text
              /\ {u.id : u \in RowsOf(f)'} = {Id(f, n) : n \in 1 .. ChunksOf[w.text]}
          BY <4>3, <5>1, <5>2
        <5>4. Complete(f)'
          BY <5>3 DEF Complete, Id
        <5> QED BY <3>2, <4>1, <5>4
      <4> QED BY <1>6, <3>2, <4>1, <4>2, <4>3
    <3> QED BY <2>6, <3>3, <3>4, <3>5, <3>6, <3>7
  <2> QED BY <1>8, <2>3, <2>4, <2>5, <2>6 DEF Index
<1> QED BY <1>5, <1>7, <1>8 DEF IndexNext

\* The index keeps its invariant, whatever retrieval does.
LEMMA IndexStep == IndexInv /\ IndexNext => IndexInv'
BY JobsTypeStep, RowsTypeStep, JobStep, FileStep DEF IndexInv
-----------------------------------------------------------------------------
\* Every set of natural numbers that is not empty has a least one,
LEMMA Least ==
    ASSUME NEW S, S \subseteq Nat, S # {}
    PROVE  \E n \in S : \A m \in S : n <= m
<1>1. PICK R : IsWellFoundedOn(R, Nat) /\ \A m, n \in Nat : <<m, n>> \in R <=> m < n
  <2>1. \A m, n \in Nat : <<m, n>> \in OpToRel(<, Nat) <=> m < n
    BY DEF OpToRel
  <2> QED BY <2>1, NatLessThanWellFounded
<1>2. IsWellFoundedOn(R, Nat)
  BY <1>1
<1>3. PICK n \in S : \A m \in S : ~(<<m, n>> \in R)
  BY <1>2, WFMin, Zenon
<1>4. ASSUME NEW m \in S PROVE n <= m
  <2>1. m \in Nat /\ n \in Nat /\ ~(<<m, n>> \in R)
    BY <1>3
  <2>2. ~(m < n)
    BY <1>1, <2>1
  <2> QED BY <2>1, <2>2
<1> QED BY <1>4

\* which is induction, for a set.
LEMMA NatSet ==
    ASSUME NEW S, S \subseteq Nat, 0 \in S, \A n \in S : n + 1 \in S
    PROVE  S = Nat
<1>1. CASE Nat \ S # {}
  <2>1. PICK n \in Nat \ S : \A m \in Nat \ S : n <= m
    BY <1>1, Least
  <2>2. n # 0 /\ n - 1 \in Nat /\ n - 1 \in S
    BY <2>1
  <2> QED BY <2>1, <2>2
<1> QED BY <1>1

\* The loop of filterHits has a result after each hit.
LEMMA KeptDefined ==
    ASSUME NEW h
    PROVE  \A l \in Nat : \E g :
              g = [n \in 0 .. l |->
                      IF n = 0 THEN <<>>
                      ELSE IF h[n].distance <= Threshold THEN Append(g[n - 1], h[n]) ELSE g[n - 1]]
<1> DEFINE next(s, n) == IF h[n].distance <= Threshold THEN Append(s, h[n]) ELSE s
           Def(g, l) == [n \in 0 .. l |-> IF n = 0 THEN <<>> ELSE next(g[n - 1], n)]
           T == {l \in Nat : \E g : g = Def(g, l)}
<1> HIDE DEF next
<1>1. 0 \in T
  <2> DEFINE g == [n \in 0 .. 0 |-> <<>>]
  <2>1. g = Def(g, 0)
    OBVIOUS
  <2> QED BY <2>1
<1>2. ASSUME NEW l \in T PROVE l + 1 \in T
  <2>1. PICK g : g = Def(g, l)
    OBVIOUS
  <2> DEFINE k == [n \in 0 .. l + 1 |-> IF n = l + 1 THEN next(g[l], l + 1) ELSE g[n]]
  <2>2. \A n \in 0 .. l : g[n] = IF n = 0 THEN <<>> ELSE next(g[n - 1], n)
    BY <2>1
  <2>3. \A n \in 0 .. l + 1 : k[n] = IF n = 0 THEN <<>> ELSE next(k[n - 1], n)
    BY <2>2
  <2>4. k = [n \in 0 .. l + 1 |-> k[n]]
    OBVIOUS
  <2> HIDE DEF k
  <2>5. k = Def(k, l + 1)
    BY <2>3, <2>4
  <2> HIDE DEF Def
  <2>6. \E g0 : g0 = Def(g0, l + 1)
    BY <2>5
  <2>7. l + 1 \in Nat
    OBVIOUS
  <2> QED BY <2>6, <2>7
<1>3. T \subseteq Nat
  OBVIOUS
<1> HIDE DEF T
<1>4. T = Nat
  BY <1>1, <1>2, <1>3, NatSet
<1> QED BY <1>4 DEF T, next

HitType4 == [id : Files \X Nat, distance : Int, rank : Nat, row : RowType]
Sorted(h) == \A m, n \in DOMAIN h : m <= n => h[m].distance <= h[n].distance

\* Of hits in the order of their distances filterHits keeps the first ones, all those that
\* are near enough.
LEMMA FilterHits ==
    ASSUME NEW h \in Seq(HitType4), Sorted(h)
    PROVE  /\ filterHits(h) \in Seq(HitType4) /\ Len(filterHits(h)) <= Len(h)
           /\ \A n \in 1 .. Len(filterHits(h)) :
                 /\ filterHits(h)[n] = h[n]
                 /\ Threshold > 0 => h[n].distance <= Threshold
<1> DEFINE N == Len(h)
           Def(g) == [n \in 0 .. N |->
                         IF n = 0 THEN <<>>
                         ELSE IF h[n].distance <= Threshold THEN Append(g[n - 1], h[n]) ELSE g[n - 1]]
<1>1. N \in Nat /\ \A n \in 1 .. N : h[n] \in HitType4 /\ h[n].distance \in Int
  <2>1. \A x \in HitType4 : x.distance \in Int
    BY DEF HitType4
  <2> QED BY <2>1
<1>2. \E g : g = Def(g)
  <2>1. \A l \in Nat : \E g :
           g = [n \in 0 .. l |->
                   IF n = 0 THEN <<>>
                   ELSE IF h[n].distance <= Threshold THEN Append(g[n - 1], h[n]) ELSE g[n - 1]]
    BY KeptDefined, Zenon
  <2>2. N \in Nat
    BY <1>1
  <2> HIDE DEF N
  <2> QED BY <2>1, <2>2, Zenon
<1>3. PICK g : g = Def(g) /\ filterHits(h) = IF Threshold = 0 THEN h ELSE g[N]
  <2>1. (CHOOSE g : g = Def(g)) = Def(CHOOSE g : g = Def(g))
    BY <1>2
  <2> QED BY <2>1 DEF filterHits
<1>4. \A n \in 0 .. N : g[n] =
         IF n = 0 THEN <<>>
         ELSE IF h[n].distance <= Threshold THEN Append(g[n - 1], h[n]) ELSE g[n - 1]
  BY <1>3
<1> HIDE DEF N, Def
<1> DEFINE Prefix(n) ==
              /\ g[n] \in Seq(HitType4) /\ Len(g[n]) <= n
              /\ \A m \in 1 .. Len(g[n]) : g[n][m] = h[m] /\ h[m].distance <= Threshold
              /\ Len(g[n]) < n => h[Len(g[n]) + 1].distance > Threshold
           T == {n \in Nat : n <= N => Prefix(n)}
<1>5. 0 \in T
  <2>1. g[0] = <<>>
    BY <1>1, <1>4
  <2>2. <<>> \in Seq(HitType4) /\ Len(<<>>) = 0
    OBVIOUS
  <2>3. g[0] \in Seq(HitType4) /\ Len(g[0]) = 0
    BY <2>1, <2>2
  <2> QED BY <2>3
<1>6. ASSUME NEW n \in T PROVE n + 1 \in T
  <2> SUFFICES ASSUME n + 1 <= N PROVE Prefix(n + 1)
    OBVIOUS
  <2>1. n \in Nat /\ Prefix(n) /\ n + 1 \in 1 .. N
    BY <1>1
  <2> DEFINE s == g[n]
             t == g[n + 1]
  <2>2. t = IF h[n + 1].distance <= Threshold THEN Append(s, h[n + 1]) ELSE s
    BY <1>4, <2>1
  <2>3. /\ s \in Seq(HitType4) /\ Len(s) \in Nat /\ Len(s) <= n
        /\ \A m \in 1 .. Len(s) : s[m] = h[m] /\ h[m].distance <= Threshold
        /\ Len(s) < n => h[Len(s) + 1].distance > Threshold
    BY <2>1
  <2> HIDE DEF s, t
  <2>4. Len(s) < n => Len(s) + 1 \in 1 .. N /\ h[Len(s) + 1].distance <= h[n + 1].distance
    <3>1. DOMAIN h = 1 .. N
      BY DEF N
    <3>2. Len(s) < n => Len(s) + 1 \in 1 .. N /\ Len(s) + 1 <= n + 1
      BY <1>1, <2>1, <2>3
    <3> QED BY <2>1, <3>1, <3>2 DEF Sorted
  <2>5. CASE h[n + 1].distance <= Threshold
    <3>1. Len(s) = n
      BY <1>1, <2>1, <2>3, <2>4, <2>5, RetrieverAssumption
    <3>2. /\ t \in Seq(HitType4) /\ Len(t) = n + 1 /\ t[n + 1] = h[n + 1]
          /\ \A m \in 1 .. n : t[m] = s[m]
      <4>1. t = Append(s, h[n + 1]) /\ h[n + 1] \in HitType4
        BY <1>1, <2>1, <2>2, <2>5
      <4> QED BY <2>3, <3>1, <4>1
    <3> QED BY <2>1, <2>3, <2>5, <3>1, <3>2 DEF t
  <2>6. CASE ~(h[n + 1].distance <= Threshold)
    <3>1. t = s
      BY <2>2, <2>6
    <3>2. h[n + 1].distance > Threshold
      BY <1>1, <2>1, <2>6, RetrieverAssumption
    <3> QED BY <2>1, <2>3, <3>1, <3>2 DEF t
  <2> QED BY <2>5, <2>6
<1>7. T \subseteq Nat
  OBVIOUS
<1> HIDE DEF T
<1>8. T = Nat
  BY <1>5, <1>6, <1>7, NatSet
<1>9. Prefix(N)
  BY <1>1, <1>8 DEF T
<1>10. CASE Threshold = 0
  BY <1>3, <1>10
<1>11. CASE Threshold # 0
  BY <1>3, <1>9, <1>11 DEF N
<1> QED BY <1>10, <1>11
-----------------------------------------------------------------------------
\* The hits are the first rows of the tenant, in their order, and a row that is gone before
\* they are fetched has touched its file.
HitInv(n) ==
    /\ hits[n].rank = n /\ hits[n].id = hits[n].row.id
    /\ RowInv(hits[n].row) /\ hits[n].row.tenant = query.tenant
    /\ Threshold > 0 => hits[n].distance <= Threshold
HitsInv ==
    /\ hits \in Seq(HitType4) /\ Sorted(hits)
    /\ \A n \in DOMAIN hits : HitInv(n)
    /\ phase = "get" => \A n \in DOMAIN hits : hits[n].id[1] \in touched \/ hits[n].row \in rows

\* A document is a row that has the hit's id, the hit's row itself when its file is settled.
DocInv(n) ==
    /\ docs[n].row.id = hits[n].id /\ RowInv(docs[n].row)
    /\ (\A a, b \in DOMAIN hits : a # b => hits[a].id # hits[b].id) =>
          docs[n].rank = hits[n].rank /\ docs[n].distance = hits[n].distance
    /\ Settled(hits[n].id[1]) => hits[n].id[1] \in touched \/ docs[n].row = hits[n].row
DocsInv ==
    /\ phase = "start" => hits = <<>>
    /\ phase \in {"start", "get"} => docs = <<>>
    /\ docs # <<>> => DOMAIN docs = DOMAIN hits
    /\ \A n \in DOMAIN docs : DocInv(n)

RInv == IndexInv /\ HitsInv /\ DocsInv
\* A search finds rows of the set it searches, nearest first.
LEMMA Found ==
    ASSUME RowsTypeOK, NEW S, S \subseteq rows, NEW q \in Nearest(S, TopK),
           NEW h, h = searchHits(q)
    PROVE  /\ h \in Seq(HitType4) /\ Sorted(h)
           /\ \A n \in DOMAIN h : h[n].rank = n /\ h[n].id = h[n].row.id /\ h[n].row \in S
<1>1. PICK m \in Nat :
         /\ q \in [1 .. m -> S]
         /\ \A a, b \in 1 .. m : a < b => DistanceOf(q[a]) <= DistanceOf(q[b])
  <2>1. Cardinality(S) \in Nat
    BY FS_CardinalityType, FS_Subset DEF RowsTypeOK
  <2> QED BY <2>1, RetrieverAssumption DEF Nearest
<1>2. \A w \in S : w \in RowType /\ w.id \in Files \X Nat /\ DistanceOf(w) \in Int
  <2> TAKE w \in S
  <2>1. w \in RowType
    BY DEF RowsTypeOK
  <2>2. w.id \in Files \X Nat /\ w.text \in Versions
    BY <2>1 DEF RowType
  <2>3. w.id[2] \in Nat /\ Distance[w.text] \in Nat
    BY <2>2, RetrieverAssumption
  <2> QED BY <2>1, <2>2, <2>3 DEF DistanceOf
<1>3. /\ DOMAIN h = 1 .. m
      /\ \A n \in 1 .. m :
            h[n] = [id |-> q[n].id, distance |-> DistanceOf(q[n]), rank |-> n, row |-> q[n]]
  BY <1>1 DEF searchHits
<1>4. \A n \in 1 .. m :
         /\ h[n].rank = n /\ h[n].id = h[n].row.id /\ h[n].row \in S
         /\ h[n].distance = DistanceOf(q[n]) /\ h[n] \in HitType4
  <2> TAKE n \in 1 .. m
  <2>1. q[n] \in S
    BY <1>1
  <2> QED BY <1>2, <1>3, <2>1 DEF HitType4
<1>5. h \in Seq(HitType4)
  <2>1. h \in [1 .. m -> HitType4]
    <3>1. h = [n \in 1 .. m |-> h[n]]
      BY <1>3 DEF searchHits
    <3> QED BY <1>4, <3>1
  <2> QED BY <2>1
<1>6. Sorted(h)
  <2> SUFFICES ASSUME NEW a \in 1 .. m, NEW b \in 1 .. m, a <= b
               PROVE  h[a].distance <= h[b].distance
    BY <1>3 DEF Sorted
  <2>1. q[a] \in S /\ q[b] \in S
    BY <1>1
  <2>2. DistanceOf(q[a]) \in Int /\ DistanceOf(q[b]) \in Int
    BY <1>2, <2>1
  <2>3. DistanceOf(q[a]) <= DistanceOf(q[b])
    <3>1. CASE a = b
      BY <2>2, <3>1
    <3>2. CASE a < b
      BY <1>1, <3>2
    <3> QED BY <3>1, <3>2
  <2> QED BY <1>4, <2>3
<1> QED BY <1>3, <1>4, <1>5, <1>6

\* Two rows of one file that is settled are one row when they have one id.
LEMMA SameRow ==
    ASSUME IndexInv, NEW u \in rows, NEW w \in rows, u.id = w.id, Settled(w.id[1])
    PROVE  u = w
<1>1. u \in RowType /\ w \in RowType /\ RowInv(u) /\ RowInv(w)
  BY DEF IndexInv, RowsTypeOK
<1>2. w.id[1] \in Files
  BY <1>1 DEF RowType
<1>3. Complete(w.id[1]) /\ u \in RowsOf(w.id[1]) /\ w \in RowsOf(w.id[1])
  BY <1>2 DEF IndexInv, FileInv, RowsOf
<1>4. u.by = w.by /\ u.text = w.text
  BY <1>3 DEF Complete
<1>5. u.source = w.source /\ u.tenant = w.tenant
  BY <1>1, <1>4 DEF RowInv
<1> QED BY <1>1, <1>4, <1>5 DEF RowType

\* The invariant holds at first,
LEMMA InitInv == Init => RInv
<1> SUFFICES ASSUME Init PROVE RInv
  OBVIOUS
<1> USE DEF Init, IndexInit
<1>1. JobsTypeOK
  BY IndexAssumption DEF JobsTypeOK, JobType
<1>2. RowsTypeOK /\ \A w \in rows : RowInv(w)
  BY FS_EmptySet DEF RowsTypeOK
<1>3. \A j \in Jobs : JobInv(j)
  BY DEF JobInv
<1>4. \A f \in Files : FileInv(f)
  BY DEF FileInv, AloneInv, Working, Active, Complete, RowsOf
<1>5. HitsInv /\ DocsInv
  <2>1. hits = <<>> /\ docs = <<>> /\ phase = "start" /\ hits \in Seq(HitType4) /\ DOMAIN hits = {}
    OBVIOUS
  <2> QED BY <2>1 DEF HitsInv, DocsInv, Sorted
<1> QED BY <1>1, <1>2, <1>3, <1>4, <1>5 DEF RInv, IndexInv

\* every step keeps it,
LEMMA NextInv == RInv /\ [Next]_vars => RInv'
<1> SUFFICES ASSUME RInv, [Next]_vars PROVE RInv'
  OBVIOUS
<1>1. IndexInv /\ HitsInv /\ DocsInv
  BY DEF RInv
<1>2. IndexNext
  BY DEF Next, Indexing, Skip, Search, Get, RetrieveFails, Over, vars, IndexNext
<1>3. IndexInv'
  BY <1>1, <1>2, IndexStep
<1>4. query' = query
  BY DEF Next, Indexing, Skip, Search, Get, RetrieveFails, Over, vars, retrievalVars
<1>5. job' = job /\ disturbed \subseteq disturbed'
  BY <1>1, <1>2, OthersStep DEF IndexNext, indexVars, IndexInv
<1>6. (\A w : RowInv(w)' <=> RowInv(w)) /\ \A f : Settled(f)' => Settled(f)
  BY <1>5 DEF RowInv, Settled, OneSource, Indexers
<1>7. CASE UNCHANGED <<rows, hits, docs, touched>> /\ (phase' = phase \/ phase' \notin {"start", "get"})
  BY <1>1, <1>3, <1>4, <1>6, <1>7 DEF RInv, HitsInv, HitInv, DocsInv, DocInv
<1>8. CASE Indexing
  <2>1. /\ touched' = touched \cup {w.id[1] : w \in (rows \ rows') \cup (rows' \ rows)}
        /\ UNCHANGED <<phase, hits, docs>>
    BY <1>8 DEF Indexing
  <2>2. ASSUME phase = "get", NEW n \in DOMAIN hits
        PROVE  hits[n].id[1] \in touched' \/ hits[n].row \in rows'
    <3>1. hits[n].id[1] \in touched \/ hits[n].row \in rows
      BY <1>1, <2>2 DEF HitsInv
    <3>2. hits[n].id = hits[n].row.id
      BY <1>1 DEF HitsInv, HitInv
    <3> QED BY <2>1, <3>1, <3>2
  <2>3. HitsInv'
    BY <1>1, <1>4, <1>6, <2>1, <2>2 DEF HitsInv, HitInv
  <2>4. DocsInv'
    BY <1>1, <1>6, <2>1 DEF DocsInv, DocInv
  <2> QED BY <1>3, <2>3, <2>4 DEF RInv
<1>9. CASE Search
  <2>1. PICK q \in Nearest(Visible, TopK) : hits' = filterHits(searchHits(q))
    BY <1>9 DEF Search
  <2>2. PICK h : h = searchHits(q)
    OBVIOUS
  <2>3. Visible \subseteq rows /\ \A w \in Visible : w.tenant = query.tenant
    BY DEF Visible
  <2>4. /\ h \in Seq(HitType4) /\ Sorted(h)
        /\ \A n \in DOMAIN h : h[n].rank = n /\ h[n].id = h[n].row.id /\ h[n].row \in Visible
    BY <1>1, <2>2, <2>3, Found DEF IndexInv
  <2>5. /\ hits' \in Seq(HitType4) /\ Len(hits') <= Len(h)
        /\ \A n \in 1 .. Len(hits') : hits'[n] = h[n] /\ (Threshold > 0 => h[n].distance <= Threshold)
    BY <2>1, <2>2, <2>4, FilterHits
  <2>6. DOMAIN hits' = 1 .. Len(hits') /\ DOMAIN hits' \subseteq DOMAIN h
    BY <2>4, <2>5
  <2>7. Sorted(hits')
    BY <2>4, <2>5, <2>6 DEF Sorted
  <2>8. UNCHANGED <<rows, query, job>>
    BY <1>9 DEF Search, indexVars
  <2>9. \A n \in DOMAIN hits' : HitInv(n)' /\ hits'[n].row \in rows'
    <3> TAKE n \in DOMAIN hits'
    <3>1. hits'[n] = h[n] /\ h[n].row \in rows /\ h[n].row.tenant = query.tenant
      BY <2>3, <2>4, <2>5, <2>6
    <3>2. RowInv(h[n].row)
      BY <1>1, <3>1 DEF IndexInv
    <3> QED BY <1>6, <2>4, <2>5, <2>6, <2>8, <3>1, <3>2 DEF HitInv
  <2>10. HitsInv'
    BY <2>5, <2>7, <2>9 DEF HitsInv
  <2>11. docs' = <<>> /\ phase' # "start"
    BY <1>1, <1>9 DEF Search, DocsInv
  <2>12. DocsInv'
    BY <2>11 DEF DocsInv
  <2> QED BY <1>3, <2>10, <2>12 DEF RInv
<1>10. CASE Get /\ docs' # docs
  <2> DEFINE wanted == {hits[n].id : n \in DOMAIN hits}
  <2>1. PICK get \in [wanted -> rows] :
           (\A i \in wanted : get[i].id = i) /\ docs' = documentsForHits(hits, get)
    BY <1>10 DEF Get
  <2>2. phase = "get" /\ phase' = "done" /\ UNCHANGED <<rows, job, query, hits, touched, disturbed>>
    BY <1>10 DEF Get, indexVars
  <2>3. HitsInv'
    BY <1>1, <1>4, <1>6, <2>2 DEF HitsInv, HitInv
  <2>4. DOMAIN docs' = DOMAIN hits
    BY <2>1 DEF documentsForHits
  <2>5. ASSUME NEW n \in DOMAIN hits PROVE DocInv(n)'
    <3>1. /\ docs'[n].row = get[hits[n].id]
          /\ (\A a, b \in DOMAIN hits : a # b => hits[a].id # hits[b].id) =>
                docs'[n].rank = hits[n].rank /\ docs'[n].distance = hits[n].distance
      <4> DEFINE last(m) == /\ hits[m].id = hits[n].id
                            /\ \A a \in DOMAIN hits : hits[a].id = hits[n].id => a <= m
                 l == CHOOSE m \in DOMAIN hits : last(m)
      <4>1. docs'[n] = [row |-> get[hits[n].id], rank |-> hits[l].rank, distance |-> hits[l].distance]
        BY <2>1 DEF documentsForHits
      <4>2. ASSUME \A a, b \in DOMAIN hits : a # b => hits[a].id # hits[b].id PROVE l = n
        <5>1. last(n)
          <6>1. n \in Nat
            BY <1>1 DEF HitsInv
          <6> QED BY <4>2, <6>1
        <5>2. l \in DOMAIN hits /\ last(l)
          BY <5>1
        <5> QED BY <4>2, <5>2
      <4> HIDE DEF l
      <4> QED BY <4>1, <4>2
    <3>2. get[hits[n].id] \in rows /\ get[hits[n].id].id = hits[n].id
      BY <2>1
    <3>3. RowInv(docs'[n].row)
      BY <1>1, <3>1, <3>2 DEF IndexInv
    <3>4. hits[n].id = hits[n].row.id /\ (hits[n].id[1] \in touched \/ hits[n].row \in rows)
      BY <1>1, <2>2 DEF HitsInv, HitInv
    <3>5. Settled(hits[n].id[1]) => hits[n].id[1] \in touched \/ docs'[n].row = hits[n].row
      BY <1>1, <3>1, <3>2, <3>4, SameRow
    <3> QED BY <1>6, <2>2, <3>1, <3>2, <3>3, <3>5 DEF DocInv
  <2>6. DocsInv'
    BY <2>2, <2>4, <2>5 DEF DocsInv
  <2> QED BY <1>3, <2>3, <2>6 DEF RInv
<1>11. CASE Get /\ docs' = docs
  <2>1. phase' \in {"done", "failed"} /\ UNCHANGED <<rows, hits, touched>>
    BY <1>11 DEF Get, indexVars
  <2> QED BY <1>7, <1>11, <2>1
<1>12. CASE Skip \/ RetrieveFails \/ Over \/ UNCHANGED vars
  BY <1>7, <1>12 DEF Skip, RetrieveFails, Over, vars, indexVars, retrievalVars
<1> QED BY <1>8, <1>9, <1>10, <1>11, <1>12 DEF Next

\* so that it holds in every behaviour.
LEMMA Invariant == Spec => []RInv
BY InitInv, NextInv, PTL DEF Spec
-----------------------------------------------------------------------------
\* A file that is not indexed by two jobs at once is in the collection whole or not at all,
\* whenever nobody is at work on it, also when jobs fail (chat_v1_file_upload.go:83-117).
THEOREM WholeCorrect == Spec => []FilesWhole
<1>1. RInv => FilesWhole
  BY DEF RInv, IndexInv, FileInv, Settled, Complete, FilesWhole
<1> QED BY <1>1, Invariant, PTL

\* An upload that succeeds while nobody else is at work on the file has put the version
\* it saved into the collection (chat_v1_file_upload.go:45-66).
THEOREM UploadCorrect == Spec => UploadIndexed
<1> DEFINE A == \A j \in Jobs :
              /\ job[j].kind = "upload" /\ OneSource(file[j]) /\ file[j] \notin disturbed
              /\ pc[j] # "done" /\ pc'[j] = "done"
              => {w.text : w \in RowsOf(file[j])'} = {job[j].version}
<1>1. ASSUME RInv, [Next]_vars, NEW j \in Jobs,
             job[j].kind = "upload", Settled(file[j]), pc[j] # "done", pc'[j] = "done"
      PROVE  {w.text : w \in RowsOf(file[j])'} = {job[j].version}
  <2>1. IndexInv /\ JobsTypeOK /\ JobInv(j) /\ FileInv(file[j])
    BY <1>1 DEF RInv, IndexInv, JobsTypeOK
  <2>2. IndexNext /\ ~UNCHANGED indexVars
    BY <1>1 DEF Next, Indexing, Skip, Search, Get, RetrieveFails, Over, vars, IndexNext, indexVars
  <2>3. Index(j)
    BY <1>1, <2>1, <2>2, OthersStep DEF IndexNext
  <2>4. Insert(j)
    BY <1>1, <2>1, <2>3 DEF Index, Save, Fails, Query, Delete, Load, Visit, Take, Goto, JobsTypeOK
  <2>5. Working(j, file[j]) /\ pc[j] = "insert"
    BY <2>4 DEF Insert, Working, Active
  <2>6. RowsOf(file[j]) = {} /\ text[j] = job[j].version
    BY <1>1, <2>1, <2>5 DEF FileInv, ReplaceInv, SavedInv
  <2>7. rows' = rows \cup NewRows(j)
    BY <1>1, <2>1, <2>4 DEF Insert, Goto, JobsTypeOK
  <2>8. /\ \A w \in NewRows(j) : w.id[1] = file[j] /\ w.text = text[j]
        /\ \E w \in NewRows(j) : TRUE
    BY <2>1, NewRowsType
  <2>9. RowsOf(file[j])' = NewRows(j)
    <3>1. file'[j] = file[j]
      BY <2>4 DEF Insert
    <3>2. \A w \in rows : w.id[1] # file[j]
      BY <2>6 DEF RowsOf
    <3> QED BY <2>7, <2>8, <3>1, <3>2 DEF RowsOf
  <2> QED BY <2>6, <2>8, <2>9
<1>2. RInv /\ [Next]_vars => [A]_indexVars
  BY <1>1 DEF Settled
<1> QED BY <1>2, Invariant, PTL DEF Spec, UploadIndexed

\* A tenant gets documents of its own from every file that only one tenant indexes, although
\* Get asks for the rows of all tenants (retriever.go:74-78, 169-175).
THEOREM OwnCorrect == Spec => []OwnDocuments
<1>1. RInv => OwnDocuments
  <2> SUFFICES ASSUME RInv, NEW n \in DOMAIN docs, OneTenant(hits[n].id[1])
               PROVE  docs[n].row.tenant = query.tenant
    BY DEF OwnDocuments
  <2>1. n \in DOMAIN hits /\ DocInv(n) /\ HitInv(n)
    <3>1. docs # <<>>
      OBVIOUS
    <3> QED BY <3>1 DEF RInv, DocsInv, HitsInv
  <2>2. /\ RowInv(docs[n].row) /\ RowInv(hits[n].row) /\ hits[n].row.tenant = query.tenant
        /\ docs[n].row.id = hits[n].id /\ hits[n].row.id = hits[n].id
    BY <2>1 DEF DocInv, HitInv
  <2> QED BY <2>2 DEF RowInv, OneTenant
<1> QED BY <1>1, Invariant, PTL

\* A document is the part that was found, if its file is settled and was not indexed between
\* Search and Get (retriever.go:124-147).
THEOREM FoundCorrect == Spec => []DocumentsFound
<1>1. RInv => DocumentsFound
  BY DEF RInv, DocsInv, DocInv, Settled, DocumentsFound
<1> QED BY <1>1, Invariant, PTL

\* Documents come nearest first, none beyond the threshold, and each says its place
\* (retriever.go:149-160, 183-210, 212-237).
THEOREM RankedCorrect == Spec => []DocumentsRanked
<1>1. RInv => DocumentsRanked
  <2> SUFFICES ASSUME RInv, \A m, n \in DOMAIN hits : m # n => hits[m].id # hits[n].id,
                      NEW n \in DOMAIN docs
               PROVE  /\ docs[n].rank = n
                      /\ Threshold > 0 => docs[n].distance <= Threshold
                      /\ \A m \in 1 .. n : docs[m].distance <= docs[n].distance
    BY DEF DocumentsRanked
  <2>1. DOMAIN docs = DOMAIN hits /\ Sorted(hits) /\ \A m \in DOMAIN hits : DocInv(m) /\ HitInv(m)
    <3>1. docs # <<>>
      OBVIOUS
    <3> QED BY <3>1 DEF RInv, DocsInv, HitsInv
  <2>2. \A m \in DOMAIN hits : docs[m].rank = hits[m].rank /\ docs[m].distance = hits[m].distance
    BY <2>1 DEF DocInv
  <2>3. \A m \in 1 .. n : m \in DOMAIN hits /\ m <= n
    BY <2>1 DEF RInv, HitsInv
  <2> QED BY <2>1, <2>2, <2>3 DEF HitInv, Sorted
<1> QED BY <1>1, Invariant, PTL

\* What a search returns and a tenant's documents are made of.
QueryTypes ==
    /\ query \in [tenant : Tenants, way : {"chat", "tool", "smalltalk"}]
    /\ phase \in {"start", "get", "done", "failed", "exited"}
    /\ touched \subseteq Files
PartsInv == \A w \in rows : w.id[2] # 0
SizeInv ==
    /\ Len(hits) <= TopK
    /\ \A n \in DOMAIN hits : hits[n].distance >= 0
    /\ docs = <<>> \/ docs \in [DOMAIN hits -> {docs[n] : n \in DOMAIN hits}]
SearchInv == QueryTypes /\ PartsInv /\ SizeInv

\* Nearest returns no more than TopK rows, and the distance to a part is a number.
LEMMA FoundSize ==
    ASSUME RowsTypeOK, PartsInv, NEW S, S \subseteq rows, NEW q \in Nearest(S, TopK),
           NEW h, h = searchHits(q)
    PROVE  /\ \E m \in Nat : m <= TopK /\ DOMAIN h = 1 .. m
           /\ \A n \in DOMAIN h : h[n].distance >= 0
<1>1. PICK m \in Nat : m <= TopK /\ q \in [1 .. m -> S]
  <2>1. Cardinality(S) \in Nat
    BY FS_CardinalityType, FS_Subset DEF RowsTypeOK
  <2> QED BY <2>1, RetrieverAssumption DEF Nearest
<1>2. DOMAIN h = 1 .. m /\ \A n \in 1 .. m : h[n].distance = DistanceOf(q[n])
  BY <1>1 DEF searchHits
<1>3. ASSUME NEW w \in S PROVE DistanceOf(w) >= 0
  <2>1. w \in RowType /\ w.id[2] # 0
    BY DEF RowsTypeOK, PartsInv
  <2>2. w.id \in Files \X Nat /\ w.text \in Versions
    BY <2>1 DEF RowType
  <2>3. w.id[2] \in Nat /\ w.id[2] # 0 /\ Distance[w.text] \in Nat
    BY <2>1, <2>2, RetrieverAssumption
  <2> QED BY <2>3 DEF DistanceOf
<1> QED BY <1>1, <1>2, <1>3

\* The parts of a file are numbered from one.
LEMMA PartsStep ==
    ASSUME IndexInv, IndexNext, PartsInv
    PROVE  PartsInv'
<1>1. CASE rows' \subseteq rows
  BY <1>1 DEF PartsInv
<1>2. ASSUME NEW j \in Jobs, rows' = rows \cup NewRows(j) PROVE PartsInv'
  <2>1. ChunksOf[text[j]] \in Nat
    BY IndexAssumption DEF IndexInv, JobsTypeOK
  <2>2. \A w \in NewRows(j) : w.id[2] # 0
    BY <2>1 DEF NewRows, Row, Id
  <2> QED BY <1>2, <2>2 DEF PartsInv
<1> QED BY <1>1, <1>2, RowsStep DEF IndexNext, indexVars

\* Every step of the indexing or of the retrieval keeps these.
LEMMA SearchStep ==
    ASSUME RInv, RInv', [Next]_vars, SearchInv
    PROVE  SearchInv'
<1>1. IndexInv /\ HitsInv /\ RowsTypeOK /\ (\A w \in rows \cup rows' : w \in RowType)
  BY DEF RInv, IndexInv, RowsTypeOK
<1>2. IndexNext
  BY DEF Next, Indexing, Skip, Search, Get, RetrieveFails, Over, vars, IndexNext
<1>3. PartsInv'
  BY <1>1, <1>2, PartsStep DEF SearchInv
<1>4. QueryTypes'
  <2>1. ASSUME NEW w \in (rows \ rows') \cup (rows' \ rows) PROVE w.id[1] \in Files
    BY <1>1 DEF RowType
  <2> DEFINE changed == {w.id[1] : w \in (rows \ rows') \cup (rows' \ rows)}
  <2>2. touched' \in {touched, {}, touched \cup changed}
    BY DEF Next, Indexing, Skip, Search, Get, RetrieveFails, Over, vars, retrievalVars
  <2>3. changed \subseteq Files
    BY <2>1
  <2> HIDE DEF changed
  <2>4. touched' \subseteq Files
    BY <2>2, <2>3 DEF SearchInv, QueryTypes
  <2>5. query' = query /\ phase' \in {phase, "get", "done", "failed", "exited"}
    BY DEF Next, Indexing, Skip, Search, Get, RetrieveFails, Over, vars, retrievalVars
  <2> QED BY <2>4, <2>5 DEF SearchInv, QueryTypes
<1>5. CASE UNCHANGED <<hits, docs>>
  BY <1>3, <1>4, <1>5 DEF SearchInv, SizeInv
<1>6. CASE Search
  <2>1. PICK q \in Nearest(Visible, TopK) : hits' = filterHits(searchHits(q))
    BY <1>6 DEF Search
  <2>2. PICK h : h = searchHits(q)
    OBVIOUS
  <2>3. Visible \subseteq rows
    BY DEF Visible
  <2>4. h \in Seq(HitType4) /\ Sorted(h)
    BY <1>1, <2>2, <2>3, Found
  <2>5. /\ \E m \in Nat : m <= TopK /\ DOMAIN h = 1 .. m
        /\ \A n \in DOMAIN h : h[n].distance >= 0
    BY <1>1, <2>2, <2>3, FoundSize DEF SearchInv
  <2>6. /\ hits' \in Seq(HitType4) /\ Len(hits') <= Len(h)
        /\ \A n \in 1 .. Len(hits') : hits'[n] = h[n]
    BY <2>1, <2>2, <2>4, FilterHits
  <2>7. Len(h) <= TopK /\ TopK \in Nat
    BY <2>4, <2>5, RetrieverAssumption
  <2>8. \A n \in DOMAIN hits' : hits'[n].distance >= 0
    BY <2>4, <2>5, <2>6
  <2>9. docs' = <<>>
    BY <1>6 DEF Search, RInv, DocsInv
  <2> QED BY <1>3, <1>4, <2>6, <2>7, <2>8, <2>9 DEF SearchInv, SizeInv
<1>7. CASE Get /\ docs' # docs
  <2> DEFINE wanted == {hits[n].id : n \in DOMAIN hits}
  <2>1. PICK get \in [wanted -> rows] : docs' = documentsForHits(hits, get)
    BY <1>7 DEF Get
  <2>2. hits' = hits
    BY <1>7 DEF Get
  <2>3. docs' \in [DOMAIN hits -> {docs'[n] : n \in DOMAIN hits}]
    BY <2>1 DEF documentsForHits
  <2> QED BY <1>3, <1>4, <2>2, <2>3 DEF SearchInv, SizeInv
<1>8. UNCHANGED <<hits, docs>> \/ Search \/ (Get /\ docs' # docs)
  BY DEF Next, Indexing, Skip, Get, RetrieveFails, Over, vars, retrievalVars
<1> QED BY <1>3, <1>4, <1>5, <1>6, <1>7, <1>8 DEF SearchInv

\* Every variable of the index and of the retrieval keeps its shape; a search has no more
\* than top_k hits (retriever.go:149-160), each hit of a distance and a place, and there is
\* one document for each hit or none (retriever.go:212-237).
THEOREM TypeCorrect == Spec => []TypeOK
<1>1. Init => SearchInv
  <2> SUFFICES ASSUME Init PROVE SearchInv
    OBVIOUS
  <2>1. hits = <<>> /\ docs = <<>> /\ rows = {} /\ Len(hits) = 0 /\ DOMAIN hits = {}
    BY DEF Init, IndexInit
  <2> QED BY <2>1, RetrieverAssumption DEF Init, SearchInv, QueryTypes, PartsInv, SizeInv
<1>2. RInv /\ RInv' /\ [Next]_vars /\ SearchInv => SearchInv'
  BY SearchStep
<1>3. RInv /\ SearchInv => TypeOK
  <2> SUFFICES ASSUME RInv, SearchInv PROVE TypeOK
    OBVIOUS
  <2>1. JobsTypeOK /\ RowsTypeOK /\ HitsInv /\ QueryTypes /\ SizeInv
    BY DEF RInv, IndexInv, SearchInv
  <2>2. IndexTypeOK
    BY <2>1 DEF JobsTypeOK, RowsTypeOK, RowType, IndexTypeOK
  <2>3. hits \in Seq(HitType4) /\ DOMAIN hits = 1 .. Len(hits)
    BY <2>1 DEF HitsInv
  <2>4. ASSUME NEW n \in DOMAIN hits
        PROVE  [x \in {"id", "distance", "rank"} |-> hits[n][x]] \in HitType
    <3>1. /\ hits[n] \in HitType4 /\ hits[n].distance >= 0 /\ hits[n].rank = n /\ n \in Nat \ {0}
      BY <2>1, <2>3 DEF HitsInv, HitInv, SizeInv
    <3>2. /\ hits[n].id \in Files \X Nat /\ hits[n].distance \in Nat /\ hits[n].rank \in Nat \ {0}
      BY <3>1 DEF HitType4
    <3> QED BY <3>2 DEF HitType
  <2>5. Len(docs) \in {0, Len(hits)}
    <3>1. CASE docs = <<>>
      BY <3>1
    <3>2. CASE docs \in [DOMAIN hits -> {docs[n] : n \in DOMAIN hits}]
      <4>1. PICK S : docs \in [1 .. Len(hits) -> S]
        BY <2>3, <3>2
      <4> QED BY <2>3, <4>1
    <3> QED BY <2>1, <3>1, <3>2 DEF SizeInv
  <2> QED BY <2>1, <2>2, <2>4, <2>5 DEF QueryTypes, SizeInv, TypeOK
<1> QED BY <1>1, <1>2, <1>3, Invariant, PTL DEF Spec
=============================================================================
