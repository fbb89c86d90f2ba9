-------------------------- MODULE EvaluationProofs --------------------------
(***************************************************************************)
(* The scores, means, report and exit code of the evaluation tell the      *)
(* truth, for any data set, commands, texts, tool calls and scores, and up *)
(* to the four places that have a gain.                                    *)
(***************************************************************************)
EXTENDS Evaluation, FiniteSetTheorems, SequenceTheorems, TLAPS

\* The cases there may be, and what may come of one.
Items == UNION {ToSet(cases) : cases \in DataSets}
Outcomes == UNION {runCase(item, flags) : item \in Items, flags \in Modes}
Entry == [id : {item.id : item \in Items}, result : Outcomes]

\* The type invariant, in two parts.
FilesTypeOK ==
    /\ pc \in [Commands -> {"start", "run", "write", "rename", "renamed", "exited", "killed"}]
    /\ code \in [Commands -> {-1, 0, 1, 2}]
    /\ tmp \in Commands \cup {"none"}
    /\ latest \in Commands \cup {"none"}
    /\ text \in [Commands -> Commands \cup {"empty", "garbage"}]
    /\ opened \in [Commands -> Commands \cup {"none"}]
    /\ overlap \in BOOLEAN
CasesTypeOK ==
    /\ mode \in [Commands -> Modes]
    /\ data \in DataSets
    /\ at \in [Commands -> 0 .. Len(data)]
    /\ DOMAIN report = Commands

\* A command that writes has the file that has the temporary name, empty or with its own
\* report; a command that has not come to it has given its file no name.
Busy(e) == pc[e] \in {"write", "rename"}
FileInv(e) ==
    /\ pc[e] \in {"start", "run"} => tmp # e /\ latest # e
    /\ Busy(e) => opened[e] \in Commands
    /\ Busy(e) \/ pc[e] = "renamed" => at[e] = Len(data)
    /\ pc[e] # "exited" => code[e] = -1
    /\ pc[e] = "run" => Loadable(data)
    /\ ~overlap /\ Busy(e) => tmp = opened[e]
    /\ ~overlap /\ pc[e] = "write" => text[opened[e]] = "empty"
    /\ ~overlap /\ pc[e] = "rename" => text[opened[e]] = e
OutputInv ==
    /\ latest # "none" => latest # tmp
    /\ ~overlap => \A e, o \in Commands : Busy(e) /\ Busy(o) => e = o
    /\ ~overlap /\ latest # "none" =>
          /\ text[latest] \in Commands
          /\ pc[text[latest]] \in {"renamed", "exited", "killed"} /\ code[text[latest]] # 2
FilesInv == FilesTypeOK /\ CasesTypeOK /\ OutputInv /\ \A e \in Commands : FileInv(e)

\* The cases of a report are those the tags select of the ones seen, each with what came of it.
Chosen(n) == {m \in 1 .. n : matchesTags(data[m])}
CaseOf(e, n) == data[Ascending(Chosen(at[e]))[n]]
CasesInv(e) ==
    /\ report[e].cases \in Seq(Entry)
    /\ Len(report[e].cases) = Cardinality(Chosen(at[e]))
    /\ \A n \in DOMAIN report[e].cases :
          /\ report[e].cases[n].id = CaseOf(e, n).id
          /\ report[e].cases[n].result \in runCase(CaseOf(e, n), mode[e])

\* Cases count as failed when there are some.
FailedInv(e) ==
    /\ report[e].failed \in Nat
    /\ report[e].failed = 0 <=> \A r \in Results(e) : r.errors = 0
-----------------------------------------------------------------------------
\* How many members of S come up to i.
Place(S, i) == Cardinality({h \in S : h <= i})

\* A member of S has a place among them.
LEMMA PlaceType ==
    ASSUME NEW S, S \subseteq Nat, IsFiniteSet(S), NEW i \in S
    PROVE  Place(S, i) \in 1 .. Cardinality(S)
<1> DEFINE T == {h \in S : h <= i}
<1>1. T \subseteq S /\ i \in T
  OBVIOUS
<1> HIDE DEF T
<1>2. IsFiniteSet(T) /\ Cardinality(T) <= Cardinality(S)
  BY <1>1, FS_Subset
<1>3. Cardinality(T) \in Nat /\ Cardinality(T) # 0 /\ Cardinality(S) \in Nat
  BY <1>1, <1>2, FS_CardinalityType, FS_EmptySet
<1> QED BY <1>2, <1>3 DEF Place, T

\* A greater member has a later place.
LEMMA PlaceGrows ==
    ASSUME NEW S, S \subseteq Nat, IsFiniteSet(S), NEW i \in S, NEW j \in S, i < j
    PROVE  Place(S, i) < Place(S, j)
<1> DEFINE T == {h \in S : h <= i}
           U == {h \in S : h <= j}
<1>1. T \subseteq U /\ j \in U /\ j \notin T /\ U \subseteq S
  <2>1. i \in Nat /\ j \in Nat /\ \A h \in S : h \in Nat
    OBVIOUS
  <2>2. ASSUME NEW h \in S, h <= i PROVE h <= j
    <3>1. h \in Nat
      OBVIOUS
    <3> QED BY <2>1, <2>2, <3>1
  <2>3. ~(j <= i)
    BY <2>1
  <2>4. j <= j
    BY <2>1
  <2> HIDE <2>1
  <2> QED BY <2>2, <2>3, <2>4
<1> HIDE DEF T, U
<1>2. IsFiniteSet(U)
  BY <1>1, FS_Subset
<1>3. IsFiniteSet(T) /\ Cardinality(T) <= Cardinality(U) /\ Cardinality(T) # Cardinality(U)
  BY <1>1, <1>2, FS_Subset
<1>4. Cardinality(T) \in Nat /\ Cardinality(U) \in Nat
  BY <1>2, <1>3, FS_CardinalityType
<1> QED BY <1>3, <1>4 DEF Place, T, U

\* Each place is some member's, and only one member's: Ascending finds it.
LEMMA AscendingAt ==
    ASSUME NEW S, S \subseteq Nat, IsFiniteSet(S)
    PROVE  /\ Cardinality(S) \in Nat
           /\ DOMAIN Ascending(S) = 1 .. Cardinality(S)
           /\ Len(Ascending(S)) = Cardinality(S)
           /\ \A n \in 1 .. Cardinality(S) :
                 Ascending(S)[n] \in S /\ Place(S, Ascending(S)[n]) = n
           /\ \A i \in S : Place(S, i) \in 1 .. Cardinality(S) /\ Ascending(S)[Place(S, i)] = i
<1> DEFINE c == Cardinality(S)
           f == [i \in S |-> Place(S, i)]
<1>1. c \in Nat
  BY FS_CardinalityType
<1>2. \A i \in S : Place(S, i) \in 1 .. c
  BY PlaceType
<1>3. \A i, j \in S : Place(S, i) = Place(S, j) => i = j
  <2> SUFFICES ASSUME NEW i \in S, NEW j \in S, Place(S, i) = Place(S, j), i # j
               PROVE  FALSE
    OBVIOUS
  <2>1. i < j \/ j < i
    OBVIOUS
  <2>2. Place(S, i) \in Nat
    BY <1>2
  <2>3. Place(S, i) < Place(S, j) \/ Place(S, j) < Place(S, i)
    BY <2>1, PlaceGrows
  <2> QED BY <2>2, <2>3
<1>4. f \in Injection(S, 1 .. c)
  BY <1>2, <1>3 DEF Injection, IsInjective
<1>5. IsFiniteSet(1 .. c) /\ Cardinality(1 .. c) = c
  BY <1>1, FS_Interval
<1>6. f \in Surjection(S, 1 .. c)
  <2> HIDE DEF f
  <2> QED BY <1>4, <1>5, FS_Injection
<1>7. \A n \in 1 .. c : \E i \in S : Place(S, i) = n
  BY <1>6 DEF Surjection
<1>8. \A n \in 1 .. c : Ascending(S)[n] = CHOOSE i \in S : Place(S, i) = n
  BY DEF Ascending, Place
<1>9. DOMAIN Ascending(S) = 1 .. c /\ Len(Ascending(S)) = c
  BY <1>1 DEF Ascending
<1>10. \A n \in 1 .. c : Ascending(S)[n] \in S /\ Place(S, Ascending(S)[n]) = n
  BY <1>7, <1>8, Zenon
<1>11. \A i \in S : Ascending(S)[Place(S, i)] = i
  BY <1>2, <1>3, <1>10
<1> QED BY <1>1, <1>2, <1>9, <1>10, <1>11

\* A number above all the others comes last.
LEMMA AscendingPush ==
    ASSUME NEW S, S \subseteq Nat, IsFiniteSet(S), NEW m \in Nat, \A i \in S : i < m
    PROVE  /\ Cardinality(S \cup {m}) = Cardinality(S) + 1
           /\ IsFiniteSet(S \cup {m})
           /\ Ascending(S \cup {m})[Cardinality(S) + 1] = m
           /\ \A n \in 1 .. Cardinality(S) : Ascending(S \cup {m})[n] = Ascending(S)[n]
<1> DEFINE T == S \cup {m}
           c == Cardinality(S)
<1>1. m \notin S /\ T \subseteq Nat
  OBVIOUS
<1>2. IsFiniteSet(T) /\ Cardinality(T) = c + 1 /\ c \in Nat
  BY <1>1, FS_AddElement, FS_CardinalityType
<1>3. Place(T, m) = c + 1
  <2>1. {h \in T : h <= m} = T
    <3>1. \A h \in T : h <= m
      OBVIOUS
    <3> QED BY <3>1
  <2> QED BY <1>2, <2>1 DEF Place
<1>4. \A i \in S : Place(T, i) = Place(S, i)
  <2> SUFFICES ASSUME NEW i \in S PROVE Place(T, i) = Place(S, i)
    OBVIOUS
  <2>1. i \in Nat /\ i < m
    OBVIOUS
  <2>2. ~(m <= i)
    BY <2>1
  <2>3. {h \in T : h <= i} = {h \in S : h <= i}
    BY <2>2
  <2> QED BY <2>3 DEF Place
<1> HIDE DEF T
<1>5. Ascending(T)[c + 1] = m
  BY <1>1, <1>2, <1>3, AscendingAt DEF T
<1>6. ASSUME NEW n \in 1 .. c PROVE Ascending(T)[n] = Ascending(S)[n]
  <2>1. Ascending(S)[n] \in S /\ Place(S, Ascending(S)[n]) = n
    BY AscendingAt
  <2>2. Ascending(S)[n] \in T /\ Place(T, Ascending(S)[n]) = n
    BY <1>4, <2>1 DEF T
  <2> QED BY <1>1, <1>2, <2>2, AscendingAt
<1> QED BY <1>2, <1>5, <1>6 DEF T
-----------------------------------------------------------------------------
\* No step changes the flags or the data set.
LEMMA Fixed == [Next]_vars => mode' = mode /\ data' = data
BY DEF Next, Start, RunCase, Open, Write, Rename, Finish, Kill, Over, vars, runVars

\* The names are not commands.
LEMMA Names == "none" \notin Commands /\ "empty" \notin Commands /\ "garbage" \notin Commands
BY EvaluationAssumption

\* What a command and the files are like is kept by every step.
LEMMA FilesNext == FilesInv /\ [Next]_vars => FilesInv'
<1> SUFFICES ASSUME FilesInv, [Next]_vars
             PROVE  FilesInv'
  OBVIOUS
<1>0. FilesTypeOK /\ CasesTypeOK /\ OutputInv /\ \A o \in Commands : FileInv(o)
  BY DEF FilesInv
<1>1. ASSUME NEW e \in Commands, Start(e)
      PROVE  FilesInv'
  <2>1. FilesTypeOK' /\ CasesTypeOK'
    BY <1>0, <1>1 DEF FilesTypeOK, CasesTypeOK, Start, Goto, Exit, runVars, fileVars
  <2>2. OutputInv'
    BY <1>0, <1>1 DEF FilesTypeOK, OutputInv, Start, Goto, Exit, fileVars, Busy
  <2>3. \A o \in Commands : FileInv(o)'
    BY <1>0, <1>1 DEF FilesTypeOK, CasesTypeOK, FileInv, Start, Goto, Exit, fileVars, runVars, Busy
  <2> QED BY <2>1, <2>2, <2>3 DEF FilesInv
<1>2. ASSUME NEW e \in Commands, RunCase(e)
      PROVE  FilesInv'
  <2>1. FilesTypeOK' /\ CasesTypeOK'
    BY <1>0, <1>2 DEF FilesTypeOK, CasesTypeOK, RunCase, fileVars
  <2>2. OutputInv'
    BY <1>0, <1>2 DEF FilesTypeOK, OutputInv, RunCase, fileVars, Busy
  <2>3. \A o \in Commands : FileInv(o)'
    BY <1>0, <1>2 DEF FilesTypeOK, CasesTypeOK, FileInv, RunCase, fileVars, runVars, Busy
  <2> QED BY <2>1, <2>2, <2>3 DEF FilesInv
<1>3. ASSUME NEW e \in Commands, Open(e)
      PROVE  FilesInv'
  <2>1. pc[e] = "run" /\ at[e] = Len(data) /\ UNCHANGED <<mode, data, at, report>>
    BY <1>3 DEF Open, runVars
  <2>2. CasesTypeOK'
    BY <1>0, <2>1 DEF CasesTypeOK
  <2>3. tmp # e /\ latest # e
    BY <1>0, <2>1 DEF FileInv
  <2>4. ASSUME NEW i \in Commands, i # latest, tmp # "none" => i = tmp, tmp = "none" => i = e,
               tmp' = i, opened' = [opened EXCEPT ![e] = i], text' = [text EXCEPT ![i] = "empty"],
               overlap' = (overlap \/ \E o \in Commands : pc[o] \in {"write", "rename"}),
               Goto(e, "write"), UNCHANGED latest
        PROVE  FilesInv'
    <3>1. /\ pc' = [pc EXCEPT ![e] = "write"] /\ code' = code /\ latest' = latest
          /\ ~overlap' => ~overlap /\ \A o \in Commands : ~Busy(o)
      BY <2>4 DEF Goto, Busy
    <3>2. FilesTypeOK'
      BY <1>0, <2>4, <3>1 DEF FilesTypeOK
    <3>3. OutputInv'
      BY <1>0, <2>1, <2>4, <3>1, Names DEF FilesTypeOK, OutputInv, Busy
    <3>4. \A o \in Commands : FileInv(o)'
      BY <1>0, <2>1, <2>2, <2>3, <2>4, <3>1, Names DEF FilesTypeOK, CasesTypeOK, FileInv, Busy
    <3> QED BY <2>2, <3>2, <3>3, <3>4 DEF FilesInv
  <2>5. ASSUME Exit(e, 2), UNCHANGED fileVars
        PROVE  FilesInv'
    <3>1. FilesTypeOK'
      BY <1>0, <2>1, <2>5 DEF FilesTypeOK, Exit, fileVars
    <3>2. OutputInv'
      BY <1>0, <2>1, <2>5 DEF FilesTypeOK, OutputInv, Exit, fileVars, Busy
    <3>3. \A o \in Commands : FileInv(o)'
      BY <1>0, <2>1, <2>5 DEF FilesTypeOK, CasesTypeOK, FileInv, Exit, fileVars, Busy
    <3> QED BY <2>2, <3>1, <3>2, <3>3 DEF FilesInv
  <2>6. PICK i : i = IF tmp = "none" THEN e ELSE tmp
    OBVIOUS
  <2>7. i \in Commands /\ i # latest /\ (tmp # "none" => i = tmp) /\ (tmp = "none" => i = e)
    BY <1>0, <2>3, <2>6, Names DEF FilesTypeOK, OutputInv
  <2> QED BY <1>3, <2>4, <2>5, <2>6, <2>7 DEF Open
<1>4. ASSUME NEW e \in Commands, Write(e)
      PROVE  FilesInv'
  <2>1. FilesTypeOK' /\ CasesTypeOK'
    <3>1. pc[e] = "write" /\ opened[e] \in Commands
      BY <1>0, <1>4 DEF Write, FileInv, Busy
    <3>2. PICK x \in Commands \cup {"empty", "garbage"} : text' = [text EXCEPT ![opened[e]] = x]
      BY <1>4 DEF Write
    <3>3. text' \in [Commands -> Commands \cup {"empty", "garbage"}]
      BY <1>0, <3>1, <3>2 DEF FilesTypeOK
    <3>4. CasesTypeOK' /\ latest' = latest /\ opened' = opened /\ overlap' = overlap
      BY <1>0, <1>4 DEF CasesTypeOK, Write, runVars
    <3>5. /\ pc' \in [Commands -> {"start", "run", "write", "rename", "renamed", "exited", "killed"}]
          /\ code' \in [Commands -> {-1, 0, 1, 2}]
          /\ tmp' \in Commands \cup {"none"}
      BY <1>0, <1>4 DEF FilesTypeOK, Write, Goto, Exit
    <3> QED BY <1>0, <3>3, <3>4, <3>5 DEF FilesTypeOK
  <2>2. OutputInv'
    BY <1>0, <1>4, Names DEF FilesTypeOK, FileInv, OutputInv, Write, Goto, Exit, fileVars, runVars, Busy
  <2>3. \A o \in Commands : FileInv(o)'
    BY <1>0, <1>4, Names DEF FilesTypeOK, CasesTypeOK, OutputInv, FileInv, Write, Goto, Exit,
                      fileVars, runVars, Busy
  <2> QED BY <2>1, <2>2, <2>3 DEF FilesInv
<1>5. ASSUME NEW e \in Commands, Rename(e)
      PROVE  FilesInv'
  <2>1. FilesTypeOK' /\ CasesTypeOK'
    BY <1>0, <1>5 DEF FilesTypeOK, CasesTypeOK, FileInv, Busy, Rename, Goto, Exit, fileVars, runVars
  <2>2. OutputInv'
    BY <1>0, <1>5, Names DEF FilesTypeOK, FileInv, OutputInv, Rename, Goto, Exit, fileVars, runVars, Busy
  <2>3. \A o \in Commands : FileInv(o)'
    BY <1>0, <1>5, Names DEF FilesTypeOK, CasesTypeOK, OutputInv, FileInv, Rename, Goto, Exit,
                      fileVars, runVars, Busy
  <2> QED BY <2>1, <2>2, <2>3 DEF FilesInv
<1>6. ASSUME NEW e \in Commands, Finish(e)
      PROVE  FilesInv'
  <2>1. /\ pc[e] = "renamed" /\ pc' = [pc EXCEPT ![e] = "exited"]
        /\ \E c \in {0, 1} : code' = [code EXCEPT ![e] = c]
        /\ UNCHANGED <<mode, data, at, report, tmp, latest, text, opened, overlap>>
    BY <1>6 DEF Finish, Exit, runVars, fileVars
  <2>2. FilesTypeOK' /\ CasesTypeOK'
    BY <1>0, <2>1 DEF FilesTypeOK, CasesTypeOK
  <2>3. OutputInv'
    BY <1>0, <2>1 DEF FilesTypeOK, OutputInv, Busy
  <2>4. \A o \in Commands : FileInv(o)'
    BY <1>0, <2>1 DEF FilesTypeOK, FileInv, Busy
  <2> QED BY <2>2, <2>3, <2>4 DEF FilesInv
<1>7. ASSUME NEW e \in Commands, Kill(e)
      PROVE  FilesInv'
  <2>1. FilesTypeOK' /\ CasesTypeOK'
    <3>1. pc[e] = "write" => opened[e] \in Commands
      BY <1>0 DEF FileInv, Busy
    <3>2. text' \in [Commands -> Commands \cup {"empty", "garbage"}]
      BY <1>0, <1>7, <3>1 DEF FilesTypeOK, Kill
    <3> QED BY <1>0, <1>7, <3>2 DEF FilesTypeOK, CasesTypeOK, Kill, Goto, runVars
  <2>2. OutputInv'
    BY <1>0, <1>7, Names DEF FilesTypeOK, FileInv, OutputInv, Kill, Goto, Exit, fileVars, runVars, Busy
  <2>3. \A o \in Commands : FileInv(o)'
    BY <1>0, <1>7, Names DEF FilesTypeOK, CasesTypeOK, OutputInv, FileInv, Kill, Goto, Exit,
                      fileVars, runVars, Busy
  <2> QED BY <2>1, <2>2, <2>3 DEF FilesInv
<1>8. CASE UNCHANGED vars
  BY <1>0, <1>8 DEF FilesInv, FilesTypeOK, CasesTypeOK, OutputInv, FileInv, Busy, vars, runVars, fileVars
<1> QED BY <1>1, <1>2, <1>3, <1>4, <1>5, <1>6, <1>7, <1>8 DEF Next, Over

\* Before the first step no file has a name.
LEMMA FilesInit == Init => FilesInv
<1> SUFFICES ASSUME Init
             PROVE  FilesInv
  OBVIOUS
<1>1. FilesTypeOK
  BY DEF Init, FilesTypeOK
<1>2. CasesTypeOK
  <2>1. data \in DataSets /\ Len(data) \in Nat
    BY EvaluationAssumption DEF Init
  <2> QED BY <2>1 DEF Init, CasesTypeOK
<1>3. OutputInv
  BY DEF Init, OutputInv, Busy
<1>4. \A e \in Commands : FileInv(e)
  BY Names DEF Init, FileInv, Busy
<1> QED BY <1>1, <1>2, <1>3, <1>4 DEF FilesInv

\* The output is a whole report or the one before it, however a command ends, as
\* long as one command at a time writes, and never the report of a command that says
\* with its exit code that it did not write one (cmd/eval/main.go:98-141).
THEOREM WholeCorrect == Spec => []ReportWhole
<1>1. FilesInv => ReportWhole
  BY DEF FilesInv, OutputInv, ReportWhole
<1> QED BY <1>1, FilesInit, FilesNext, PTL DEF Spec
-----------------------------------------------------------------------------
\* A case of the data set is one there may be.
LEMMA ItemType ==
    ASSUME CasesTypeOK, NEW n \in 1 .. Len(data)
    PROVE  data[n] \in Items /\ data[n] \in ToSet(data)
<1>1. data \in DataSets /\ data \in Seq(ToSet(data))
  BY EvaluationAssumption DEF CasesTypeOK
<1>2. data[n] \in ToSet(data)
  BY <1>1
<1> QED BY <1>1, <1>2 DEF Items

\* What the retriever's part of a case is like,
LEMMA RetrievalPart ==
    ASSUME NEW item, NEW on, NEW x \in RetrievalParts(item, on)
    PROVE  /\ x.errors \in Nat /\ x.answer = <<>>
           /\ \/ x.retrieved = <<>> /\ x.order = <<>> /\ x.metrics = <<>>
              \/ \E docs \in Retrievals : x = Scored(item, docs)
<1>1. x \in {Nothing, Failure} \/ \E docs \in Retrievals : x = Scored(item, docs)
  BY DEF RetrievalParts
<1>2. \A docs : Scored(item, docs).errors = 0 /\ Scored(item, docs).answer = <<>>
  BY DEF Scored, Nothing
<1> QED BY <1>1, <1>2 DEF Nothing, Failure

\* the judge's,
LEMMA JudgePart ==
    ASSUME NEW on, NEW x \in JudgeParts(on)
    PROVE  /\ x.errors \in Nat /\ x.answer = <<>> /\ x.retrieved = <<>> /\ x.order = <<>>
           /\ \/ x.metrics = <<>>
              \/ \E score \in Scores : Valid(score) /\ x.metrics = [judge |-> score.value]
<1>1. x \in {Nothing, Failure} \/ \E score \in Scores : x = Judged(score)
  BY DEF JudgeParts
<1> QED BY <1>1 DEF Judged, Nothing, Failure

\* and the agent's.
LEMMA AgentPart ==
    ASSUME NEW item, NEW flags, NEW x \in AgentParts(item, flags)
    PROVE  /\ x.errors \in Nat /\ x.retrieved = <<>> /\ x.order = <<>>
           /\ \/ x.answer = <<>> /\ x.metrics = <<>>
              \/ \E a \in Texts, t \in ToolCalls, j \in JudgeParts(flags.judge) :
                    /\ x.answer = a
                    /\ x.metrics = Merge(Answered(item, a, t).metrics, j.metrics)
<1>1. CASE x \in {Nothing, Failure}
  BY <1>1 DEF Nothing, Failure
<1>2. ASSUME NEW a \in Texts, NEW t \in ToolCalls, NEW j \in JudgeParts(flags.judge),
             x = Join(Answered(item, a, t), j)
      PROVE  /\ x.errors \in Nat /\ x.retrieved = <<>> /\ x.order = <<>>
             /\ x.answer = a
             /\ x.metrics = Merge(Answered(item, a, t).metrics, j.metrics)
  <2>1. /\ Answered(item, a, t).retrieved = <<>> /\ Answered(item, a, t).order = <<>>
        /\ Answered(item, a, t).answer = a /\ Answered(item, a, t).errors = 0
    BY DEF Answered, Nothing
  <2>2. j.errors \in Nat /\ j.answer = <<>> /\ j.retrieved = <<>> /\ j.order = <<>>
    BY JudgePart
  <2>3. a \o <<>> = a
    BY EvaluationAssumption, ConcatEmptySeq
  <2>4. <<>> \o <<>> = <<>>
    OBVIOUS
  <2> QED BY <1>2, <2>1, <2>2, <2>3, <2>4 DEF Join
<1>3. \/ x \in {Nothing, Failure}
      \/ \E a \in Texts, t \in ToolCalls, j \in JudgeParts(flags.judge) :
            x = Join(Answered(item, a, t), j)
  BY DEF AgentParts
<1> QED BY <1>1, <1>2, <1>3

\* What may come of a case.
LEMMA Outcome ==
    ASSUME NEW item, NEW flags, NEW r \in runCase(item, flags)
    PROVE  \E x \in RetrievalParts(item, flags.retrieval), y \in AgentParts(item, flags) :
              /\ r.retrieved = x.retrieved \o <<>>
              /\ r.order = x.order \o <<>>
              /\ r.answer = <<>> \o y.answer
              /\ r.metrics = Merge(x.metrics, y.metrics)
              /\ r.errors = x.errors + y.errors /\ r.errors \in Nat
<1>1. PICK x \in RetrievalParts(item, flags.retrieval), y \in AgentParts(item, flags) :
         r = Join(x, y)
  BY DEF runCase
<1>2. x.errors \in Nat /\ x.answer = <<>> /\ y.errors \in Nat /\ y.retrieved = <<>> /\ y.order = <<>>
  BY RetrievalPart, AgentPart
<1> QED BY <1>1, <1>2 DEF Join

\* Only the next case changes a report, and appends to it.
LEMMA ReportNext ==
    ASSUME CasesTypeOK, [Next]_vars, NEW e \in Commands
    PROVE  \/ at'[e] = at[e] /\ report'[e] = report[e]
           \/ /\ at[e] < Len(data) /\ at'[e] = at[e] + 1
              /\ ~matchesTags(data[at[e] + 1]) /\ report'[e] = report[e]
              /\ pc[e] = "run"
           \/ /\ at[e] < Len(data) /\ at'[e] = at[e] + 1
              /\ matchesTags(data[at[e] + 1])
              /\ pc[e] = "run"
              /\ \E result \in runCase(data[at[e] + 1], mode[e]) :
                    report'[e] = AddCase(report[e], data[at[e] + 1], result)
<1>1. ASSUME NEW o \in Commands, RunCase(o)
      PROVE  \/ at'[e] = at[e] /\ report'[e] = report[e]
             \/ /\ at[e] < Len(data) /\ at'[e] = at[e] + 1
                /\ ~matchesTags(data[at[e] + 1]) /\ report'[e] = report[e]
                /\ pc[e] = "run"
             \/ /\ at[e] < Len(data) /\ at'[e] = at[e] + 1
                /\ matchesTags(data[at[e] + 1])
                /\ pc[e] = "run"
                /\ \E result \in runCase(data[at[e] + 1], mode[e]) :
                      report'[e] = AddCase(report[e], data[at[e] + 1], result)
  <2>1. CASE o = e
    BY <1>1, <2>1 DEF RunCase, CasesTypeOK
  <2>2. CASE o # e
    BY <1>1, <2>2 DEF RunCase, CasesTypeOK
  <2> QED BY <2>1, <2>2
<1>2. ASSUME NEW o \in Commands, Start(o) \/ Open(o) \/ Write(o) \/ Rename(o) \/ Finish(o)
                                  \/ Kill(o)
      PROVE  at' = at /\ report' = report
  BY <1>2 DEF Start, Open, Write, Rename, Finish, Kill, runVars
<1>3. CASE UNCHANGED vars
  BY <1>3 DEF vars, runVars
<1> QED BY <1>1, <1>2, <1>3 DEF Next, Over

\* The cases chosen of a stretch of the data set are numbers up to its end.
LEMMA ChosenType ==
    ASSUME NEW n \in Nat
    PROVE  Chosen(n) \subseteq Nat /\ IsFiniteSet(Chosen(n)) /\ \A i \in Chosen(n) : i < n + 1
<1>1. Chosen(n) \subseteq 1 .. n
  BY DEF Chosen
<1>2. IsFiniteSet(1 .. n)
  BY FS_Interval
<1>3. IsFiniteSet(Chosen(n))
  BY <1>1, <1>2, FS_Subset
<1> QED BY <1>1, <1>3

\* One more case is chosen, and comes last, exactly if the tags select it.
LEMMA ChosenNext ==
    ASSUME NEW n \in Nat
    PROVE  /\ ~matchesTags(data[n + 1]) => Chosen(n + 1) = Chosen(n)
           /\ matchesTags(data[n + 1]) => Chosen(n + 1) = Chosen(n) \cup {n + 1}
<1>1. 1 .. n + 1 = (1 .. n) \cup {n + 1}
  OBVIOUS
<1> QED BY <1>1 DEF Chosen

\* The cases of a report stay those the tags select of the ones seen.
LEMMA CasesNext ==
    ASSUME FilesInv, [Next]_vars, NEW e \in Commands, CasesInv(e)
    PROVE  CasesInv(e)'
<1>0. CasesTypeOK /\ data' = data /\ mode' = mode
  BY Fixed DEF FilesInv
<1>1. at[e] \in Nat /\ Len(data) \in Nat
  <2>1. Len(data) \in Nat
    BY <1>0, EvaluationAssumption DEF CasesTypeOK
  <2> QED BY <1>0, <2>1 DEF CasesTypeOK
<1>2. CASE report'[e] = report[e] /\ Chosen(at[e])' = Chosen(at[e])
  <2>1. \A n : CaseOf(e, n)' = CaseOf(e, n)
    BY <1>0, <1>2 DEF CaseOf
  <2> QED BY <1>0, <1>2, <2>1 DEF CasesInv
<1>3. CASE at'[e] = at[e] /\ report'[e] = report[e]
  <2>1. Chosen(at[e])' = Chosen(at[e])
    BY <1>0, <1>3 DEF Chosen, matchesTags
  <2> QED BY <1>2, <1>3, <2>1
<1>4. CASE /\ at'[e] = at[e] + 1 /\ ~matchesTags(data[at[e] + 1]) /\ report'[e] = report[e]
  <2>1. Chosen(at[e])' = Chosen(at[e] + 1)
    BY <1>0, <1>4 DEF Chosen, matchesTags
  <2>2. Chosen(at[e] + 1) = Chosen(at[e])
    BY <1>1, <1>4, ChosenNext
  <2> QED BY <1>2, <1>4, <2>1, <2>2
<1>5. ASSUME NEW result \in runCase(data[at[e] + 1], mode[e]), at[e] < Len(data),
             at'[e] = at[e] + 1, matchesTags(data[at[e] + 1]),
             report'[e] = AddCase(report[e], data[at[e] + 1], result)
      PROVE  CasesInv(e)'
  <2> DEFINE m == at[e] + 1
             item == data[m]
             S == Chosen(at[e])
             c == Cardinality(S)
             one == [id |-> item.id, result |-> result]
             cases == report[e].cases
  <2>1. m \in 1 .. Len(data) /\ m \in Nat
    BY <1>1, <1>5
  <2>2. item \in Items
    BY <1>0, <2>1, ItemType
  <2>3. one \in Entry
    <3>1. mode[e] \in Modes
      BY <1>0 DEF CasesTypeOK
    <3>2. result \in Outcomes
      BY <1>5, <2>2, <3>1 DEF Outcomes
    <3> QED BY <2>2, <3>2 DEF Entry
  <2>4. cases \in Seq(Entry) /\ Len(cases) = c
    BY DEF CasesInv
  <2>5. report'[e].cases = Append(cases, one)
    BY <1>5 DEF AddCase
  <2>6. S \subseteq Nat /\ IsFiniteSet(S) /\ \A i \in S : i < m
    BY <1>1, ChosenType
  <2>7. Chosen(at[e])' = S \cup {m}
    <3>1. Chosen(at[e])' = Chosen(m)
      BY <1>0, <1>5 DEF Chosen, matchesTags
    <3> QED BY <1>1, <1>5, <3>1, ChosenNext
  <2>8. c \in Nat
    BY <2>6, FS_CardinalityType
  <2> HIDE DEF m, S, c, item, one, cases
  <2>9. /\ Cardinality(S \cup {m}) = c + 1
        /\ Ascending(S \cup {m})[c + 1] = m
        /\ \A n \in 1 .. c : Ascending(S \cup {m})[n] = Ascending(S)[n]
    BY <2>1, <2>6, AscendingPush DEF c
  <2>10. /\ report'[e].cases \in Seq(Entry) /\ Len(report'[e].cases) = c + 1
         /\ DOMAIN report'[e].cases = 1 .. c + 1
         /\ report'[e].cases[c + 1] = one
         /\ \A n \in 1 .. c : report'[e].cases[n] = cases[n]
    BY <2>3, <2>4, <2>5, <2>8
  <2>11. \A n \in 1 .. c + 1 : CaseOf(e, n)' = IF n = c + 1 THEN item ELSE CaseOf(e, n)
    <3>1. \A n : CaseOf(e, n)' = data[Ascending(S \cup {m})[n]]
      BY <1>0, <2>7 DEF CaseOf
    <3>2. \A n : CaseOf(e, n) = data[Ascending(S)[n]]
      BY DEF CaseOf, S
    <3>3. \A n \in 1 .. c + 1 : n = c + 1 \/ n \in 1 .. c
      BY <2>8
    <3> QED BY <2>9, <3>1, <3>2, <3>3 DEF item
  <2>12. \A n \in 1 .. c : /\ cases[n].id = CaseOf(e, n).id
                           /\ cases[n].result \in runCase(CaseOf(e, n), mode[e])
    BY <2>4 DEF CasesInv, cases
  <2>13. ASSUME NEW n \in 1 .. c + 1
         PROVE  /\ report'[e].cases[n].id = CaseOf(e, n)'.id
                /\ report'[e].cases[n].result \in runCase(CaseOf(e, n)', mode'[e])
    <3>1. CASE n = c + 1
      <4>1. one.id = item.id /\ one.result = result /\ result \in runCase(item, mode[e])
        BY <1>5 DEF one, item, m
      <4>2. CaseOf(e, n)' = item /\ report'[e].cases[n] = one
        BY <2>10, <2>11, <3>1
      <4> QED BY <1>0, <4>1, <4>2
    <3>2. CASE n \in 1 .. c
      <4>1. n # c + 1
        BY <2>8, <3>2
      <4>2. CaseOf(e, n)' = CaseOf(e, n) /\ report'[e].cases[n] = cases[n]
        BY <2>10, <2>11, <3>2, <4>1
      <4> QED BY <1>0, <2>12, <3>2, <4>2
    <3> QED BY <2>8, <3>1, <3>2
  <2>14. \A n \in 1 .. c + 1 : (report[e].cases[n].result \in runCase(CaseOf(e, n), mode[e]))'
                                <=> report'[e].cases[n].result \in runCase(CaseOf(e, n)', mode'[e])
    BY DEF runCase, RetrievalParts, AgentParts, JudgeParts, Retrievals, Nothing
  <2> QED BY <2>7, <2>9, <2>10, <2>13 DEF CasesInv
<1> QED BY <1>0, <1>3, <1>4, <1>5, ReportNext

\* What came of a case has a number of errors.
LEMMA OutcomeErrors == \A r \in Outcomes : r.errors \in Nat
<1> SUFFICES ASSUME NEW item \in Items, NEW flags \in Modes, NEW r \in runCase(item, flags)
             PROVE  r.errors \in Nat
  BY DEF Outcomes
<1> QED BY Outcome

\* The count of failed cases stays right.
LEMMA FailedNext ==
    ASSUME FilesInv, [Next]_vars, NEW e \in Commands, CasesInv(e), FailedInv(e)
    PROVE  FailedInv(e)'
<1>0. CasesTypeOK /\ data' = data /\ mode' = mode
  BY Fixed DEF FilesInv
<1>1. CASE report'[e] = report[e]
  BY <1>1 DEF FailedInv, Results
<1>2. ASSUME NEW result \in runCase(data[at[e] + 1], mode[e]), at[e] < Len(data),
             report'[e] = AddCase(report[e], data[at[e] + 1], result)
      PROVE  FailedInv(e)'
  <2> DEFINE item == data[at[e] + 1]
             one == [id |-> item.id, result |-> result]
             cases == report[e].cases
  <2>1. at[e] + 1 \in 1 .. Len(data)
    <3>1. Len(data) \in Nat
      BY <1>0, EvaluationAssumption DEF CasesTypeOK
    <3> QED BY <1>0, <1>2, <3>1 DEF CasesTypeOK
  <2>2. result \in Outcomes /\ one \in Entry
    <3>1. item \in Items
      BY <1>0, <2>1, ItemType
    <3>2. mode[e] \in Modes
      BY <1>0 DEF CasesTypeOK
    <3>3. result \in Outcomes
      BY <1>2, <3>1, <3>2 DEF Outcomes
    <3> QED BY <3>1, <3>3 DEF Entry
  <2>3. cases \in Seq(Entry)
    BY DEF CasesInv
  <2>4. /\ report'[e].cases = Append(cases, one)
        /\ report'[e].failed = report[e].failed + (IF result.errors > 0 THEN 1 ELSE 0)
    BY <1>2 DEF AddCase
  <2>5. Results(e)' = Results(e) \cup {result}
    <3>1. Results(e)' = {report'[e].cases[n].result : n \in DOMAIN report'[e].cases}
      BY DEF Results
    <3>2. Results(e) = {cases[n].result : n \in DOMAIN cases}
      BY DEF Results
    <3>3. one.result = result
      OBVIOUS
    <3> HIDE DEF cases, one
    <3>4. /\ DOMAIN cases = 1 .. Len(cases) /\ Len(cases) \in Nat
          /\ DOMAIN Append(cases, one) = 1 .. Len(cases) + 1
          /\ Append(cases, one)[Len(cases) + 1] = one
          /\ \A n \in 1 .. Len(cases) : Append(cases, one)[n] = cases[n]
      BY <2>2, <2>3
    <3>5. 1 .. Len(cases) + 1 = (1 .. Len(cases)) \cup {Len(cases) + 1}
      BY <3>4
    <3>6. \A r : r \in Results(e)' <=> r \in Results(e) \cup {result}
      BY <2>4, <3>1, <3>2, <3>3, <3>4, <3>5
    <3> QED BY <3>6
  <2>6. result.errors \in Nat
    BY <2>2, OutcomeErrors
  <2>7. (\A r \in Results(e)' : r.errors = 0) <=>
           (\A r \in Results(e) : r.errors = 0) /\ result.errors = 0
    BY <2>5
  <2>8. report[e].failed \in Nat /\ (report[e].failed = 0 <=> \A r \in Results(e) : r.errors = 0)
    BY DEF FailedInv
  <2>9. report'[e].failed \in Nat /\ (report'[e].failed = 0 <=> \A r \in Results(e)' : r.errors = 0)
    BY <2>4, <2>6, <2>7, <2>8
  <2> QED BY <2>9 DEF FailedInv
<1> QED BY <1>0, <1>1, <1>2, ReportNext

\* The reports are right about the cases and the failures.
CountsInv == FilesInv /\ \A e \in Commands : CasesInv(e) /\ FailedInv(e)

\* The reports are right before the first step,
LEMMA CountsInit == Init => CountsInv
<1> SUFFICES ASSUME Init, NEW e \in Commands
             PROVE  CasesInv(e) /\ FailedInv(e)
  BY FilesInit DEF CountsInv
<1>1. report[e].cases = <<>> /\ report[e].failed = 0 /\ at[e] = 0
  BY DEF Init, NewReport
<1>2. Chosen(0) = {} /\ Cardinality({}) = 0
  BY FS_EmptySet DEF Chosen
<1>3. CasesInv(e)
  BY <1>1, <1>2 DEF CasesInv
<1>4. FailedInv(e)
  BY <1>1 DEF FailedInv, Results
<1> QED BY <1>3, <1>4

\* and stay so.
LEMMA CountsNext == CountsInv /\ [Next]_vars => CountsInv'
BY FilesNext, CasesNext, FailedNext DEF CountsInv

\* A command that exits with 0 or 1 has put its own whole report into place before, unless
\* commands overlap; the report is on all cases its tags select, and 0 means that no part of
\* any case failed (cmd/eval/main.go:95-141).
THEOREM ExitCorrect == Spec => ExitTruthful
<1> DEFINE
      Truthful(e) ==
        /\ pc[e] # "renamed" /\ pc'[e] = "renamed" /\ ~overlap => text[latest'] = e
        /\ pc[e] # "exited" /\ pc'[e] = "exited" /\ code'[e] \in {0, 1} =>
              /\ pc[e] = "renamed"
              /\ [n \in DOMAIN report[e].cases |-> report[e].cases[n].id]
                    = LET chosen == Ascending({n \in DOMAIN data : matchesTags(data[n])})
                      IN [n \in DOMAIN chosen |-> data[chosen[n]].id]
              /\ code'[e] = 0 <=> \A r \in Results(e) : r.errors = 0
<1>1. ASSUME CountsInv, [Next]_vars, NEW e \in Commands
      PROVE  Truthful(e)
  <2>1. FilesTypeOK /\ CasesTypeOK /\ FileInv(e) /\ CasesInv(e) /\ FailedInv(e)
    BY <1>1 DEF CountsInv, FilesInv
  <2>2. \/ Rename(e) \/ Finish(e)
        \/ pc'[e] # "renamed" /\ (pc'[e] = "exited" => code'[e] = 2)
        \/ pc'[e] = pc[e]
    <3>1. \A o \in Commands : Start(o) => (o = e /\ code'[e] = 2 /\ pc'[e] = "exited")
                                          \/ pc'[e] = pc[e] \/ pc'[e] = "run"
      BY <2>1 DEF Start, Goto, Exit, FilesTypeOK
    <3>2. \A o \in Commands : RunCase(o) => pc'[e] = pc[e]
      BY DEF RunCase
    <3>3. \A o \in Commands : Open(o) => (o = e /\ code'[e] = 2 /\ pc'[e] = "exited")
                                         \/ pc'[e] = pc[e] \/ pc'[e] = "write"
      BY <2>1 DEF Open, Goto, Exit, FilesTypeOK
    <3>4. \A o \in Commands : Write(o) => (o = e /\ code'[e] = 2 /\ pc'[e] = "exited")
                                          \/ pc'[e] = pc[e] \/ pc'[e] = "rename"
      BY <2>1 DEF Write, Goto, Exit, FilesTypeOK
    <3>5. \A o \in Commands : Kill(o) => pc'[e] = pc[e] \/ pc'[e] = "killed"
      BY <2>1 DEF Kill, Goto, FilesTypeOK
    <3>6. \A o \in Commands : Rename(o) => o = e \/ pc'[e] = pc[e]
      BY <2>1 DEF Rename, Goto, Exit, FilesTypeOK
    <3>7. \A o \in Commands : Finish(o) => o = e \/ pc'[e] = pc[e]
      BY <2>1 DEF Finish, Exit, FilesTypeOK
    <3>8. UNCHANGED vars => pc'[e] = pc[e]
      BY DEF vars
    <3> QED BY <1>1, <3>1, <3>2, <3>3, <3>4, <3>5, <3>6, <3>7, <3>8 DEF Next, Over
  <2>3. ASSUME pc[e] # "renamed", pc'[e] = "renamed", ~overlap
        PROVE  text[latest'] = e
    <3>1. Rename(e)
      BY <2>1, <2>2, <2>3 DEF Finish, Exit, FilesTypeOK
    <3>2. latest' = tmp /\ pc[e] = "rename"
      BY <2>1, <2>3, <3>1 DEF Rename, Goto, Exit, FilesTypeOK
    <3> QED BY <2>1, <2>3, <3>2 DEF FileInv, Busy
  <2>4. ASSUME pc[e] # "exited", pc'[e] = "exited", code'[e] \in {0, 1}
        PROVE  /\ pc[e] = "renamed"
               /\ [n \in DOMAIN report[e].cases |-> report[e].cases[n].id]
                     = LET chosen == Ascending({n \in DOMAIN data : matchesTags(data[n])})
                       IN [n \in DOMAIN chosen |-> data[chosen[n]].id]
               /\ code'[e] = 0 <=> \A r \in Results(e) : r.errors = 0
    <3>1. Finish(e)
      <4>1. ~Rename(e)
        BY <2>1, <2>4 DEF Rename, Goto, Exit, FilesTypeOK
      <4> QED BY <2>2, <2>4, <4>1
    <3>2. pc[e] = "renamed" /\ code'[e] = IF report[e].failed > 0 THEN 1 ELSE 0
      BY <2>1, <3>1 DEF Finish, Exit, FilesTypeOK
    <3>3. code'[e] = 0 <=> \A r \in Results(e) : r.errors = 0
      BY <2>1, <3>2 DEF FailedInv
    <3>4. {n \in DOMAIN data : matchesTags(data[n])} = Chosen(at[e])
      <4>1. data \in Seq(ToSet(data))
        BY <2>1, EvaluationAssumption DEF CasesTypeOK
      <4>2. DOMAIN data = 1 .. Len(data) /\ at[e] = Len(data)
        BY <2>1, <3>2, <4>1 DEF FileInv
      <4> QED BY <4>2 DEF Chosen
    <3>5. /\ DOMAIN report[e].cases = DOMAIN Ascending(Chosen(at[e]))
          /\ \A n \in DOMAIN report[e].cases :
                report[e].cases[n].id = data[Ascending(Chosen(at[e]))[n]].id
      <4>1. DOMAIN report[e].cases = 1 .. Cardinality(Chosen(at[e]))
        BY <2>1 DEF CasesInv
      <4>2. DOMAIN Ascending(Chosen(at[e])) = 1 .. Cardinality(Chosen(at[e]))
        BY DEF Ascending
      <4> QED BY <2>1, <4>1, <4>2 DEF CasesInv, CaseOf
    <3> QED BY <3>2, <3>3, <3>4, <3>5
  <2> QED BY <2>3, <2>4
<1>2. CountsInv /\ [Next]_vars => [\A e \in Commands : Truthful(e)]_vars
  BY <1>1
<1> QED BY <1>2, CountsInit, CountsNext, PTL DEF Spec, ExitTruthful
-----------------------------------------------------------------------------
\* A set of numbers has a least one,
LEMMA Least ==
    ASSUME NEW S, S \subseteq Nat, S # {}
    PROVE  \E n \in S : \A m \in S : n <= m
<1>1. PICK R : IsWellFoundedOn(R, Nat) /\ \A m, n \in Nat : <<m, n>> \in R <=> m < n
  <2>1. \A m, n \in Nat : <<m, n>> \in OpToRel(<, Nat) <=> m < n
    BY DEF OpToRel
  <2> QED BY <2>1, NatLessThanWellFounded
<1>2. IsWellFoundedOn(R, Nat)
  BY <1>1
<1>3. PICK n \in S : \A m \in S : ~(<<m, n>> \in R)
  BY <1>2, WFMin, Zenon
<1>4. ASSUME NEW m \in S PROVE n <= m
  <2>1. m \in Nat /\ n \in Nat /\ ~(<<m, n>> \in R)
    BY <1>3
  <2>2. ~(m < n)
    BY <1>1, <2>1
  <2> QED BY <2>1, <2>2
<1> QED BY <1>4

\* which is induction, for a set.
LEMMA NatSet ==
    ASSUME NEW S, S \subseteq Nat, 0 \in S, \A n \in S : n + 1 \in S
    PROVE  S = Nat
<1>1. CASE Nat \ S # {}
  <2>1. PICK n \in Nat \ S : \A m \in Nat \ S : n <= m
    BY <1>1, Least
  <2>2. n # 0 /\ n - 1 \in Nat /\ n - 1 \in S
    BY <2>1
  <2> QED BY <2>1, <2>2
<1> QED BY <1>1

\* What remains of a list of ids without repetitions.
LEMMA Unique ==
    ASSUME NEW X, NEW s \in Seq(X)
    PROVE  /\ uniqueStrings(s) \in Seq(X)
           /\ Len(uniqueStrings(s)) <= Len(s)
           /\ \A m, n \in DOMAIN uniqueStrings(s) :
                 uniqueStrings(s)[m] = uniqueStrings(s)[n] => m = n
           /\ ToSet(uniqueStrings(s)) = ToSet(s)
           /\ Len(uniqueStrings(s)) = Len(s) =>
                 \A m, n \in DOMAIN s : s[m] = s[n] => m = n
<1> DEFINE F == {i \in DOMAIN s : \A h \in 1 .. i - 1 : s[h] # s[i]}
           A == Ascending(F)
           U == uniqueStrings(s)
           c == Cardinality(F)
<1>1. DOMAIN s = 1 .. Len(s) /\ Len(s) \in Nat /\ \A i \in DOMAIN s : s[i] \in X
  OBVIOUS
<1>2. F \subseteq DOMAIN s /\ F \subseteq Nat
  BY <1>1
<1>3. \A i, j \in F : s[i] = s[j] => i = j
  <2> SUFFICES ASSUME NEW i \in F, NEW j \in F, s[i] = s[j], i # j
               PROVE  FALSE
    OBVIOUS
  <2>1. i \in Nat /\ j \in Nat /\ i >= 1 /\ j >= 1
    BY <1>1
  <2>2. i \in 1 .. j - 1 \/ j \in 1 .. i - 1
    BY <2>1
  <2> QED BY <2>2
<1>4. \A i \in DOMAIN s : \E j \in F : s[j] = s[i]
  <2> SUFFICES ASSUME NEW i \in DOMAIN s
               PROVE  \E j \in F : s[j] = s[i]
    OBVIOUS
  <2> DEFINE T == {h \in DOMAIN s : s[h] = s[i]}
  <2>1. T \subseteq Nat /\ T # {}
    BY <1>1
  <2>2. PICK j \in T : \A m \in T : j <= m
    <3> HIDE DEF T
    <3> QED BY <2>1, Least
  <2>3. \A h \in 1 .. j - 1 : s[h] # s[j]
    <3> SUFFICES ASSUME NEW h \in 1 .. j - 1, s[h] = s[j]
                 PROVE  FALSE
      OBVIOUS
    <3>1. j \in 1 .. Len(s) /\ s[j] = s[i]
      BY <1>1
    <3>2. h \in T
      BY <1>1, <3>1
    <3>3. ~(j <= h)
      BY <3>1
    <3> QED BY <2>2, <3>2, <3>3
  <2>4. j \in F /\ s[j] = s[i]
    BY <2>3
  <2> QED BY <2>4
<1>5. IsFiniteSet(F) /\ c \in Nat /\ c <= Len(s) /\ (c = Len(s) => F = DOMAIN s)
  <2>1. IsFiniteSet(DOMAIN s) /\ Cardinality(DOMAIN s) = Len(s)
    BY <1>1, FS_Interval
  <2> HIDE DEF F
  <2> QED BY <1>2, <2>1, FS_Subset, FS_CardinalityType
<1>6. /\ DOMAIN A = 1 .. c /\ \A n \in 1 .. c : A[n] \in F /\ Place(F, A[n]) = n
      /\ \A i \in F : Place(F, i) \in 1 .. c /\ A[Place(F, i)] = i
  <2> HIDE DEF F
  <2> QED BY <1>2, <1>5, AscendingAt
<1>7. U = [n \in DOMAIN A |-> s[A[n]]]
  BY DEF uniqueStrings
<1> HIDE DEF A, F, U
<1>8. U \in Seq(X) /\ Len(U) = c /\ DOMAIN U = 1 .. c /\ \A n \in 1 .. c : U[n] = s[A[n]]
  BY <1>1, <1>2, <1>5, <1>6, <1>7
<1>9. \A m, n \in 1 .. c : U[m] = U[n] => m = n
  <2> SUFFICES ASSUME NEW m \in 1 .. c, NEW n \in 1 .. c, U[m] = U[n]
               PROVE  m = n
    OBVIOUS
  <2>1. A[m] = A[n]
    BY <1>3, <1>6, <1>8
  <2> QED BY <1>6, <2>1
<1>10. \A i \in F : \E n \in 1 .. c : U[n] = s[i]
  BY <1>6, <1>8
<1>11. ToSet(U) = ToSet(s)
  <2>1. \A n \in 1 .. c : U[n] \in ToSet(s)
    BY <1>2, <1>6, <1>8 DEF ToSet
  <2>2. \A i \in DOMAIN s : s[i] \in ToSet(U)
    BY <1>4, <1>8, <1>10 DEF ToSet
  <2> QED BY <1>8, <2>1, <2>2 DEF ToSet
<1>12. c = Len(s) => \A m, n \in DOMAIN s : s[m] = s[n] => m = n
  BY <1>3, <1>5
<1> QED BY <1>5, <1>8, <1>9, <1>11, <1>12 DEF U
-----------------------------------------------------------------------------
\* A sum is what is right for the empty set, and for any other with and without one member.
SumsUp(f, S, g) ==
    /\ g \in [SUBSET S -> Nat]
    /\ g[{}] = 0
    /\ \A T \in SUBSET S : \A x \in T : g[T] = f[x] + g[T \ {x}]
LEMMA SumOfSet ==
    ASSUME NEW f, NEW S, IsFiniteSet(S), NEW g, SumsUp(f, S, g)
    PROVE  SumFunctionOnSet(f, S) = g[S]
<1> DEFINE Picked(T) == CHOOSE x \in T : TRUE
           Sums(s) == s = [T \in SUBSET S |-> IF T = {} THEN 0 ELSE f[Picked(T)] + s[T \ {Picked(T)}]]
           sum == CHOOSE s : Sums(s)
<1>0. /\ g \in [SUBSET S -> Nat] /\ g[{}] = 0
      /\ \A T \in SUBSET S : \A x \in T : g[T] = f[x] + g[T \ {x}]
  BY DEF SumsUp
<1>1. SumFunctionOnSet(f, S) = sum[S]
  BY DEF SumFunctionOnSet, FoldFunctionOnSet, MapThenFoldSet
<1>2. \A T : T # {} => Picked(T) \in T
  OBVIOUS
<1> HIDE DEF Picked
<1>3. Sums(g)
  <2>1. \A T \in SUBSET S : g[T] = IF T = {} THEN 0 ELSE f[Picked(T)] + g[T \ {Picked(T)}]
    BY <1>0, <1>2
  <2> QED BY <1>0, <2>1
<1>4. Sums(sum)
  <2> HIDE DEF Sums
  <2> QED BY <1>3
<1>5. \A T \in SUBSET S : sum[T] = IF T = {} THEN 0 ELSE f[Picked(T)] + sum[T \ {Picked(T)}]
  <2> HIDE DEF sum
  <2> QED BY <1>4
<1> HIDE DEF sum, Sums
<1>6. \A T \in SUBSET S : IsFiniteSet(T) /\ Cardinality(T) \in Nat
  BY FS_Subset, FS_CardinalityType
<1> DEFINE D == {Cardinality(T) : T \in {T \in SUBSET S : sum[T] # g[T]}}
<1>7. ASSUME D # {} PROVE FALSE
  <2>1. D \subseteq Nat
    BY <1>6
  <2>2. PICK c \in D : \A d \in D : c <= d
    <3> HIDE DEF D
    <3> QED BY <1>7, <2>1, Least
  <2>3. PICK T \in SUBSET S : sum[T] # g[T] /\ c = Cardinality(T)
    BY <2>2
  <2>4. T # {}
    BY <1>0, <1>5, <2>3
  <2> DEFINE x == Picked(T)
             R == T \ {x}
  <2>5. x \in T /\ R \in SUBSET S
    BY <1>2, <2>4
  <2>6. Cardinality(R) = c - 1 /\ c \in Nat
    BY <1>6, <2>3, <2>5, FS_RemoveElement
  <2>7. sum[R] = g[R]
    <3>1. ~(c <= c - 1)
      BY <2>6
    <3> QED BY <2>2, <2>5, <2>6, <3>1
  <2>8. sum[T] = f[x] + sum[R] /\ g[T] = f[x] + g[R]
    BY <1>0, <1>5, <2>4, <2>5
  <2> QED BY <2>3, <2>7, <2>8
<1>8. sum[S] = g[S]
  <2>1. sum[S] # g[S] => Cardinality(S) \in D
    OBVIOUS
  <2> QED BY <1>7, <2>1
<1> QED BY <1>1, <1>8
-----------------------------------------------------------------------------
\* The rank of document n: the place of its last hit.
RankOf(ids, n) == Max({m \in DOMAIN ids : ids[m] = ids[n]})

\* What the retriever returns, taken apart.
LEMMA RetrievalType ==
    ASSUME NEW docs \in Retrievals
    PROVE  \E l \in Nat, ids \in Seq(Docs) :
              /\ l = Len(ids) /\ l <= TopK /\ DOMAIN docs = 1 .. l
              /\ ids = [n \in DOMAIN docs |-> docs[n].id]
              /\ docs \in Seq(ToSet(docs))
              /\ \A n \in 1 .. l : docs[n].rank = RankOf(ids, n)
<1> DEFINE Of(l, q) ==
      [n \in 1 .. l |-> [id |-> q[n], rank |-> Max({m \in 1 .. l : q[m] = q[n]})]]
<1>1. PICK l \in 0 .. TopK : \E q \in [1 .. l -> Docs] : docs = Of(l, q)
  <2>1. Retrievals = UNION {{Of(l, q) : q \in [1 .. l -> Docs]} : l \in 0 .. TopK}
    BY DEF Retrievals
  <2> HIDE DEF Of
  <2> QED BY <2>1
<1>2. PICK q \in [1 .. l -> Docs] : docs = Of(l, q)
  BY <1>1
<1>3. l \in Nat /\ l <= TopK
  BY EvaluationAssumption DEF Gain
<1>4. q \in Seq(Docs) /\ l = Len(q) /\ DOMAIN docs = 1 .. l
  BY <1>2, <1>3
<1>5. /\ \A n \in 1 .. l : docs[n].id = q[n]
      /\ \A n \in 1 .. l : docs[n].rank = RankOf(q, n)
  <2>1. \A n \in 1 .. l : RankOf(q, n) = Max({m \in 1 .. l : q[m] = q[n]})
    BY DEF RankOf
  <2>2. docs = [n \in 1 .. l |-> [id |-> q[n], rank |-> RankOf(q, n)]]
    BY <1>2, <2>1
  <2> QED BY <2>2
<1>6. q = [n \in DOMAIN docs |-> docs[n].id]
  BY <1>4, <1>5
<1>7. docs \in Seq(ToSet(docs))
  <2>1. docs = [n \in DOMAIN docs |-> docs[n]]
    BY <1>2
  <2>2. \A n \in 1 .. l : docs[n] \in ToSet(docs)
    BY <1>4 DEF ToSet
  <2>3. docs \in [1 .. l -> ToSet(docs)]
    BY <1>4, <2>1, <2>2
  <2> QED BY <1>3, <2>3
<1> HIDE DEF Of
<1> QED BY <1>3, <1>4, <1>5, <1>6, <1>7

\* Documents that all differ stand in the order of their ranks.
LEMMA InOrder ==
    ASSUME NEW docs \in Retrievals, NEW ids, ids = [n \in DOMAIN docs |-> docs[n].id],
           Len(uniqueStrings(ids)) = Len(ids)
    PROVE  ByRank(docs) = docs
<1>1. PICK l \in Nat :
         /\ ids \in Seq(Docs) /\ l = Len(ids) /\ DOMAIN docs = 1 .. l
         /\ docs \in Seq(ToSet(docs))
         /\ \A n \in 1 .. l : docs[n].rank = RankOf(ids, n)
  BY RetrievalType
<1> DEFINE upTo(m) == {h \in DOMAIN docs : \/ docs[h].rank < docs[m].rank
                                           \/ docs[h].rank = docs[m].rank /\ h <= m}
           first(n) == CHOOSE m \in DOMAIN docs : Cardinality(upTo(m)) = n
<1>2. \A m, n \in 1 .. l : ids[m] = ids[n] => m = n
  <2>1. ids \in Seq(Docs) /\ DOMAIN ids = 1 .. l
    BY <1>1
  <2> QED BY <2>1, Unique
<1>3. ASSUME NEW n \in 1 .. l PROVE docs[n].rank = n
  <2>1. {m \in DOMAIN ids : ids[m] = ids[n]} = {n}
    <3>1. DOMAIN ids = 1 .. l
      BY <1>1
    <3> QED BY <1>2, <3>1
  <2>2. Max({n}) = n
    BY DEF Max
  <2>3. RankOf(ids, n) = n
    BY <2>1, <2>2 DEF RankOf
  <2> QED BY <1>1, <2>3
<1>4. ASSUME NEW m \in 1 .. l PROVE Cardinality(upTo(m)) = m
  <2>1. \A h \in 1 .. l : docs[h].rank = h /\ docs[m].rank = m
    BY <1>3
  <2>2. \A h : h \in upTo(m) <=> h \in 1 .. m
    <3>1. DOMAIN docs = 1 .. l
      BY <1>1
    <3> QED BY <2>1, <3>1
  <2>3. Cardinality(1 .. m) = m
    BY FS_Interval
  <2> HIDE DEF upTo
  <2>4. upTo(m) = 1 .. m
    BY <2>2
  <2> QED BY <2>3, <2>4
<1>5. ByRank(docs) = [n \in DOMAIN docs |-> docs[first(n)]]
  BY DEF ByRank
<1>6. ASSUME NEW n \in DOMAIN docs PROVE first(n) = n
  <2> HIDE DEF upTo
  <2>1. DOMAIN docs = 1 .. l
    BY <1>1
  <2> QED BY <1>4, <2>1
<1> HIDE DEF first
<1>7. ByRank(docs) = [n \in DOMAIN docs |-> docs[n]]
  BY <1>5, <1>6
<1>8. docs = [n \in DOMAIN docs |-> docs[n]]
  BY <1>1
<1> QED BY <1>7, <1>8

\* The documents of a report stand in the order their scores were computed from,
\* unless one came back twice (runner.go:222-240).
THEOREM OrderCorrect == Spec => []OrderReported
<1>1. ASSUME NEW item, NEW flags, NEW r \in runCase(item, flags),
             Len(uniqueStrings(r.order)) = Len(r.order)
      PROVE  r.order = [n \in DOMAIN r.retrieved |-> r.retrieved[n].id]
  <2>1. PICK x \in RetrievalParts(item, flags.retrieval) :
           r.retrieved = x.retrieved \o <<>> /\ r.order = x.order \o <<>>
    BY Outcome
  <2>2. CASE x.retrieved = <<>> /\ x.order = <<>>
    <3>1. r.retrieved = <<>> /\ r.order = <<>>
      BY <2>1, <2>2
    <3> QED BY <3>1
  <2>3. ASSUME NEW docs \in Retrievals, x = Scored(item, docs)
        PROVE  r.order = [n \in DOMAIN r.retrieved |-> r.retrieved[n].id]
    <3> DEFINE ids == [n \in DOMAIN docs |-> docs[n].id]
    <3>1. x.order = ids /\ x.retrieved = ByRank(docs)
      BY <2>3 DEF Scored, Nothing
    <3>2. PICK k \in Seq(Docs) : k = ids /\ docs \in Seq(ToSet(docs))
      BY RetrievalType
    <3>3. r.order = ids
      BY <2>1, <3>1, <3>2, ConcatEmptySeq
    <3>4. ByRank(docs) = docs
      BY <1>1, <3>3, InOrder
    <3>5. r.retrieved = docs
      BY <2>1, <3>1, <3>2, <3>4, ConcatEmptySeq
    <3> QED BY <3>3, <3>5
  <2> QED BY <2>2, <2>3, RetrievalPart
<1>2. CountsInv => OrderReported
  <2> SUFFICES ASSUME CountsInv, NEW e \in Commands, NEW r \in Results(e),
                      Len(uniqueStrings(r.order)) = Len(r.order)
               PROVE  r.order = [n \in DOMAIN r.retrieved |-> r.retrieved[n].id]
    BY DEF OrderReported
  <2>1. CasesInv(e)
    BY DEF CountsInv
  <2>2. PICK n \in DOMAIN report[e].cases : r = report[e].cases[n].result
    BY DEF Results
  <2>3. r \in runCase(CaseOf(e, n), mode[e])
    BY <2>1, <2>2 DEF CasesInv
  <2> QED BY <1>1, <2>3
<1> QED BY <1>2, CountsInit, CountsNext, PTL DEF Spec
-----------------------------------------------------------------------------
\* The gain of places is the sum of theirs, and their number the sum of ones.
Gains(p) == (IF 1 \in p THEN 10 ELSE 0) + (IF 2 \in p THEN 6 ELSE 0)
              + (IF 3 \in p THEN 5 ELSE 0) + (IF 4 \in p THEN 4 ELSE 0)
Places(p) == (IF 1 \in p THEN 1 ELSE 0) + (IF 2 \in p THEN 1 ELSE 0)
              + (IF 3 \in p THEN 1 ELSE 0) + (IF 4 \in p THEN 1 ELSE 0)
LEMMA GainSum ==
    ASSUME NEW p \in SUBSET (1 .. 4)
    PROVE  GainOf(p) = Gains(p) /\ IsFiniteSet(p) /\ Cardinality(p) = Places(p)
<1>1. 1 .. 4 = {1, 2, 3, 4}
  OBVIOUS
<1>2. IsFiniteSet(p)
  <2>1. IsFiniteSet(1 .. 4)
    <3>1. \A k \in Nat : IsFiniteSet(1 .. k)
      BY FS_Interval
    <3> QED BY <3>1
  <2> QED BY <2>1, FS_Subset
<1>3. GainOf(p) = Gains(p)
  <2> DEFINE g == [T \in SUBSET p |-> Gains(T)]
  <2>1. g[{}] = 0
    BY DEF Gains
  <2>2. ASSUME NEW T \in SUBSET p, NEW x \in T
        PROVE  g[T] = Gain[x] + g[T \ {x}]
    <3>1. g[T] = Gains(T) /\ g[T \ {x}] = Gains(T \ {x})
      OBVIOUS
    <3>2. x = 1 \/ x = 2 \/ x = 3 \/ x = 4
      BY <1>1
    <3>3. Gains(T) = Gain[x] + Gains(T \ {x})
      BY <3>2 DEF Gains, Gain
    <3> QED BY <3>1, <3>3
  <2>3. g \in [SUBSET p -> Nat]
    BY DEF Gains
  <2>4. g[p] = Gains(p)
    OBVIOUS
  <2>5. \A T \in SUBSET p : \A x \in T : g[T] = Gain[x] + g[T \ {x}]
    BY <2>2
  <2> HIDE DEF g
  <2>6. SumsUp(Gain, p, g)
    BY <2>1, <2>3, <2>5 DEF SumsUp
  <2>7. SumFunctionOnSet(Gain, p) = g[p]
    BY <1>2, <2>6, SumOfSet
  <2> QED BY <2>4, <2>7 DEF GainOf
<1>4. Cardinality(p) = Places(p)
  <2> DEFINE one(i) == IF i \in p THEN 1 ELSE 0
  <2>1. \A T, i : T \subseteq p /\ T \ {i} \subseteq p =>
           Cardinality(T) = Cardinality(T \ {i}) + (IF i \in T THEN 1 ELSE 0)
    <3> SUFFICES ASSUME NEW T, NEW i, T \subseteq p
                 PROVE  Cardinality(T) = Cardinality(T \ {i}) + (IF i \in T THEN 1 ELSE 0)
      OBVIOUS
    <3>1. IsFiniteSet(T) /\ Cardinality(T) \in Nat
      BY <1>2, FS_Subset, FS_CardinalityType
    <3>2. Cardinality(T \ {i}) = IF i \in T THEN Cardinality(T) - 1 ELSE Cardinality(T)
      BY <3>1, FS_RemoveElement
    <3> QED BY <3>1, <3>2
  <2> DEFINE p4 == p \ {4}
             p3 == p4 \ {3}
             p2 == p3 \ {2}
             p1 == p2 \ {1}
  <2>2. p4 \subseteq p /\ p3 \subseteq p /\ p2 \subseteq p /\ p1 = {}
    BY <1>1
  <2>3. Cardinality(p1) = 0
    BY <2>2, FS_EmptySet
  <2>4. Cardinality(p) = Cardinality(p4) + one(4)
    BY <2>1
  <2>5. Cardinality(p4) = Cardinality(p3) + one(3)
    <3>1. Cardinality(p4) = Cardinality(p3) + (IF 3 \in p4 THEN 1 ELSE 0)
      BY <2>1, <2>2
    <3> QED BY <3>1
  <2>6. Cardinality(p3) = Cardinality(p2) + one(2)
    <3>1. Cardinality(p3) = Cardinality(p2) + (IF 2 \in p3 THEN 1 ELSE 0)
      BY <2>1, <2>2
    <3> QED BY <3>1
  <2>7. Cardinality(p2) = Cardinality(p1) + one(1)
    <3>1. Cardinality(p2) = Cardinality(p1) + (IF 1 \in p2 THEN 1 ELSE 0)
      BY <2>1, <2>2
    <3> QED BY <3>1
  <2> HIDE DEF p1, p2, p3, p4
  <2> QED BY <2>3, <2>4, <2>5, <2>6, <2>7 DEF Places
<1> QED BY <1>2, <1>3, <1>4

\* No more gain than that of as many first places, and as much only with those.
LEMMA GainMost ==
    ASSUME NEW p \in SUBSET (1 .. 4), NEW m \in 1 .. 4, Cardinality(p) <= m
    PROVE  /\ GainOf(p) \in Nat /\ GainOf(1 .. m) \in Nat /\ GainOf(1 .. m) # 0
           /\ GainOf(p) <= GainOf(1 .. m)
           /\ GainOf(p) = GainOf(1 .. m) <=> 1 .. m \subseteq p
           /\ GainOf(p) = 0 <=> p = {}
<1>1. 1 .. m \in SUBSET (1 .. 4)
  OBVIOUS
<1>2. /\ GainOf(p) = Gains(p) /\ Cardinality(p) = Places(p)
      /\ GainOf(1 .. m) = Gains(1 .. m)
  BY <1>1, GainSum
<1>3. m = 1 \/ m = 2 \/ m = 3 \/ m = 4
  OBVIOUS
<1>4. Gains(1 .. m) = IF m = 1 THEN 10 ELSE IF m = 2 THEN 16 ELSE IF m = 3 THEN 21 ELSE 25
  BY <1>3 DEF Gains
<1>5. 1 .. m \subseteq p <=> 1 \in p /\ (m > 1 => 2 \in p) /\ (m > 2 => 3 \in p) /\ (m > 3 => 4 \in p)
  BY <1>3
<1>6. p = {} <=> ~(1 \in p) /\ ~(2 \in p) /\ ~(3 \in p) /\ ~(4 \in p)
  <2>1. 1 .. 4 = {1, 2, 3, 4}
    OBVIOUS
  <2> QED BY <2>1
<1>7. Gains(p) \in Nat /\ (Gains(p) = 0 <=> p = {})
  BY <1>6 DEF Gains
<1>8. Places(p) <= m
  BY <1>2
<1>9. Gains(p) <= Gains(1 .. m) /\ (Gains(p) = Gains(1 .. m) <=> 1 .. m \subseteq p)
  BY <1>3, <1>4, <1>5, <1>8 DEF Gains, Places
<1> QED BY <1>2, <1>3, <1>4, <1>7, <1>9

\* The places of the relevant ids are as many as those ids.
LEMMA Hits ==
    ASSUME NEW X, NEW u \in Seq(X), NEW R, IsFiniteSet(R), NEW H, H = Relevant(u, R),
           \A m, n \in DOMAIN u : u[m] = u[n] => m = n
    PROVE  /\ H \subseteq 1 .. Len(u) /\ IsFiniteSet(H)
           /\ Cardinality(H) \in Nat /\ Cardinality(H) <= Len(u)
           /\ Cardinality(R) \in Nat /\ Cardinality(H) <= Cardinality(R)
           /\ Cardinality(H) = Cardinality(R) <=> R \subseteq ToSet(u)
           /\ H = {} <=> R \cap ToSet(u) = {}
<1> DEFINE f == [n \in H |-> u[n]]
<1>1. DOMAIN u = 1 .. Len(u) /\ Len(u) \in Nat
  OBVIOUS
<1>2. H = {n \in 1 .. Len(u) : u[n] \in R}
  BY <1>1 DEF Relevant
<1>3. f \in Injection(H, R)
  BY <1>1, <1>2 DEF Injection, IsInjective
<1>4. f \in Surjection(H, R) <=> R \subseteq ToSet(u)
  <2>1. f \in Surjection(H, R) <=> \A x \in R : \E n \in H : u[n] = x
    BY <1>3 DEF Injection, Surjection
  <2>2. \A x \in R : x \in ToSet(u) <=> \E n \in H : u[n] = x
    BY <1>1, <1>2 DEF ToSet
  <2> QED BY <2>1, <2>2
<1> HIDE DEF f
<1>5. /\ IsFiniteSet(H) /\ Cardinality(H) <= Cardinality(R)
      /\ Cardinality(H) = Cardinality(R) <=> f \in Surjection(H, R)
  BY <1>3, FS_Injection
<1>6. Cardinality(H) <= Len(u)
  <2>1. IsFiniteSet(1 .. Len(u)) /\ Cardinality(1 .. Len(u)) = Len(u)
    BY <1>1, FS_Interval
  <2>2. H \subseteq 1 .. Len(u)
    BY <1>2
  <2> QED BY <2>1, <2>2, FS_Subset
<1>7. Cardinality(H) \in Nat /\ Cardinality(R) \in Nat
  BY <1>5, FS_CardinalityType
<1>8. H = {} <=> R \cap ToSet(u) = {}
  BY <1>1, <1>2 DEF ToSet
<1> QED BY <1>2, <1>4, <1>5, <1>6, <1>7, <1>8

\* The first ids are relevant, and as many as m, exactly if all the first m places are hits.
LEMMA First ==
    ASSUME NEW X, NEW u \in Seq(X), NEW R, NEW H, H = Relevant(u, R),
           \A i, n \in DOMAIN u : u[i] = u[n] => i = n, NEW m \in Nat
    PROVE  /\ ToSet(Top(u, m)) \subseteq R /\ Cardinality(ToSet(Top(u, m))) = m
           <=> 1 .. m \subseteq H
<1>1. PICK l \in Nat : l = IF Len(u) > m THEN m ELSE Len(u)
  OBVIOUS
<1> DEFINE f == [n \in 1 .. l |-> u[n]]
<1>2. DOMAIN u = 1 .. Len(u) /\ Len(u) \in Nat /\ l <= Len(u) /\ l <= m
  BY <1>1
<1>3. ToSet(Top(u, m)) = {u[n] : n \in 1 .. l}
  <2>1. DOMAIN Top(u, m) = 1 .. l /\ \A n \in 1 .. l : Top(u, m)[n] = u[n]
    <3>1. CASE Len(u) > m
      <4>1. l = m /\ Top(u, m) = SubSeq(u, 1, l)
        BY <1>1, <3>1 DEF Top
      <4> QED BY <1>2, <4>1
    <3>2. CASE ~(Len(u) > m)
      <4>1. l = Len(u) /\ Top(u, m) = u
        BY <1>1, <3>2 DEF Top
      <4> QED BY <1>2, <4>1
    <3> QED BY <3>1, <3>2
  <2> QED BY <2>1 DEF ToSet
<1>4. Cardinality(ToSet(Top(u, m))) = l
  <2>1. f \in Injection(1 .. l, ToSet(Top(u, m)))
    BY <1>2, <1>3 DEF Injection, IsInjective
  <2>2. f \in Surjection(1 .. l, ToSet(Top(u, m)))
    BY <1>3 DEF Surjection
  <2>3. ExistsBijection(1 .. l, ToSet(Top(u, m)))
    BY <2>1, <2>2 DEF ExistsBijection, Bijection
  <2> QED BY <2>3, FS_CountingElements
<1>5. \A n \in 1 .. l : u[n] \in R <=> n \in H
  BY <1>2 DEF Relevant
<1>6. ToSet(Top(u, m)) \subseteq R <=> 1 .. l \subseteq H
  BY <1>3, <1>5
<1>7. CASE l = m
  BY <1>4, <1>6, <1>7
<1>8. CASE l # m
  <2>1. m \in 1 .. m /\ ~(m <= Len(u))
    <3>1. ~(Len(u) > m)
      BY <1>1, <1>8
    <3>2. l = Len(u)
      BY <1>1, <3>1
    <3>3. m > l
      BY <1>2, <1>8
    <3> QED BY <3>2, <3>3
  <2>2. m \notin H
    BY <1>2, <2>1 DEF Relevant
  <2> QED BY <1>4, <1>8, <2>1, <2>2
<1> QED BY <1>7, <1>8
-----------------------------------------------------------------------------
\* A score is a fraction between 0 and 1.
Score(x) == x \in Int \X (Nat \ {0}) /\ Leq(Zero, x) /\ Leq(x, One)

\* A part of a whole is one, 0 when there is nothing of it and 1 when it is all.
LEMMA Part ==
    ASSUME NEW a \in Nat, NEW b \in Nat \ {0}, a <= b, NEW x, x = <<a, b>>
    PROVE  /\ Score(x)
           /\ Equal(x, Zero) <=> a = 0
           /\ Equal(x, One) <=> a = b
<1>1. x[1] = a /\ x[2] = b /\ x \in Int \X (Nat \ {0})
  OBVIOUS
<1> QED BY <1>1 DEF Score, Leq, Equal, Zero, One

\* The scores of what a retriever returns agree with each other.
RetrievalAgrees(relevant, order, recall, mrr, ndcg) ==
    LET first == ToSet(Top(uniqueStrings(order), IdealCount(relevant, TopK))) IN
    /\ \A x \in {recall, mrr, ndcg} :
          Score(x) /\ (Equal(x, Zero) <=> relevant \cap ToSet(order) = {})
    /\ Equal(recall, One) <=> relevant \subseteq ToSet(order)
    /\ Equal(ndcg, One) <=>
          first \subseteq relevant /\ Cardinality(first) = IdealCount(relevant, TopK)
    /\ Equal(ndcg, One) => Equal(mrr, One)

\* They do so for any list of ids and any relevant documents.
LEMMA RetrievalScores ==
    ASSUME NEW ids \in Seq(Docs), Len(ids) <= TopK, NEW R, IsFiniteSet(R), R # {}
    PROVE  RetrievalAgrees(R, ids, RecallAtK(ids, R, TopK), MRR(ids, R), NDCGAtK(ids, R, TopK))
<1> DEFINE u == uniqueStrings(ids)
           H == Relevant(u, R)
           m == IdealCount(R, TopK)
<1>1. /\ u \in Seq(Docs) /\ Len(u) <= Len(ids) /\ ToSet(u) = ToSet(ids)
      /\ \A i, n \in DOMAIN u : u[i] = u[n] => i = n
  BY Unique
<1>2. TopK \in 1 .. 4
  BY EvaluationAssumption DEF Gain
<1>3. Len(ids) \in Nat /\ Len(u) \in Nat /\ Len(u) <= TopK
  BY <1>1, <1>2
<1>4. Top(u, TopK) = u
  BY <1>2, <1>3 DEF Top
<1>5. RecallAtK(ids, R, TopK) = <<Cardinality(H), Cardinality(R)>>
  BY <1>2, <1>4 DEF RecallAtK
<1>6. NDCGAtK(ids, R, TopK) = <<GainOf(H), GainOf(1 .. m)>>
  BY <1>2, <1>4 DEF NDCGAtK
<1>7. MRR(ids, R) = IF H = {} THEN Zero ELSE <<1, Min(H)>>
  BY DEF MRR
<1>8. m = IF Cardinality(R) > TopK THEN TopK ELSE Cardinality(R)
  BY DEF IdealCount
<1> HIDE DEF u
<1>9. H = Relevant(u, R)
  OBVIOUS
<1> HIDE DEF H, m
<1>10. /\ H \subseteq 1 .. Len(u) /\ IsFiniteSet(H)
       /\ Cardinality(H) \in Nat /\ Cardinality(H) <= Len(u)
       /\ Cardinality(R) \in Nat /\ Cardinality(H) <= Cardinality(R)
       /\ Cardinality(H) = Cardinality(R) <=> R \subseteq ToSet(ids)
       /\ H = {} <=> R \cap ToSet(ids) = {}
  BY <1>1, <1>9, Hits
<1>11. Cardinality(R) # 0
  BY FS_EmptySet
<1>12. m \in 1 .. 4 /\ Cardinality(H) <= m
  BY <1>2, <1>3, <1>8, <1>10, <1>11
<1>13. H \in SUBSET (1 .. 4)
  BY <1>2, <1>3, <1>10
<1>14. /\ GainOf(H) \in Nat /\ GainOf(1 .. m) \in Nat \ {0} /\ GainOf(H) <= GainOf(1 .. m)
       /\ GainOf(H) = GainOf(1 .. m) <=> 1 .. m \subseteq H
       /\ GainOf(H) = 0 <=> H = {}
  BY <1>12, <1>13, GainMost
<1>15. ASSUME NEW x, x = RecallAtK(ids, R, TopK)
       PROVE  /\ Score(x) /\ (Equal(x, Zero) <=> R \cap ToSet(ids) = {})
              /\ Equal(x, One) <=> R \subseteq ToSet(ids)
  <2>1. Cardinality(H) = 0 <=> H = {}
    BY <1>10, FS_EmptySet
  <2>2. Cardinality(R) \in Nat \ {0}
    BY <1>10, <1>11
  <2>3. x = <<Cardinality(H), Cardinality(R)>>
    BY <1>5, <1>15
  <2>4. /\ Score(x) /\ (Equal(x, Zero) <=> Cardinality(H) = 0)
        /\ Equal(x, One) <=> Cardinality(H) = Cardinality(R)
    BY <1>10, <2>2, <2>3, Part
  <2> QED BY <1>10, <2>1, <2>4
<1>16. ASSUME NEW x, x = NDCGAtK(ids, R, TopK)
       PROVE  /\ Score(x) /\ (Equal(x, Zero) <=> R \cap ToSet(ids) = {})
              /\ Equal(x, One) <=> 1 .. m \subseteq H
  <2>1. x = <<GainOf(H), GainOf(1 .. m)>>
    BY <1>6, <1>16
  <2>2. /\ Score(x) /\ (Equal(x, Zero) <=> GainOf(H) = 0)
        /\ Equal(x, One) <=> GainOf(H) = GainOf(1 .. m)
    BY <1>14, <2>1, Part
  <2> QED BY <1>10, <1>14, <2>2
<1>17. ASSUME NEW x, x = MRR(ids, R)
       PROVE  /\ Score(x) /\ (Equal(x, Zero) <=> R \cap ToSet(ids) = {})
              /\ 1 \in H => Equal(x, One)
  <2>1. CASE H = {}
    <3>1. x = <<0, 1>>
      BY <1>7, <1>17, <2>1 DEF Zero
    <3>2. Score(x) /\ Equal(x, Zero)
      BY <3>1, Part
    <3> QED BY <1>10, <2>1, <3>2
  <2>2. CASE H # {}
    <3>1. H \subseteq Nat
      BY <1>13
    <3>2. Min(H) \in H /\ \A n \in H : Min(H) <= n
      BY <2>2, <3>1, Least DEF Min
    <3>3. Min(H) \in 1 .. 4
      BY <1>13, <3>2
    <3>4. x = <<1, Min(H)>>
      BY <1>7, <1>17, <2>2
    <3>5. /\ Score(x) /\ ~Equal(x, Zero)
          /\ Equal(x, One) <=> 1 = Min(H)
      BY <3>3, <3>4, Part
    <3>6. 1 \in H => Min(H) = 1
      BY <3>2, <3>3
    <3> QED BY <1>10, <2>2, <3>5, <3>6
  <2> QED BY <2>1, <2>2
<1>18. LET first == ToSet(Top(u, m)) IN
       first \subseteq R /\ Cardinality(first) = m <=> 1 .. m \subseteq H
  <2>1. m \in Nat
    BY <1>12
  <2> QED BY <1>1, <1>9, <2>1, First
<1>19. 1 .. m \subseteq H => 1 \in H
  <2>1. 1 \in 1 .. m
    BY <1>12
  <2> QED BY <2>1
<1>20. u = uniqueStrings(ids) /\ m = IdealCount(R, TopK)
  BY DEF u, m
<1> QED BY <1>15, <1>16, <1>17, <1>18, <1>19, <1>20 DEF RetrievalAgrees
-----------------------------------------------------------------------------
\* The places of t in s.
At(s, t) == {n \in DOMAIN s : s[n] = t}

\* A sequence has finitely many members, and places of each.
LEMMA Finite ==
    ASSUME NEW X, NEW s \in Seq(X)
    PROVE  /\ IsFiniteSet(ToSet(s))
           /\ \A t : /\ At(s, t) \subseteq 1 .. Len(s) /\ IsFiniteSet(At(s, t))
                     /\ Cardinality(At(s, t)) \in Nat
<1> DEFINE f == [n \in DOMAIN s |-> s[n]]
<1>1. DOMAIN s = 1 .. Len(s) /\ Len(s) \in Nat /\ IsFiniteSet(1 .. Len(s))
  BY FS_Interval
<1>2. f \in Surjection(DOMAIN s, ToSet(s))
  BY DEF Surjection, ToSet
<1> HIDE DEF f
<1>3. IsFiniteSet(ToSet(s))
  BY <1>1, <1>2, FS_Surjection
<1>4. ASSUME NEW t PROVE /\ At(s, t) \subseteq 1 .. Len(s) /\ IsFiniteSet(At(s, t))
                         /\ Cardinality(At(s, t)) \in Nat
  <2>1. At(s, t) \subseteq 1 .. Len(s)
    BY <1>1 DEF At
  <2> QED BY <1>1, <2>1, FS_Subset, FS_CardinalityType
<1> QED BY <1>3, <1>4

\* As many members of a set as one likes come first.
LEMMA FirstOf ==
    ASSUME NEW S, S \subseteq Nat, IsFiniteSet(S), NEW k \in 0 .. Cardinality(S)
    PROVE  Cardinality({n \in S : Place(S, n) <= k}) = k
<1> DEFINE T == {n \in S : Place(S, n) <= k}
           f == [j \in 1 .. k |-> Ascending(S)[j]]
<1>1. /\ Cardinality(S) \in Nat
      /\ \A n \in 1 .. Cardinality(S) : Ascending(S)[n] \in S /\ Place(S, Ascending(S)[n]) = n
      /\ \A i \in S : Place(S, i) \in 1 .. Cardinality(S) /\ Ascending(S)[Place(S, i)] = i
  BY AscendingAt
<1>2. k \in Nat /\ \A j \in 1 .. k : j \in 1 .. Cardinality(S) /\ j <= k
  BY <1>1
<1>3. f \in [1 .. k -> T]
  BY <1>1, <1>2
<1>4. \A i, j \in 1 .. k : f[i] = f[j] => i = j
  BY <1>1, <1>2
<1>5. \A i \in T : \E j \in 1 .. k : f[j] = i
  <2> SUFFICES ASSUME NEW i \in T PROVE \E j \in 1 .. k : f[j] = i
    OBVIOUS
  <2>1. Place(S, i) \in 1 .. k
    BY <1>1, <1>2
  <2> QED BY <1>1, <2>1
<1> HIDE DEF f, T
<1>6. f \in Bijection(1 .. k, T)
  BY <1>3, <1>4, <1>5 DEF Bijection, Injection, Surjection, IsInjective
<1>7. ExistsBijection(1 .. k, T)
  BY <1>6 DEF ExistsBijection
<1> QED BY <1>2, <1>7, FS_CountingElements DEF T

\* Some of the members of a sequence, each no more often than it comes, are no more than its
\* length, and as many only when they are all.
LEMMA CommonSum ==
    ASSUME NEW X, NEW s \in Seq(X), NEW B, B \subseteq ToSet(s), NEW c \in [B -> Nat],
           \A t \in B : c[t] <= tokenCounts(s)[t]
    PROVE  /\ SumFunctionOnSet(c, B) \in Nat /\ SumFunctionOnSet(c, B) <= Len(s)
           /\ SumFunctionOnSet(c, B) = Len(s) <=>
                 B = ToSet(s) /\ \A t \in B : c[t] = tokenCounts(s)[t]
<1> DEFINE In(T) == {n \in DOMAIN s : s[n] \in T /\ Place(At(s, s[n]), n) <= c[s[n]]}
           g == [T \in SUBSET B |-> Cardinality(In(T))]
<1>1. DOMAIN s = 1 .. Len(s) /\ Len(s) \in Nat
  OBVIOUS
<1>2. IsFiniteSet(DOMAIN s) /\ Cardinality(DOMAIN s) = Len(s)
  <2>1. \A k \in Nat : IsFiniteSet(1 .. k) /\ Cardinality(1 .. k) = k
    BY FS_Interval
  <2> QED BY <1>1, <2>1
<1>3. \A T : IsFiniteSet(In(T)) /\ Cardinality(In(T)) \in Nat
  <2>1. \A T : In(T) \subseteq DOMAIN s
    OBVIOUS
  <2> HIDE DEF In
  <2> QED BY <1>2, <2>1, FS_Subset, FS_CardinalityType
<1>4. \A t \in ToSet(s) : tokenCounts(s)[t] = Cardinality(At(s, t))
  BY DEF tokenCounts, At
<1>5. IsFiniteSet(ToSet(s))
      /\ \A t : /\ At(s, t) \subseteq Nat /\ IsFiniteSet(At(s, t))
                /\ Cardinality(At(s, t)) \in Nat
  <2>1. 1 .. Len(s) \subseteq Nat
    BY <1>1
  <2> QED BY <2>1, Finite
<1>6. ASSUME NEW x \in B
      PROVE  Cardinality({n \in At(s, x) : Place(At(s, x), n) <= c[x]}) = c[x]
  <2>1. c[x] \in 0 .. Cardinality(At(s, x))
    BY <1>4, <1>5
  <2> QED BY <1>5, <2>1, FirstOf
<1>7. ASSUME NEW T \in SUBSET B, NEW x \in T
      PROVE  g[T] = c[x] + g[T \ {x}]
  <2> DEFINE Q == {n \in At(s, x) : Place(At(s, x), n) <= c[x]}
             R == T \ {x}
  <2>1. In(T) = Q \cup In(R) /\ Q \cap In(R) = {}
    <3>1. \A n : n \in Q <=> n \in DOMAIN s /\ s[n] = x /\ Place(At(s, s[n]), n) <= c[s[n]]
      BY DEF At
    <3> HIDE DEF Q
    <3> QED BY <3>1
  <2>2. Cardinality(Q) = c[x] /\ c[x] \in Nat
    BY <1>6
  <2>3. Q \subseteq In(T)
    BY <2>1
  <2>4. R \in SUBSET B
    OBVIOUS
  <2>5. g[T] = Cardinality(In(T)) /\ g[R] = Cardinality(In(R))
    BY <2>4
  <2> HIDE DEF Q, In, R, g
  <2>6. IsFiniteSet(Q) /\ IsFiniteSet(In(R)) /\ Cardinality(In(R)) \in Nat
    BY <1>3, <2>3, FS_Subset
  <2>7. Cardinality(In(T)) = Cardinality(Q) + Cardinality(In(R)) - Cardinality({})
    BY <2>1, <2>6, FS_Union
  <2>8. Cardinality({}) = 0
    BY FS_EmptySet
  <2> QED BY <2>2, <2>5, <2>6, <2>7, <2>8 DEF R
<1>8. SumFunctionOnSet(c, B) = Cardinality(In(B))
  <2>1. g \in [SUBSET B -> Nat]
    BY <1>3
  <2>2. g[{}] = 0
    <3>1. In({}) = {} /\ Cardinality({}) = 0
      BY FS_EmptySet
    <3> QED BY <3>1
  <2>3. \A T \in SUBSET B : \A x \in T : g[T] = c[x] + g[T \ {x}]
    BY <1>7
  <2>4. g[B] = Cardinality(In(B))
    OBVIOUS
  <2>5. IsFiniteSet(B)
    BY <1>5, FS_Subset
  <2> HIDE DEF g, In
  <2>6. SumsUp(c, B, g)
    BY <2>1, <2>2, <2>3 DEF SumsUp
  <2>7. SumFunctionOnSet(c, B) = g[B]
    BY <2>5, <2>6, SumOfSet
  <2> QED BY <2>4, <2>7
<1>9. /\ Cardinality(In(B)) \in Nat /\ Cardinality(In(B)) <= Len(s)
      /\ Cardinality(In(B)) = Len(s) <=> In(B) = DOMAIN s
  <2>1. In(B) \subseteq DOMAIN s
    OBVIOUS
  <2> HIDE DEF In
  <2> QED BY <1>2, <1>3, <2>1, FS_Subset
<1>10. ASSUME In(B) = DOMAIN s
       PROVE  B = ToSet(s) /\ \A t \in B : c[t] = tokenCounts(s)[t]
  <2>1. \A n \in DOMAIN s : s[n] \in B /\ Place(At(s, s[n]), n) <= c[s[n]]
    BY <1>10
  <2>2. B = ToSet(s)
    BY <2>1 DEF ToSet
  <2>3. ASSUME NEW t \in B PROVE c[t] = tokenCounts(s)[t]
    <3> DEFINE S == At(s, t)
               k == Cardinality(S)
    <3>1. k = tokenCounts(s)[t] /\ k \in Nat /\ c[t] <= k /\ c[t] \in Nat
      BY <1>4, <1>5
    <3>2. S # {}
      BY DEF At, ToSet
    <3>3. k # 0
      BY <1>5, <3>2, FS_EmptySet
    <3>4. \E n \in S : Place(S, n) = k
      <4>1. k \in 1 .. k
        BY <3>1, <3>3
      <4>2. \A n \in 1 .. Cardinality(S) : Ascending(S)[n] \in S /\ Place(S, Ascending(S)[n]) = n
        BY <1>5, AscendingAt
      <4> QED BY <4>1, <4>2
    <3>5. \A n \in S : n \in DOMAIN s /\ s[n] = t
      BY DEF At
    <3> HIDE DEF k, S
    <3>6. k <= c[t]
      BY <2>1, <3>4, <3>5 DEF S
    <3> QED BY <3>1, <3>6
  <2> QED BY <2>2, <2>3
<1>11. ASSUME B = ToSet(s), \A t \in B : c[t] = tokenCounts(s)[t]
       PROVE  In(B) = DOMAIN s
  <2>1. ASSUME NEW n \in DOMAIN s PROVE s[n] \in B /\ Place(At(s, s[n]), n) <= c[s[n]]
    <3>1. s[n] \in B /\ n \in At(s, s[n])
      BY <1>11 DEF ToSet, At
    <3>2. Place(At(s, s[n]), n) \in 1 .. Cardinality(At(s, s[n]))
      BY <1>5, <3>1, PlaceType
    <3>3. c[s[n]] = Cardinality(At(s, s[n]))
      BY <1>4, <1>11, <3>1
    <3> QED BY <1>5, <3>1, <3>2, <3>3
  <2> QED BY <2>1
<1> QED BY <1>8, <1>9, <1>10, <1>11

\* A text has a sequence of tokens.
LEMMA Tokens ==
    ASSUME NEW X, NEW s \in Seq(X)
    PROVE  tokenize(s) \in Seq(ToSet(tokenize(s)))
<1> DEFINE InWord(i) == i \in DOMAIN s /\ s[i] \in Word
           S == {i \in DOMAIN s : s[i] \in Han \/ (InWord(i) /\ ~InWord(i - 1))}
           End(i) == IF s[i] \in Han THEN i
                     ELSE CHOOSE j \in i .. Len(s) :
                             ~InWord(j + 1) /\ \A h \in i .. j : InWord(h)
           token(n) == Token(s, Ascending(S)[n], End(Ascending(S)[n]))
           t == tokenize(s)
<1>1. t = [n \in DOMAIN Ascending(S) |-> token(n)]
  BY DEF tokenize
<1>2. IsFiniteSet(S) /\ S \subseteq Nat
  <2>1. DOMAIN s = 1 .. Len(s) /\ Len(s) \in Nat /\ IsFiniteSet(1 .. Len(s))
    BY FS_Interval
  <2>2. S \subseteq 1 .. Len(s)
    BY <2>1
  <2>3. 1 .. Len(s) \subseteq Nat
    BY <2>1
  <2> HIDE DEF S
  <2>4. IsFiniteSet(S)
    BY <2>1, <2>2, FS_Subset
  <2> QED BY <2>2, <2>3, <2>4
<1> HIDE DEF S, token, t
<1>3. Cardinality(S) \in Nat /\ DOMAIN Ascending(S) = 1 .. Cardinality(S)
  BY <1>2, AscendingAt
<1>4. t = [n \in 1 .. Cardinality(S) |-> token(n)]
  BY <1>1, <1>3
<1>5. t \in Seq({token(n) : n \in 1 .. Cardinality(S)})
  BY <1>3, <1>4
<1>6. t \in Seq(ToSet(t))
  <2>1. t \in [1 .. Len(t) -> {t[n] : n \in 1 .. Len(t)}] /\ Len(t) \in Nat
    BY <1>5
  <2>2. ToSet(t) = {t[n] : n \in 1 .. Len(t)}
    BY <2>1 DEF ToSet
  <2> QED BY <2>1, <2>2
<1> QED BY <1>6 DEF t

\* The scores of an answer agree with each other.
AnswerAgrees(answer, reference, exact, f1) ==
    /\ Score(exact) /\ Score(f1)
    /\ Equal(exact, One) => Equal(f1, One)
    /\ Equal(f1, One) <=> tokenCounts(tokenize(answer)) = tokenCounts(tokenize(reference))

\* What two texts have in common is no more than either, and all only if they have the same tokens.
LEMMA OverlapType ==
    ASSUME NEW X, NEW a \in Seq(X), NEW Y, NEW b \in Seq(Y)
    PROVE  /\ Overlap(a, b) \in Nat /\ Overlap(a, b) <= Len(a) /\ Overlap(a, b) <= Len(b)
           /\ Overlap(a, b) = Len(a) /\ Overlap(a, b) = Len(b) <=> tokenCounts(a) = tokenCounts(b)
<1> DEFINE B == ToSet(a) \cap ToSet(b)
           ca == tokenCounts(a)
           cb == tokenCounts(b)
           c == [t \in B |-> IF cb[t] < ca[t] THEN cb[t] ELSE ca[t]]
<1>1. DOMAIN ca = ToSet(a) /\ DOMAIN cb = ToSet(b)
  BY DEF tokenCounts
<1>2. Overlap(a, b) = SumFunctionOnSet(c, B)
  <2>1. DOMAIN ca \cap DOMAIN cb = B /\ DOMAIN c = B
    BY <1>1
  <2> QED BY <2>1 DEF Overlap
<1>3. (\A t \in ToSet(a) : ca[t] \in Nat) /\ (\A t \in ToSet(b) : cb[t] \in Nat)
  <2>1. \A t : Cardinality(At(a, t)) \in Nat /\ Cardinality(At(b, t)) \in Nat
    BY Finite
  <2> QED BY <2>1 DEF tokenCounts, At
<1>4. c \in [B -> Nat] /\ B \subseteq ToSet(a) /\ B \subseteq ToSet(b)
  BY <1>3
<1>5. \A t \in B : /\ c[t] <= ca[t] /\ c[t] <= cb[t]
                   /\ c[t] = ca[t] /\ c[t] = cb[t] <=> ca[t] = cb[t]
  BY <1>3
<1>6. ca = cb <=> B = ToSet(a) /\ B = ToSet(b) /\ \A t \in B : ca[t] = cb[t]
  <2>1. ASSUME B = ToSet(a), B = ToSet(b), \A t \in B : ca[t] = cb[t]
        PROVE  ca = cb
    <3>1. ca = [t \in ToSet(a) |-> ca[t]] /\ cb = [t \in ToSet(b) |-> cb[t]]
      BY DEF tokenCounts
    <3>2. [t \in ToSet(a) |-> ca[t]] = [t \in ToSet(b) |-> cb[t]]
      BY <2>1
    <3> QED BY <3>1, <3>2
  <2>2. ASSUME ca = cb
        PROVE  B = ToSet(a) /\ B = ToSet(b) /\ \A t \in B : ca[t] = cb[t]
    <3>1. ToSet(a) = ToSet(b)
      BY <1>1, <2>2
    <3> QED BY <2>2, <3>1
  <2> QED BY <2>1, <2>2
<1> HIDE DEF c, B
<1>7. /\ SumFunctionOnSet(c, B) \in Nat /\ SumFunctionOnSet(c, B) <= Len(a)
      /\ SumFunctionOnSet(c, B) = Len(a) <=> B = ToSet(a) /\ \A t \in B : c[t] = ca[t]
  <2>1. \A t \in B : c[t] <= tokenCounts(a)[t]
    BY <1>5
  <2> HIDE DEF ca
  <2>2. ca = tokenCounts(a)
    BY DEF ca
  <2> QED BY <1>4, <2>1, <2>2, CommonSum
<1>8. /\ SumFunctionOnSet(c, B) <= Len(b)
      /\ SumFunctionOnSet(c, B) = Len(b) <=> B = ToSet(b) /\ \A t \in B : c[t] = cb[t]
  <2>1. \A t \in B : c[t] <= tokenCounts(b)[t]
    BY <1>5
  <2> HIDE DEF cb
  <2>2. cb = tokenCounts(b)
    BY DEF cb
  <2> QED BY <1>4, <2>1, <2>2, CommonSum
<1>9. (\A t \in B : c[t] = ca[t]) /\ (\A t \in B : c[t] = cb[t]) <=> \A t \in B : ca[t] = cb[t]
  BY <1>5
<1> QED BY <1>2, <1>6, <1>7, <1>8, <1>9

\* They do so for any two texts.
LEMMA AnswerScores ==
    ASSUME NEW X, NEW answer \in Seq(X), NEW Y, NEW reference \in Seq(Y)
    PROVE  AnswerAgrees(answer, reference, ExactMatch(answer, reference), TokenF1(answer, reference))
<1> DEFINE a == tokenize(answer)
           b == tokenize(reference)
           exact == ExactMatch(answer, reference)
           f1 == TokenF1(answer, reference)
<1>1. a \in Seq(ToSet(a)) /\ b \in Seq(ToSet(b))
  BY Tokens
<1>2. /\ exact = IF a = b THEN One ELSE Zero
      /\ f1 = IF a = <<>> /\ b = <<>> THEN One
              ELSE IF a = <<>> \/ b = <<>> THEN Zero
              ELSE <<2 * Overlap(a, b), Len(a) + Len(b)>>
  BY DEF ExactMatch, TokenF1
<1> HIDE DEF a, b, exact, f1
<1>3. Score(One) /\ Score(Zero) /\ Equal(One, One) /\ ~Equal(Zero, One)
  BY DEF Score, Leq, Equal, One, Zero
<1>4. Score(f1) /\ (Equal(f1, One) <=> tokenCounts(a) = tokenCounts(b))
  <2>1. CASE a = <<>> /\ b = <<>>
    BY <1>2, <1>3, <2>1
  <2>2. CASE (a = <<>>) # (b = <<>>)
    <3>1. f1 = Zero
      BY <1>2, <2>2
    <3>2. DOMAIN tokenCounts(a) = ToSet(a) /\ DOMAIN tokenCounts(b) = ToSet(b)
      BY DEF tokenCounts
    <3>3. (ToSet(a) = {} <=> a = <<>>) /\ (ToSet(b) = {} <=> b = <<>>)
      BY <1>1 DEF ToSet
    <3>4. tokenCounts(a) # tokenCounts(b)
      BY <2>2, <3>2, <3>3
    <3> QED BY <1>3, <3>1, <3>4
  <2>3. CASE a # <<>> /\ b # <<>>
    <3>1. Len(a) \in Nat /\ Len(b) \in Nat /\ Len(a) # 0 /\ Len(b) # 0
      BY <1>1, <2>3
    <3>2. PICK o : o = Overlap(a, b)
      OBVIOUS
    <3>3. /\ o \in Nat /\ o <= Len(a) /\ o <= Len(b)
          /\ o = Len(a) /\ o = Len(b) <=> tokenCounts(a) = tokenCounts(b)
      BY <1>1, <3>2, OverlapType
    <3>4. f1 = <<2 * o, Len(a) + Len(b)>>
      BY <1>2, <2>3, <3>2
    <3>5. Score(f1) /\ (Equal(f1, One) <=> 2 * o = Len(a) + Len(b))
      <4>1. PICK i, k : i = 2 * o /\ k = Len(a) + Len(b)
        OBVIOUS
      <4>2. i \in Nat /\ k \in Nat \ {0} /\ i <= k /\ f1 = <<i, k>>
        BY <3>1, <3>3, <3>4, <4>1
      <4>3. Score(f1) /\ (Equal(f1, One) <=> i = k)
        BY <4>2, Part
      <4> QED BY <4>1, <4>3
    <3>6. 2 * o = Len(a) + Len(b) <=> o = Len(a) /\ o = Len(b)
      BY <3>1, <3>3
    <3> QED BY <3>3, <3>5, <3>6
  <2> QED BY <2>1, <2>2, <2>3
<1>5. Score(exact) /\ (Equal(exact, One) => a = b)
  BY <1>2, <1>3
<1> QED BY <1>4, <1>5 DEF AnswerAgrees, a, b, exact, f1
-----------------------------------------------------------------------------
\* The metrics of the retrieval and of the answer.
RetrievalNames == {"recall_at_k", "mrr", "ndcg_at_k"}
AnswerNames == {"exact_match", "token_f1", "tool_set_accuracy", "judge"}
ScoresOf(metrics, names) ==
    DOMAIN metrics \subseteq names /\ \A m \in DOMAIN metrics : Score(metrics[m])

\* The metrics of two results have the names of both, and the scores of one or the other.
LEMMA Merged ==
    ASSUME NEW f, NEW g
    PROVE  /\ DOMAIN Merge(f, g) = DOMAIN f \cup DOMAIN g
           /\ \A m \in DOMAIN f : Merge(f, g)[m] = f[m]
           /\ \A m \in DOMAIN g : m \notin DOMAIN f => Merge(f, g)[m] = g[m]
           /\ \A N : ScoresOf(f, N) /\ ScoresOf(g, N) => ScoresOf(Merge(f, g), N)
<1>1. /\ DOMAIN Merge(f, g) = DOMAIN f \cup DOMAIN g
      /\ \A m \in DOMAIN f : Merge(f, g)[m] = f[m]
      /\ \A m \in DOMAIN g : m \notin DOMAIN f => Merge(f, g)[m] = g[m]
  BY DEF Merge
<1>2. ASSUME NEW N, ScoresOf(f, N), ScoresOf(g, N)
      PROVE  ScoresOf(Merge(f, g), N)
  <2>1. DOMAIN Merge(f, g) \subseteq N
    BY <1>1, <1>2 DEF ScoresOf
  <2>2. ASSUME NEW m \in DOMAIN Merge(f, g) PROVE Score(Merge(f, g)[m])
    <3>1. CASE m \in DOMAIN f
      BY <1>1, <1>2, <3>1 DEF ScoresOf
    <3>2. CASE m \in DOMAIN g /\ m \notin DOMAIN f
      BY <1>1, <1>2, <3>2 DEF ScoresOf
    <3> QED BY <1>1, <3>1, <3>2
  <2> QED BY <2>1, <2>2 DEF ScoresOf
<1> QED BY <1>1, <1>2

\* No metrics.
LEMMA NoScores == \A N : ScoresOf(<<>>, N)
BY DEF ScoresOf

\* The scores of what was retrieved for a case,
LEMMA RetrievalMetrics ==
    ASSUME NEW item \in Items, NEW on, NEW x \in RetrievalParts(item, on)
    PROVE  /\ ScoresOf(x.metrics, RetrievalNames)
           /\ x.order \in Seq(Docs)
           /\ "mrr" \in DOMAIN x.metrics =>
                 RetrievalAgrees(item.relevant, x.order, x.metrics["recall_at_k"],
                                 x.metrics["mrr"], x.metrics["ndcg_at_k"])
           /\ "mrr" \in DOMAIN x.metrics => RetrievalNames \subseteq DOMAIN x.metrics
<1>1. CASE x.order = <<>> /\ x.metrics = <<>>
  BY <1>1, NoScores
<1>2. ASSUME NEW docs \in Retrievals, x = Scored(item, docs)
      PROVE  /\ ScoresOf(x.metrics, RetrievalNames)
             /\ x.order \in Seq(Docs)
             /\ "mrr" \in DOMAIN x.metrics =>
                   RetrievalAgrees(item.relevant, x.order, x.metrics["recall_at_k"],
                                   x.metrics["mrr"], x.metrics["ndcg_at_k"])
             /\ "mrr" \in DOMAIN x.metrics => RetrievalNames \subseteq DOMAIN x.metrics
  <2>1. PICK ids \in Seq(Docs) : ids = [n \in DOMAIN docs |-> docs[n].id] /\ Len(ids) <= TopK
    BY RetrievalType
  <2>2. x.order = ids
    BY <1>2, <2>1 DEF Scored, Nothing
  <2>3. CASE item.relevant = {}
    <3>1. x.metrics = <<>>
      BY <1>2, <2>3 DEF Scored, Nothing
    <3> QED BY <2>2, <3>1, NoScores
  <2>4. CASE item.relevant # {}
    <3> DEFINE R == item.relevant
               recall == RecallAtK(ids, R, TopK)
               mrr == MRR(ids, R)
               ndcg == NDCGAtK(ids, R, TopK)
    <3>1. x.metrics = [recall_at_k |-> recall, mrr |-> mrr, ndcg_at_k |-> ndcg]
      BY <1>2, <2>1, <2>4 DEF Scored, Nothing
    <3>2. IsFiniteSet(R)
      BY EvaluationAssumption DEF Items
    <3>3. RetrievalAgrees(R, ids, recall, mrr, ndcg)
      BY <2>1, <2>4, <3>2, RetrievalScores
    <3> HIDE DEF recall, mrr, ndcg
    <3>4. Score(recall) /\ Score(mrr) /\ Score(ndcg)
      BY <3>3 DEF RetrievalAgrees
    <3>5. ScoresOf(x.metrics, RetrievalNames)
      BY <3>1, <3>4 DEF ScoresOf, RetrievalNames
    <3>6. DOMAIN x.metrics = RetrievalNames
      BY <3>1 DEF RetrievalNames
    <3>7. x.metrics["recall_at_k"] = recall /\ x.metrics["mrr"] = mrr /\ x.metrics["ndcg_at_k"] = ndcg
      BY <3>1
    <3> QED BY <2>2, <3>3, <3>5, <3>6, <3>7
  <2> QED BY <2>3, <2>4
<1> QED BY <1>1, <1>2, RetrievalPart

\* and of what the agent answered to it.
LEMMA AgentMetrics ==
    ASSUME NEW item \in Items, NEW flags, NEW y \in AgentParts(item, flags)
    PROVE  /\ ScoresOf(y.metrics, AnswerNames)
           /\ y.answer \in Seq(ToSet(y.answer))
           /\ "token_f1" \in DOMAIN y.metrics =>
                 AnswerAgrees(y.answer, item.reference, y.metrics["exact_match"],
                              y.metrics["token_f1"])
           /\ "token_f1" \in DOMAIN y.metrics => "exact_match" \in DOMAIN y.metrics
<1>1. CASE y.answer = <<>> /\ y.metrics = <<>>
  <2>1. <<>> \in Seq(ToSet(<<>>))
    BY DEF ToSet
  <2> QED BY <1>1, <2>1, NoScores
<1>2. ASSUME NEW a \in Texts, NEW t \in ToolCalls, NEW j \in JudgeParts(flags.judge),
             y.answer = a, y.metrics = Merge(Answered(item, a, t).metrics, j.metrics)
      PROVE  /\ ScoresOf(y.metrics, AnswerNames)
             /\ y.answer \in Seq(ToSet(y.answer))
             /\ "token_f1" \in DOMAIN y.metrics =>
                   AnswerAgrees(y.answer, item.reference, y.metrics["exact_match"],
                                y.metrics["token_f1"])
             /\ "token_f1" \in DOMAIN y.metrics => "exact_match" \in DOMAIN y.metrics
  <2> DEFINE reference == item.reference
             exact == ExactMatch(a, reference)
             f1 == TokenF1(a, reference)
             accuracy == ToolSetAccuracy(t, item.expected)
             texts == IF reference = <<>> THEN <<>> ELSE [exact_match |-> exact, token_f1 |-> f1]
             tools == IF item.checkTools THEN [tool_set_accuracy |-> accuracy] ELSE <<>>
  <2>1. Answered(item, a, t).metrics = Merge(texts, tools)
    BY DEF Answered, Nothing
  <2>2. a \in Seq(ToSet(a)) /\ reference \in Seq(ToSet(reference))
    BY EvaluationAssumption DEF Items
  <2>3. AnswerAgrees(a, reference, exact, f1)
    <3> HIDE DEF exact, f1, reference
    <3>1. AnswerAgrees(a, reference, ExactMatch(a, reference), TokenF1(a, reference))
      BY <2>2, AnswerScores
    <3> QED BY <3>1 DEF exact, f1
  <2>4. Score(accuracy)
    BY DEF ToolSetAccuracy, Score, Leq, One, Zero
  <2> HIDE DEF exact, f1, accuracy
  <2>5. ScoresOf(texts, AnswerNames) /\ ("exact_match" \in DOMAIN texts <=> "token_f1" \in DOMAIN texts)
        /\ ("token_f1" \in DOMAIN texts => texts["exact_match"] = exact /\ texts["token_f1"] = f1)
    <3>1. CASE reference = <<>>
      <4>1. texts = <<>>
        BY <3>1
      <4> QED BY <4>1, NoScores
    <3>2. CASE reference # <<>>
      <4>1. texts = [exact_match |-> exact, token_f1 |-> f1]
        BY <3>2
      <4>2. Score(exact) /\ Score(f1)
        BY <2>3 DEF AnswerAgrees
      <4> QED BY <4>1, <4>2 DEF ScoresOf, AnswerNames
    <3> QED BY <3>1, <3>2
  <2>6. ScoresOf(tools, AnswerNames) /\ "token_f1" \notin DOMAIN tools
    <3>1. CASE item.checkTools
      <4>1. tools = [tool_set_accuracy |-> accuracy]
        BY <3>1
      <4> QED BY <2>4, <4>1 DEF ScoresOf, AnswerNames
    <3>2. CASE ~item.checkTools
      <4>1. tools = <<>>
        BY <3>2
      <4> QED BY <4>1, NoScores
    <3> QED BY <3>1, <3>2
  <2>7. ScoresOf(j.metrics, AnswerNames) /\ "token_f1" \notin DOMAIN j.metrics
    <3>1. CASE j.metrics = <<>>
      BY <3>1, NoScores
    <3>2. ASSUME NEW score \in Scores, Valid(score), j.metrics = [judge |-> score.value]
          PROVE  ScoresOf(j.metrics, AnswerNames) /\ "token_f1" \notin DOMAIN j.metrics
      <4>1. Score(score.value)
        BY <3>2, EvaluationAssumption DEF Valid, Score
      <4> QED BY <3>2, <4>1 DEF ScoresOf, AnswerNames
    <3> QED BY <3>1, <3>2, JudgePart
  <2> HIDE DEF texts, tools
  <2> DEFINE answered == Merge(texts, tools)
  <2>8. /\ ScoresOf(answered, AnswerNames)
        /\ DOMAIN answered = DOMAIN texts \cup DOMAIN tools
        /\ \A m \in DOMAIN texts : answered[m] = texts[m]
    BY <2>5, <2>6, Merged
  <2> HIDE DEF answered
  <2>9. /\ ScoresOf(y.metrics, AnswerNames)
        /\ DOMAIN y.metrics = DOMAIN answered \cup DOMAIN j.metrics
        /\ \A m \in DOMAIN answered : y.metrics[m] = answered[m]
    <3>1. y.metrics = Merge(answered, j.metrics)
      BY <1>2, <2>1 DEF answered
    <3>2. /\ DOMAIN Merge(answered, j.metrics) = DOMAIN answered \cup DOMAIN j.metrics
          /\ \A m \in DOMAIN answered : Merge(answered, j.metrics)[m] = answered[m]
      BY Merged
    <3>3. ScoresOf(Merge(answered, j.metrics), AnswerNames)
      <4>1. ScoresOf(answered, AnswerNames) /\ ScoresOf(j.metrics, AnswerNames)
        BY <2>7, <2>8
      <4> QED BY <4>1, Merged
    <3> QED BY <3>1, <3>2, <3>3
  <2>10. "token_f1" \in DOMAIN y.metrics => "token_f1" \in DOMAIN texts /\ "exact_match" \in DOMAIN texts
    BY <2>5, <2>6, <2>7, <2>8, <2>9
  <2>11. "token_f1" \in DOMAIN y.metrics => y.metrics["exact_match"] = exact /\ y.metrics["token_f1"] = f1
    BY <2>5, <2>8, <2>9, <2>10
  <2> QED BY <1>2, <2>2, <2>3, <2>8, <2>9, <2>10, <2>11
<1> QED BY <1>1, <1>2, AgentPart
-----------------------------------------------------------------------------
\* The scores of one case are typed, and agree with each other.
CaseAgrees(item, r) ==
    /\ ScoresOf(r.metrics, MetricNames)
    /\ "mrr" \in DOMAIN r.metrics =>
          RetrievalAgrees(item.relevant, r.order, r.metrics["recall_at_k"], r.metrics["mrr"],
                          r.metrics["ndcg_at_k"])
    /\ "token_f1" \in DOMAIN r.metrics =>
          AnswerAgrees(r.answer, item.reference, r.metrics["exact_match"], r.metrics["token_f1"])

\* So are those of whatever may come of a case.
LEMMA OutcomeAgrees ==
    ASSUME NEW item \in Items, NEW flags, NEW r \in runCase(item, flags)
    PROVE  CaseAgrees(item, r)
<1>1. PICK x \in RetrievalParts(item, flags.retrieval), y \in AgentParts(item, flags) :
         r.order = x.order \o <<>> /\ r.answer = <<>> \o y.answer
         /\ r.metrics = Merge(x.metrics, y.metrics)
  BY Outcome
<1>2. /\ ScoresOf(x.metrics, RetrievalNames) /\ x.order \in Seq(Docs)
      /\ "mrr" \in DOMAIN x.metrics =>
            /\ RetrievalAgrees(item.relevant, x.order, x.metrics["recall_at_k"],
                               x.metrics["mrr"], x.metrics["ndcg_at_k"])
            /\ RetrievalNames \subseteq DOMAIN x.metrics
  BY RetrievalMetrics
<1>3. /\ ScoresOf(y.metrics, AnswerNames) /\ y.answer \in Seq(ToSet(y.answer))
      /\ "token_f1" \in DOMAIN y.metrics =>
            /\ AnswerAgrees(y.answer, item.reference, y.metrics["exact_match"], y.metrics["token_f1"])
            /\ "exact_match" \in DOMAIN y.metrics
  BY AgentMetrics
<1>4. r.order = x.order /\ r.answer = y.answer
  BY <1>1, <1>2, <1>3, ConcatEmptySeq
<1>5. ScoresOf(r.metrics, MetricNames)
  <2>1. ScoresOf(x.metrics, MetricNames)
    BY <1>2 DEF ScoresOf, RetrievalNames, MetricNames
  <2>2. ScoresOf(y.metrics, MetricNames)
    BY <1>3 DEF ScoresOf, AnswerNames, MetricNames
  <2>3. ScoresOf(Merge(x.metrics, y.metrics), MetricNames)
    BY <2>1, <2>2, Merged
  <2> QED BY <1>1, <2>3
<1>6. /\ DOMAIN r.metrics = DOMAIN x.metrics \cup DOMAIN y.metrics
      /\ \A m \in DOMAIN x.metrics : r.metrics[m] = x.metrics[m]
      /\ \A m \in DOMAIN y.metrics : m \notin DOMAIN x.metrics => r.metrics[m] = y.metrics[m]
  <2> DEFINE f == Merge(x.metrics, y.metrics)
  <2>1. /\ DOMAIN f = DOMAIN x.metrics \cup DOMAIN y.metrics
        /\ \A m \in DOMAIN x.metrics : f[m] = x.metrics[m]
        /\ \A m \in DOMAIN y.metrics : m \notin DOMAIN x.metrics => f[m] = y.metrics[m]
    BY Merged
  <2>2. r.metrics = f
    BY <1>1
  <2> HIDE DEF f
  <2> QED BY <2>1, <2>2
<1>7. ASSUME "mrr" \in DOMAIN r.metrics
      PROVE  RetrievalAgrees(item.relevant, r.order, r.metrics["recall_at_k"], r.metrics["mrr"],
                             r.metrics["ndcg_at_k"])
  <2>1. "mrr" \in DOMAIN x.metrics
    BY <1>3, <1>6, <1>7 DEF ScoresOf, AnswerNames
  <2>2. \A m \in RetrievalNames : r.metrics[m] = x.metrics[m]
    BY <1>2, <1>6, <2>1
  <2>3. /\ r.metrics["recall_at_k"] = x.metrics["recall_at_k"]
        /\ r.metrics["mrr"] = x.metrics["mrr"] /\ r.metrics["ndcg_at_k"] = x.metrics["ndcg_at_k"]
    BY <2>2 DEF RetrievalNames
  <2> QED BY <1>2, <1>4, <2>1, <2>3
<1>8. ASSUME "token_f1" \in DOMAIN r.metrics
      PROVE  AnswerAgrees(r.answer, item.reference, r.metrics["exact_match"], r.metrics["token_f1"])
  <2>1. "token_f1" \notin DOMAIN x.metrics /\ "exact_match" \notin DOMAIN x.metrics
    BY <1>2 DEF ScoresOf, RetrievalNames
  <2>2. "token_f1" \in DOMAIN y.metrics
    BY <1>6, <1>8, <2>1
  <2>3. /\ r.metrics["token_f1"] = y.metrics["token_f1"]
        /\ r.metrics["exact_match"] = y.metrics["exact_match"]
    BY <1>3, <1>6, <2>1, <2>2
  <2> QED BY <1>3, <1>4, <2>2, <2>3
<1> QED BY <1>5, <1>7, <1>8 DEF CaseAgrees

\* A data set that a command runs, or has run, gives each of its cases an id of its own.
LoadedInv(e) == at[e] > 0 => Loadable(data)

\* Every step keeps that.
LEMMA LoadedNext ==
    ASSUME FilesInv, [Next]_vars, NEW e \in Commands, LoadedInv(e)
    PROVE  LoadedInv(e)'
<1>1. CasesTypeOK /\ FileInv(e) /\ data' = data
  BY Fixed DEF FilesInv
<1>2. at'[e] = at[e] \/ pc[e] = "run"
  BY <1>1, ReportNext
<1>3. CASE at'[e] = at[e]
  BY <1>1, <1>3 DEF LoadedInv, Loadable
<1>4. CASE pc[e] = "run"
  BY <1>1, <1>4 DEF LoadedInv, FileInv, Loadable
<1> QED BY <1>2, <1>3, <1>4

\* The scores of one case lie between 0 and 1, also when documents or tokens are
\* repeated, and agree with each other and with what they are to measure: recall is
\* 1 when all relevant documents came back, all three retrieval scores are 0
\* together, NDCG is 1 exactly when the relevant documents come first, which makes
\* MRR 1, and an exact match has full F1 (metrics.go:15-108, judge.go:62-80).
THEOREM AgreeCorrect == Spec => []ScoresAgree
<1> DEFINE Inv == CountsInv /\ \A e \in Commands : LoadedInv(e)
<1>1. Init => Inv
  <2>1. Init => \A e \in Commands : LoadedInv(e)
    BY DEF Init, LoadedInv
  <2> QED BY <2>1, CountsInit
<1>2. Inv /\ [Next]_vars => Inv'
  <2> SUFFICES ASSUME Inv, [Next]_vars PROVE Inv'
    OBVIOUS
  <2>1. CountsInv'
    BY CountsNext
  <2>2. \A e \in Commands : LoadedInv(e)'
    BY LoadedNext DEF CountsInv
  <2> QED BY <2>1, <2>2
<1>3. Inv => ScoresAgree
  <2> SUFFICES ASSUME Inv, NEW e \in Commands, NEW n \in DOMAIN report[e].cases,
                      NEW r, r = report[e].cases[n].result,
                      NEW item, item = Item(e, n), NEW s, s = r.metrics,
                      NEW first,
                      first = ToSet(Top(uniqueStrings(r.order), IdealCount(item.relevant, TopK)))
               PROVE  /\ \A m \in DOMAIN s : Leq(Zero, s[m]) /\ Leq(s[m], One)
                      /\ "mrr" \in DOMAIN s =>
                           /\ Equal(s.recall_at_k, One) <=> item.relevant \subseteq ToSet(r.order)
                           /\ \A m \in {"recall_at_k", "mrr", "ndcg_at_k"} :
                                 Equal(s[m], Zero) <=> item.relevant \cap ToSet(r.order) = {}
                           /\ Equal(s.ndcg_at_k, One) <=>
                                 /\ first \subseteq item.relevant
                                 /\ Cardinality(first) = IdealCount(item.relevant, TopK)
                           /\ Equal(s.ndcg_at_k, One) => Equal(s.mrr, One)
                      /\ "token_f1" \in DOMAIN s =>
                           /\ Equal(s.exact_match, One) => Equal(s.token_f1, One)
                           /\ Equal(s.token_f1, One) <=>
                                 tokenCounts(tokenize(r.answer)) = tokenCounts(tokenize(item.reference))
    BY DEF ScoresAgree
  <2>1. CasesTypeOK /\ CasesInv(e) /\ LoadedInv(e)
    BY DEF CountsInv, FilesInv
  <2>2. PICK i \in 1 .. Len(data) : CaseOf(e, n) = data[i] /\ at[e] > 0
    <3> DEFINE S == Chosen(at[e])
    <3>1. Len(data) \in Nat /\ at[e] \in 0 .. Len(data)
      BY <2>1, EvaluationAssumption DEF CasesTypeOK
    <3>2. S \subseteq Nat /\ IsFiniteSet(S) /\ \A i \in S : i \in 1 .. at[e]
      BY <3>1, ChosenType DEF Chosen
    <3>3. n \in 1 .. Cardinality(S)
      BY <2>1 DEF CasesInv
    <3> HIDE DEF S
    <3>4. Ascending(S)[n] \in S
      BY <3>2, <3>3, AscendingAt
    <3>5. Ascending(S)[n] \in 1 .. at[e]
      BY <3>2, <3>4
    <3>6. Ascending(S)[n] \in 1 .. Len(data) /\ at[e] > 0
      BY <3>1, <3>5
    <3> QED BY <3>6 DEF CaseOf, S
  <2>3. /\ data[i] \in Items /\ data[i] \in ToSet(data) /\ report[e].cases[n].id = data[i].id
        /\ r \in runCase(data[i], mode[e])
    BY <2>1, <2>2, ItemType DEF CasesInv
  <2>4. item = data[i]
    <3>1. \A c \in ToSet(data) : c.id = report[e].cases[n].id => c = data[i]
      <4>1. data \in Seq(ToSet(data))
        BY <2>1, EvaluationAssumption DEF CasesTypeOK
      <4>2. \A k, l \in DOMAIN data : data[k].id = data[l].id => k = l
        BY <2>1, <2>2 DEF LoadedInv, Loadable
      <4> QED BY <2>2, <2>3, <4>1, <4>2 DEF ToSet
    <3> QED BY <2>3, <3>1 DEF Item
  <2>5. CaseAgrees(item, r)
    BY <2>3, <2>4, OutcomeAgrees
  <2>6. \A m \in DOMAIN s : Leq(Zero, s[m]) /\ Leq(s[m], One)
    BY <2>5 DEF CaseAgrees, ScoresOf, Score
  <2>7. ASSUME "mrr" \in DOMAIN s
        PROVE  /\ Equal(s.recall_at_k, One) <=> item.relevant \subseteq ToSet(r.order)
               /\ \A m \in {"recall_at_k", "mrr", "ndcg_at_k"} :
                     Equal(s[m], Zero) <=> item.relevant \cap ToSet(r.order) = {}
               /\ Equal(s.ndcg_at_k, One) <=>
                     /\ first \subseteq item.relevant
                     /\ Cardinality(first) = IdealCount(item.relevant, TopK)
               /\ Equal(s.ndcg_at_k, One) => Equal(s.mrr, One)
    BY <2>5, <2>7 DEF CaseAgrees, RetrievalAgrees
  <2>8. ASSUME "token_f1" \in DOMAIN s
        PROVE  /\ Equal(s.exact_match, One) => Equal(s.token_f1, One)
               /\ Equal(s.token_f1, One) <=>
                     tokenCounts(tokenize(r.answer)) = tokenCounts(tokenize(item.reference))
    BY <2>5, <2>8 DEF CaseAgrees, AnswerAgrees
  <2> QED BY <2>6, <2>7, <2>8
<1> QED BY <1>1, <1>2, <1>3, PTL DEF Spec
-----------------------------------------------------------------------------
\* s sums up metric m over the cases q.
Added(x, y) == <<x[1] * y[2] + y[1] * x[2], x[2] * y[2]>>
Has(entry, m) == m \in DOMAIN entry.result.metrics
SumsTo(q, m, s) ==
    s = [n \in 0 .. Len(q) |->
            IF n = 0 THEN Zero
            ELSE IF Has(q[n], m) THEN Added(s[n - 1], q[n].result.metrics[m]) ELSE s[n - 1]]

\* That is, it is right at each case.
LEMMA SumsStep ==
    ASSUME NEW q, NEW m, NEW s
    PROVE  SumsTo(q, m, s) <=>
              /\ s = [n \in 0 .. Len(q) |-> s[n]]
              /\ \A n \in 0 .. Len(q) :
                    s[n] = IF n = 0 THEN Zero
                           ELSE IF Has(q[n], m) THEN Added(s[n - 1], q[n].result.metrics[m])
                           ELSE s[n - 1]
<1> DEFINE f == [n \in 0 .. Len(q) |->
            IF n = 0 THEN Zero
            ELSE IF Has(q[n], m) THEN Added(s[n - 1], q[n].result.metrics[m]) ELSE s[n - 1]]
<1>1. /\ DOMAIN f = 0 .. Len(q) /\ f = [n \in 0 .. Len(q) |-> f[n]]
      /\ \A n \in 0 .. Len(q) :
            f[n] = IF n = 0 THEN Zero
                   ELSE IF Has(q[n], m) THEN Added(s[n - 1], q[n].result.metrics[m])
                   ELSE s[n - 1]
  OBVIOUS
<1>2. SumsTo(q, m, s) <=> s = f
  BY DEF SumsTo
<1> HIDE DEF f
<1>3. ASSUME SumsTo(q, m, s)
      PROVE  /\ s = [n \in 0 .. Len(q) |-> s[n]]
             /\ \A n \in 0 .. Len(q) :
                   s[n] = IF n = 0 THEN Zero
                          ELSE IF Has(q[n], m) THEN Added(s[n - 1], q[n].result.metrics[m])
                          ELSE s[n - 1]
  <2>1. s = f
    BY <1>2, <1>3
  <2>2. s = [n \in 0 .. Len(q) |-> s[n]]
    BY <1>1, <2>1, Zenon
  <2>3. \A n \in 0 .. Len(q) : s[n] = f[n]
    BY <2>1
  <2> QED BY <1>1, <2>2, <2>3, Zenon
<1>4. ASSUME s = [n \in 0 .. Len(q) |-> s[n]],
             \A n \in 0 .. Len(q) :
                   s[n] = IF n = 0 THEN Zero
                          ELSE IF Has(q[n], m) THEN Added(s[n - 1], q[n].result.metrics[m])
                          ELSE s[n - 1]
      PROVE  SumsTo(q, m, s)
  <2>1. \A n \in 0 .. Len(q) : s[n] = f[n]
    BY <1>1, <1>4, Zenon
  <2>2. [n \in 0 .. Len(q) |-> s[n]] = [n \in 0 .. Len(q) |-> f[n]]
    BY <2>1, Zenon
  <2>3. s = f
    BY <1>1, <1>4, <2>2, Zenon
  <2> QED BY <1>2, <2>3
<1> QED BY <1>3, <1>4, Zenon

\* The sum over one case more.
LEMMA SumPush ==
    ASSUME NEW q \in Seq(Entry), NEW one \in Entry, NEW m
    PROVE  /\ \A s : SumsTo(q, m, s) => \E t : SumsTo(Append(q, one), m, t)
           /\ \A t : SumsTo(Append(q, one), m, t) =>
                 \E s : /\ SumsTo(q, m, s)
                        /\ t[Len(q) + 1] = IF Has(one, m)
                                           THEN Added(s[Len(q)], one.result.metrics[m])
                                           ELSE s[Len(q)]
<1> DEFINE next(s, n, entry) ==
              IF Has(entry, m) THEN Added(s[n - 1], entry.result.metrics[m]) ELSE s[n - 1]
           Right(s, n, entry) == s[n] = IF n = 0 THEN Zero ELSE next(s, n, entry)
           Agree(s, r, k) == \A n \in 0 .. k : s[n] = r[n]
<1> PICK l, p : l = Len(q) /\ p = Append(q, one)
  OBVIOUS
<1>1. /\ l \in Nat /\ Len(p) = l + 1 /\ p[l + 1] = one /\ \A n \in 1 .. l : p[n] = q[n]
      /\ 0 .. l + 1 = (0 .. l) \cup {l + 1} /\ l + 1 # 0 /\ l + 1 - 1 = l
  OBVIOUS
<1>2. ASSUME NEW s, NEW r, Agree(s, r, l), NEW n \in 0 .. l
      PROVE  Right(s, n, q[n]) <=> Right(r, n, p[n])
  <2>1. CASE n = 0
    BY <1>2, <2>1
  <2>2. CASE n # 0
    <3>1. n - 1 \in 0 .. l /\ n \in 1 .. l
      BY <1>1, <2>2
    <3>2. s[n - 1] = r[n - 1] /\ s[n] = r[n] /\ q[n] = p[n]
      BY <1>1, <1>2, <3>1
    <3> QED BY <2>2, <3>2
  <2> QED BY <2>1, <2>2
<1>3. \A s : SumsTo(q, m, s) <=> s = [n \in 0 .. l |-> s[n]] /\ \A n \in 0 .. l : Right(s, n, q[n])
  BY SumsStep, Zenon
<1>4. \A t : SumsTo(p, m, t) <=>
         t = [n \in 0 .. l + 1 |-> t[n]] /\ \A n \in 0 .. l + 1 : Right(t, n, p[n])
  BY <1>1, SumsStep, Zenon
<1>5. ASSUME NEW s, SumsTo(q, m, s)
      PROVE  \E t : SumsTo(p, m, t)
  <2> DEFINE t == [n \in 0 .. l + 1 |-> IF n = l + 1 THEN next(s, n, one) ELSE s[n]]
  <2>1. t = [n \in 0 .. l + 1 |-> t[n]]
    OBVIOUS
  <2>2. t[l + 1] = next(s, l + 1, one) /\ Agree(s, t, l)
    BY <1>1
  <2> HIDE DEF t
  <2>3. \A n \in 0 .. l : Right(t, n, p[n])
    BY <1>2, <1>3, <1>5, <2>2
  <2>4. s[l + 1 - 1] = t[l + 1 - 1]
    BY <1>1, <2>2
  <2>5. Right(t, l + 1, p[l + 1])
    BY <1>1, <2>2, <2>4
  <2>6. \A n \in 0 .. l + 1 : Right(t, n, p[n])
    BY <1>1, <2>3, <2>5
  <2> QED BY <1>4, <2>1, <2>6, Zenon
<1>6. ASSUME NEW t, SumsTo(p, m, t)
      PROVE  \E s : SumsTo(q, m, s) /\ t[l + 1] = next(s, l + 1, one)
  <2> DEFINE s == [n \in 0 .. l |-> t[n]]
  <2>1. s = [n \in 0 .. l |-> s[n]] /\ Agree(s, t, l)
    OBVIOUS
  <2> HIDE DEF s
  <2>2. \A n \in 0 .. l + 1 : Right(t, n, p[n])
    BY <1>4, <1>6, Zenon
  <2>3. \A n \in 0 .. l : Right(s, n, q[n])
    BY <1>1, <1>2, <2>1, <2>2
  <2>4. SumsTo(q, m, s)
    BY <1>3, <2>1, <2>3, Zenon
  <2>5. t[l + 1] = next(t, l + 1, one)
    BY <1>1, <2>2
  <2>6. s[l + 1 - 1] = t[l + 1 - 1]
    BY <1>1, <2>1
  <2> QED BY <2>4, <2>5, <2>6
<1>7. \A s : next(s, l + 1, one) = IF Has(one, m) THEN Added(s[l], one.result.metrics[m]) ELSE s[l]
  BY <1>1
<1> QED BY <1>5, <1>6, <1>7

\* The mean of a metric is that of the cases that have it.
Having(q, m) == {n \in DOMAIN q : Has(q[n], m)}
MeanOf(agg, s) == s \in Int \X (Nat \ {0}) /\ agg.mean[1] * agg.count * s[2] = s[1] * agg.mean[2]
MeanInv(q, agg, m) ==
    /\ agg.count \in Nat /\ agg.count = Cardinality(Having(q, m))
    /\ agg.mean[1] \in Int /\ agg.mean[2] \in Int
    /\ \E s : SumsTo(q, m, s)
    /\ \A s : SumsTo(q, m, s) => MeanOf(agg, s[Len(q)])

\* What a score adds to a mean, it adds to the sum.
LEMMA MeanStep ==
    ASSUME NEW agg, agg.count \in Nat, agg.mean[1] \in Int, agg.mean[2] \in Int,
           NEW s, MeanOf(agg, s), NEW x, Score(x), NEW new, new = addAggregate(agg, x)
    PROVE  /\ new.count = agg.count + 1 /\ new.mean[1] \in Int /\ new.mean[2] \in Int
           /\ MeanOf(new, Added(s, x))
<1>1. PICK c \in Nat, a \in Int, b \in Int, s1 \in Int, s2 \in Nat \ {0}, x1 \in Int, x2 \in Nat \ {0} :
         /\ c = agg.count /\ a = agg.mean[1] /\ b = agg.mean[2] /\ s = <<s1, s2>> /\ x = <<x1, x2>>
         /\ a * c * s2 = s1 * b
  <2>1. s \in Int \X (Nat \ {0}) /\ agg.mean[1] * agg.count * s[2] = s[1] * agg.mean[2]
    BY DEF MeanOf
  <2>2. x \in Int \X (Nat \ {0})
    BY DEF Score
  <2>3. PICK s1 \in Int, s2 \in Nat \ {0} : s = <<s1, s2>>
    BY <2>1
  <2>4. PICK x1 \in Int, x2 \in Nat \ {0} : x = <<x1, x2>>
    BY <2>2
  <2>5. PICK c \in Nat, a \in Int, b \in Int : c = agg.count /\ a = agg.mean[1] /\ b = agg.mean[2]
    OBVIOUS
  <2>6. a * c * s2 = s1 * b
    BY <2>1, <2>3, <2>5
  <2> QED BY <2>3, <2>4, <2>5, <2>6
<1>2. new.count = c + 1 /\ new.mean = <<a * c * x2 + x1 * b, b * x2 * (c + 1)>>
  BY <1>1 DEF addAggregate
<1>3. Added(s, x) = <<s1 * x2 + x1 * s2, s2 * x2>>
  BY <1>1 DEF Added
<1>4. s2 * x2 \in Nat \ {0}
  BY <1>1
<1>5. (a * c * x2 + x1 * b) * (c + 1) * (s2 * x2) = (s1 * x2 + x1 * s2) * (b * x2 * (c + 1))
  <2> DEFINE d == c + 1
  <2>1. d \in Nat /\ d = c + 1
    OBVIOUS
  <2>2. PICK k \in Int : k = a * c
    OBVIOUS
  <2> HIDE DEF d
  <2>3. k * s2 = s1 * b
    BY <1>1, <2>2
  <2>4. (k * x2 + x1 * b) * d * (s2 * x2) = (k * s2) * (x2 * d * x2) + (x1 * b) * (d * s2 * x2)
    BY <2>1
  <2>5. (s1 * x2 + x1 * s2) * (b * x2 * d) = (s1 * b) * (x2 * d * x2) + (x1 * b) * (d * s2 * x2)
    BY <2>1
  <2>6. (k * x2 + x1 * b) * d * (s2 * x2) = (s1 * x2 + x1 * s2) * (b * x2 * d)
    BY <2>3, <2>4, <2>5
  <2> QED BY <2>1, <2>2, <2>6
<1>6. Added(s, x)[1] = s1 * x2 + x1 * s2 /\ Added(s, x)[2] = s2 * x2
      /\ Added(s, x) \in Int \X (Nat \ {0})
  BY <1>3, <1>4
<1>7. new.mean[1] = a * c * x2 + x1 * b /\ new.mean[2] = b * x2 * (c + 1)
  BY <1>2
<1> QED BY <1>1, <1>2, <1>5, <1>6, <1>7 DEF MeanOf

\* A report with one case more has the right means.
LEMMA MeanNext ==
    ASSUME NEW q \in Seq(Entry), NEW one \in Entry, NEW agg, NEW m, MeanInv(q, agg, m),
           Has(one, m) => Score(one.result.metrics[m]),
           NEW new, new = IF Has(one, m) THEN addAggregate(agg, one.result.metrics[m]) ELSE agg
    PROVE  MeanInv(Append(q, one), new, m)
<1> PICK l, p : l = Len(q) /\ p = Append(q, one)
  OBVIOUS
<1>1. /\ agg.count \in Nat /\ agg.count = Cardinality(Having(q, m))
      /\ agg.mean[1] \in Int /\ agg.mean[2] \in Int
      /\ \E s : SumsTo(q, m, s)
      /\ \A s : SumsTo(q, m, s) => MeanOf(agg, s[l])
  BY DEF MeanInv
<1>2. /\ \A s : SumsTo(q, m, s) => \E t : SumsTo(p, m, t)
      /\ \A t : SumsTo(p, m, t) =>
            \E s : /\ SumsTo(q, m, s)
                   /\ t[l + 1] = IF Has(one, m) THEN Added(s[l], one.result.metrics[m]) ELSE s[l]
  BY SumPush
<1>3. /\ l \in Nat /\ Len(p) = l + 1 /\ p[l + 1] = one /\ \A n \in 1 .. l : p[n] = q[n]
      /\ DOMAIN p = (1 .. l) \cup {l + 1} /\ DOMAIN q = 1 .. l /\ l + 1 \notin 1 .. l
  OBVIOUS
<1>4. Having(p, m) = IF Has(one, m) THEN Having(q, m) \cup {l + 1} ELSE Having(q, m)
  BY <1>3 DEF Having
<1>5. Cardinality(Having(p, m)) = IF Has(one, m) THEN agg.count + 1 ELSE agg.count
  <2>1. IsFiniteSet(1 .. l) /\ Having(q, m) \subseteq 1 .. l
    BY <1>3, FS_Interval DEF Having
  <2>2. IsFiniteSet(Having(q, m)) /\ l + 1 \notin Having(q, m)
    BY <1>3, <2>1, FS_Subset
  <2>3. Cardinality(Having(q, m) \cup {l + 1}) = Cardinality(Having(q, m)) + 1
    BY <2>2, FS_AddElement
  <2> QED BY <1>1, <1>4, <2>3
<1>6. \E t : SumsTo(p, m, t)
  BY <1>1, <1>2
<1>7. CASE Has(one, m)
  <2>1. Score(one.result.metrics[m]) /\ new = addAggregate(agg, one.result.metrics[m])
    BY <1>7
  <2>2. \A s : SumsTo(q, m, s) =>
           /\ new.count = agg.count + 1 /\ new.mean[1] \in Int /\ new.mean[2] \in Int
           /\ MeanOf(new, Added(s[l], one.result.metrics[m]))
    BY <1>1, <2>1, MeanStep
  <2>3. new.count = agg.count + 1 /\ new.mean[1] \in Int /\ new.mean[2] \in Int
    BY <1>1, <2>2
  <2>4. \A t : SumsTo(p, m, t) => MeanOf(new, t[l + 1])
    BY <1>2, <1>7, <2>2
  <2> QED BY <1>1, <1>3, <1>5, <1>6, <1>7, <2>3, <2>4 DEF MeanInv
<1>8. CASE ~Has(one, m)
  <2>1. \A t : SumsTo(p, m, t) => MeanOf(agg, t[l + 1])
    BY <1>1, <1>2, <1>8
  <2> QED BY <1>1, <1>3, <1>5, <1>6, <1>8, <2>1 DEF MeanInv
<1> QED BY <1>7, <1>8

\* The means of a report.
MeansInv(e) == \A m \in MetricNames : MeanInv(report[e].cases, report[e].aggregates[m], m)

\* They are right before the first case,
LEMMA MeansInit == Init => \A e \in Commands : MeansInv(e)
<1> DEFINE agg == [mean |-> Zero, count |-> 0]
<1> SUFFICES ASSUME Init, NEW e \in Commands, NEW m \in MetricNames
             PROVE  MeanInv(<<>>, agg, m)
  <2>1. Init => \A e \in Commands : report[e].cases = <<>>
    BY DEF Init, NewReport
  <2>2. Init => \A e \in Commands : \A m \in MetricNames : report[e].aggregates[m] = agg
    BY DEF Init, NewReport
  <2> QED BY <2>1, <2>2 DEF MeansInv
<1>1. Having(<<>>, m) = {} /\ Cardinality({}) = 0 /\ Len(<<>>) = 0
  BY FS_EmptySet DEF Having
<1>2. \A s : SumsTo(<<>>, m, s) <=>
         s = [n \in {0} |-> s[n]] /\ s[0] = Zero
  <2>1. 0 .. Len(<<>>) = {0}
    BY <1>1
  <2>2. \A s : SumsTo(<<>>, m, s) <=>
         s = [n \in {0} |-> s[n]]
         /\ \A n \in {0} : s[n] = IF n = 0 THEN Zero
                           ELSE IF Has(<<>>[n], m) THEN Added(s[n - 1], <<>>[n].result.metrics[m])
                           ELSE s[n - 1]
    BY <2>1, SumsStep, Zenon
  <2> QED BY <2>2, Zenon
<1>3. \E s : SumsTo(<<>>, m, s)
  <2> DEFINE z == [n \in {0} |-> Zero]
  <2>1. z = [n \in {0} |-> z[n]] /\ z[0] = Zero
    OBVIOUS
  <2> HIDE DEF z
  <2> QED BY <1>2, <2>1, Zenon
<1>4. \A s : SumsTo(<<>>, m, s) => s[0] = Zero
  BY <1>2, Zenon
<1>5. MeanOf(agg, Zero)
  BY DEF MeanOf, Zero
<1>6. Zero[1] \in Int /\ Zero[2] \in Int
  BY DEF Zero
<1> QED BY <1>1, <1>3, <1>4, <1>5, <1>6 DEF MeanInv

\* and after each further one.
LEMMA MeansNext ==
    ASSUME FilesInv, [Next]_vars, NEW e \in Commands, CasesInv(e), MeansInv(e)
    PROVE  MeansInv(e)'
<1>0. CasesTypeOK
  BY DEF FilesInv
<1>1. CASE report'[e] = report[e]
  <2>1. \A m \in MetricNames : MeanInv(report'[e].cases, report'[e].aggregates[m], m)
    BY <1>1 DEF MeansInv
  <2> QED BY <2>1 DEF MeansInv, MeanInv, MeanOf, Having, Has, SumsTo, Added, Zero, MetricNames
<1>2. ASSUME NEW result \in runCase(data[at[e] + 1], mode[e]), at[e] < Len(data),
             report'[e] = AddCase(report[e], data[at[e] + 1], result)
      PROVE  MeansInv(e)'
  <2> DEFINE item == data[at[e] + 1]
             one == [id |-> item.id, result |-> result]
             q == report[e].cases
  <2>1. at[e] + 1 \in 1 .. Len(data)
    <3>1. Len(data) \in Nat
      BY <1>0, EvaluationAssumption DEF CasesTypeOK
    <3> QED BY <1>0, <1>2, <3>1 DEF CasesTypeOK
  <2>2. item \in Items /\ one \in Entry /\ one.result = result
    <3>1. item \in Items
      BY <1>0, <2>1, ItemType
    <3>2. mode[e] \in Modes
      BY <1>0 DEF CasesTypeOK
    <3>3. result \in Outcomes
      BY <1>2, <3>1, <3>2 DEF Outcomes
    <3> QED BY <3>1, <3>3 DEF Entry
  <2>3. CaseAgrees(item, result)
    BY <1>2, <2>2, OutcomeAgrees
  <2>4. q \in Seq(Entry)
    BY DEF CasesInv
  <2>5. /\ report'[e].cases = Append(q, one)
        /\ \A m \in MetricNames :
              report'[e].aggregates[m] = IF Has(one, m)
                                         THEN addAggregate(report[e].aggregates[m], result.metrics[m])
                                         ELSE report[e].aggregates[m]
    BY <1>2 DEF AddCase, addCaseAggregates, Has
  <2> HIDE DEF q, one, item
  <2>6. ASSUME NEW m \in MetricNames
        PROVE  MeanInv(report'[e].cases, report'[e].aggregates[m], m)
    <3>1. MeanInv(q, report[e].aggregates[m], m)
      BY DEF MeansInv, q
    <3>2. Has(one, m) => Score(one.result.metrics[m])
      BY <2>2, <2>3 DEF CaseAgrees, ScoresOf, Has
    <3>3. \A new : new = (IF Has(one, m)
                          THEN addAggregate(report[e].aggregates[m], one.result.metrics[m])
                          ELSE report[e].aggregates[m]) => MeanInv(Append(q, one), new, m)
      BY <2>2, <2>4, <3>1, <3>2, MeanNext
    <3> QED BY <2>2, <2>5, <3>3
  <2> QED BY <2>6 DEF MeansInv, MeanInv, MeanOf, Having, Has, SumsTo, Added, Zero, MetricNames
<1> QED BY <1>0, <1>1, <1>2, ReportNext

\* The running mean of a metric is the mean of the cases that have it
\* (runner.go:165-187).
THEOREM MeansCorrect == Spec => []MeansExact
<1> DEFINE Inv == CountsInv /\ \A e \in Commands : MeansInv(e)
<1>1. Init => Inv
  BY CountsInit, MeansInit
<1>2. Inv /\ [Next]_vars => Inv'
  <2> SUFFICES ASSUME Inv, [Next]_vars PROVE Inv'
    OBVIOUS
  <2>1. CountsInv'
    BY CountsNext
  <2>2. \A e \in Commands : MeansInv(e)'
    BY MeansNext DEF CountsInv
  <2> QED BY <2>1, <2>2
<1>3. Inv => MeansExact
  <2> SUFFICES ASSUME Inv, NEW e \in Commands, NEW m \in MetricNames,
                      NEW q, q = report[e].cases, NEW agg, agg = report[e].aggregates[m]
               PROVE  /\ agg.count = Cardinality({n \in DOMAIN q : m \in DOMAIN q[n].result.metrics})
                      /\ Equal(<<agg.mean[1] * agg.count, agg.mean[2]>>, SumTo(e, m))
    BY DEF MeansExact
  <2>1. MeanInv(q, agg, m)
    BY DEF MeansInv
  <2> DEFINE sum == CHOOSE s : SumsTo(q, m, s)
  <2>2. SumTo(e, m) = sum[Len(q)]
    BY DEF SumTo, SumsTo, Added, Has
  <2>3. SumsTo(q, m, sum)
    BY <2>1, Zenon DEF MeanInv
  <2> HIDE DEF sum
  <2>4. MeanOf(agg, sum[Len(q)])
    BY <2>1, <2>3 DEF MeanInv
  <2>5. Equal(<<agg.mean[1] * agg.count, agg.mean[2]>>, sum[Len(q)])
    BY <2>4 DEF MeanOf, Equal
  <2>6. agg.count = Cardinality({n \in DOMAIN q : m \in DOMAIN q[n].result.metrics})
    BY <2>1 DEF MeanInv, Having, Has
  <2> QED BY <2>2, <2>5, <2>6
<1> QED BY <1>1, <1>2, <1>3, PTL DEF Spec
=============================================================================
