----------------------------- MODULE Evaluation -----------------------------
(***************************************************************************)
(* The evaluation command (src/cmd/eval/main.go) and its runner            *)
(* (src/internal/evaluation/runner.go, judge.go, dataset.go): commands     *)
(* with one output path load the data set, run its cases and write their   *)
(* report through a temporary file.  A command may be killed at any step.  *)
(*                                                                         *)
(* The retriever's answer is of the form of Retriever.tla; it, the agent   *)
(* and the judge's model return anything of the given small sets, or an    *)
(* error.                                                                  *)
(***************************************************************************)
EXTENDS Metrics

CONSTANTS
    Commands,    \* runs of the command
    DataSets,    \* the data sets there may be: sequences of cases
    Docs,        \* document ids
    TopK,        \* -top-k
    Tags,        \* -tags
    Texts,       \* answers the agent may give
    ToolCalls,   \* tool calls it may record: sequences of names
    Scores,      \* what the judge's model may answer
    Modes        \* the flags a command may have

ASSUME EvaluationAssumption ==
    /\ TopK \in 1 .. Len(Gain)
    /\ Modes \subseteq [retrieval : BOOLEAN, agent : BOOLEAN, judge : BOOLEAN]
    /\ {"none", "empty", "garbage"} \cap Commands = {}
    /\ \A cases \in DataSets :
          /\ cases \in Seq(ToSet(cases))
          /\ \A item \in ToSet(cases) :
                /\ IsFiniteSet(item.relevant)
                /\ item.reference \in Seq(ToSet(item.reference))
    /\ \A t \in Texts : t \in Seq(ToSet(t))
    /\ Scores \subseteq [wellFormed : BOOLEAN, value : Int \X (Nat \ {0})]

VARIABLES
    pc,        \* pc[e]: where command e is
    mode,      \* mode[e]: its flags
    data,      \* the data set
    at,        \* at[e]: how many of its cases e has seen
    report,    \* report[e]: Report
    code,      \* code[e]: exit code, -1 before
    tmp,       \* the file with the temporary name, or "none"
    latest,    \* the file with the name of the output, or "none"
    text,      \* text[i]: the contents of file i: "empty", "garbage" or a command's report
    opened,    \* opened[e]: the file e writes to
    overlap    \* history: did a command open the file while another was writing?

runVars == <<mode, data, at, report>>
fileVars == <<tmp, latest, text, opened, overlap>>
vars == <<pc, runVars, code, fileVars>>

MetricNames ==
    {"recall_at_k", "mrr", "ndcg_at_k", "exact_match", "token_f1", "tool_set_accuracy", "judge"}

Goto(e, l) == pc' = [pc EXCEPT ![e] = l] /\ UNCHANGED code
Exit(e, c) == pc' = [pc EXCEPT ![e] = "exited"] /\ code' = [code EXCEPT ![e] = c]
-----------------------------------------------------------------------------
\* LoadJSONL refuses two cases with one id.
Loadable(cases) == \A m, n \in DOMAIN cases : cases[m].id = cases[n].id => m = n

\* Flags that do not fit, a data set that does not load and a dependency that
\* cannot be created end the command.
Start(e) ==
    /\ pc[e] = "start"
    /\ \/ Loadable(data) /\ (mode[e].judge => mode[e].agent) /\ Goto(e, "run")
       \/ Exit(e, 2)
    /\ UNCHANGED <<runVars, fileVars>>

\* Retrieve: up to TopK documents in the order of the hits; a document that came back twice
\* has the rank of its last hit both times.
Retrievals ==
    UNION {{[n \in 1 .. l |-> [id |-> q[n], rank |-> Max({m \in 1 .. l : q[m] = q[n]})]]
               : q \in [1 .. l -> Docs]} : l \in 0 .. TopK}

\* Two results' metrics in one.
Merge(f, g) ==
    [m \in DOMAIN f \cup DOMAIN g |-> IF m \in DOMAIN f THEN f[m] ELSE g[m]]

Nothing == [retrieved |-> <<>>, order |-> <<>>, answer |-> <<>>, metrics |-> <<>>, errors |-> 0]
Failure == [Nothing EXCEPT !.errors = 1]

\* Mutant: the furthest first.
MutByRank(docs) ==
    LET upTo(m) == {h \in DOMAIN docs : \/ docs[h].rank > docs[m].rank
                                        \/ docs[h].rank = docs[m].rank /\ h <= m}
    IN [n \in DOMAIN docs |-> docs[CHOOSE m \in DOMAIN docs : Cardinality(upTo(m)) = n]]

\* retrievedDocuments: sorted by rank, documents of one rank as they came.
ByRank(docs) ==
    LET upTo(m) == {h \in DOMAIN docs : \/ docs[h].rank < docs[m].rank
                                        \/ docs[h].rank = docs[m].rank /\ h <= m}
    IN [n \in DOMAIN docs |-> docs[CHOOSE m \in DOMAIN docs : Cardinality(upTo(m)) = n]]

\* documentIDs, and the scores of a case with relevant documents.
Scored(item, docs) ==
    LET ids == [n \in DOMAIN docs |-> docs[n].id] IN
    [Nothing EXCEPT
        !.order = ids,
        !.retrieved = ByRank(docs),
        !.metrics = IF item.relevant = {} THEN <<>>
                    ELSE [recall_at_k |-> RecallAtK(ids, item.relevant, TopK),
                          mrr |-> MRR(ids, item.relevant),
                          ndcg_at_k |-> NDCGAtK(ids, item.relevant, TopK)]]

\* Evaluate: a score that is malformed or out of range is an error.
Valid(score) == score.wellFormed /\ Leq(Zero, score.value) /\ Leq(score.value, One)

Judged(score) ==
    IF Valid(score) THEN [Nothing EXCEPT !.metrics = [judge |-> score.value]] ELSE Failure

Answered(item, answer, tools) ==
    [Nothing EXCEPT
        !.answer = answer,
        !.metrics =
            Merge(IF item.reference = <<>> THEN <<>>
                  ELSE [exact_match |-> ExactMatch(answer, item.reference),
                        token_f1 |-> TokenF1(answer, item.reference)],
                  IF item.checkTools THEN [tool_set_accuracy |-> ToolSetAccuracy(tools, item.expected)]
                  ELSE <<>>)]

Join(x, y) ==
    [retrieved |-> x.retrieved \o y.retrieved, order |-> x.order \o y.order,
     answer |-> x.answer \o y.answer, metrics |-> Merge(x.metrics, y.metrics),
     errors |-> x.errors + y.errors]

RetrievalParts(item, on) ==
    IF on THEN {Failure} \cup {Scored(item, docs) : docs \in Retrievals} ELSE {Nothing}

JudgeParts(on) ==
    IF on THEN {Failure} \cup {Judged(score) : score \in Scores} ELSE {Nothing}

\* An agent that fails, or answers nothing, is not judged.
AgentParts(item, flags) ==
    IF flags.agent
    THEN {Failure} \cup
         UNION {{Join(Answered(item, a, t), j) : j \in JudgeParts(flags.judge)}
                   : a \in Texts, t \in ToolCalls}
    ELSE {Nothing}

\* runCase: a retrieval that fails does not keep the agent from running.
runCase(item, flags) ==
    UNION {{Join(x, y) : y \in AgentParts(item, flags)} : x \in RetrievalParts(item, flags.retrieval)}

\* Mutant: the count is one ahead.
MutAddAggregate(agg, value) ==
    [mean |-> <<agg.mean[1] * (agg.count + 1) * value[2] + value[1] * agg.mean[2],
                agg.mean[2] * value[2] * (agg.count + 2)>>,
     count |-> agg.count + 1]

\* The running mean.
addAggregate(agg, value) ==
    [mean |-> <<agg.mean[1] * agg.count * value[2] + value[1] * agg.mean[2],
                agg.mean[2] * value[2] * (agg.count + 1)>>,
     count |-> agg.count + 1]

addCaseAggregates(aggs, metrics) ==
    [m \in MetricNames |-> IF m \in DOMAIN metrics THEN addAggregate(aggs[m], metrics[m]) ELSE aggs[m]]

matchesTags(item) == Tags = {} \/ item.tags \cap Tags # {}

\* Mutant: only a case without a result counts as failed.
MutAddCase(rep, item, result) ==
    [cases |-> Append(rep.cases, [id |-> item.id, result |-> result]),
     failed |-> rep.failed + (IF result.errors > 0 /\ result.metrics = <<>> THEN 1 ELSE 0),
     aggregates |-> addCaseAggregates(rep.aggregates, result.metrics)]

AddCase(rep, item, result) ==
    [cases |-> Append(rep.cases, [id |-> item.id, result |-> result]),
     failed |-> rep.failed + (IF result.errors > 0 THEN 1 ELSE 0),
     aggregates |-> addCaseAggregates(rep.aggregates, result.metrics)]

\* The next case of Run.
RunCase(e) ==
    /\ pc[e] = "run"
    /\ at[e] < Len(data)
    /\ at' = [at EXCEPT ![e] = @ + 1]
    /\ LET item == data[at[e] + 1] IN
       IF matchesTags(item)
       THEN \E result \in runCase(item, mode[e]) :
               report' = [report EXCEPT ![e] = AddCase(@, item, result)]
       ELSE UNCHANGED report
    /\ UNCHANGED <<pc, mode, data, code, fileVars>>
-----------------------------------------------------------------------------
\* Mutant: the report goes straight to the output.
MutOpen(e) ==
    /\ pc[e] = "run"
    /\ at[e] = Len(data)
    /\ \/ /\ report[e].cases # <<>>
          /\ tmp' = e
          /\ latest' = e
          /\ opened' = [opened EXCEPT ![e] = e]
          /\ text' = [text EXCEPT ![e] = "empty"]
          /\ overlap' = (overlap \/ \E o \in Commands : pc[o] \in {"write", "rename"})
          /\ Goto(e, "write")
       \/ Exit(e, 2) /\ UNCHANGED fileVars
    /\ UNCHANGED runVars

\* Validate refuses a report without cases.  The temporary file is created, or
\* emptied when the name is there.
Open(e) ==
    /\ pc[e] = "run"
    /\ at[e] = Len(data)
    /\ \/ /\ report[e].cases # <<>>
          /\ LET i == IF tmp = "none" THEN e ELSE tmp IN
             /\ tmp' = i
             /\ opened' = [opened EXCEPT ![e] = i]
             /\ text' = [text EXCEPT ![i] = "empty"]
          /\ overlap' = (overlap \/ \E o \in Commands : pc[o] \in {"write", "rename"})
          /\ Goto(e, "write")
          /\ UNCHANGED latest
       \/ Exit(e, 2) /\ UNCHANGED fileVars
    /\ UNCHANGED runVars

\* Encode writes all of it at once, over what another command may have written.
\* After an error the temporary name is removed, whoever's file it is.
Write(e) ==
    /\ pc[e] = "write"
    /\ \/ /\ text' = [text EXCEPT ![opened[e]] = IF @ = "empty" THEN e ELSE "garbage"]
          /\ Goto(e, "rename")
          /\ UNCHANGED tmp
       \/ /\ text' = [text EXCEPT ![opened[e]] = "garbage"]
          /\ tmp' = "none"
          /\ Exit(e, 2)
    /\ UNCHANGED <<runVars, latest, opened, overlap>>

Rename(e) ==
    /\ pc[e] = "rename"
    /\ \/ tmp # "none" /\ latest' = tmp /\ Goto(e, "renamed")
       \/ UNCHANGED latest /\ Exit(e, 2)
    /\ tmp' = "none"
    /\ UNCHANGED <<runVars, text, opened, overlap>>

\* The report is in its place; the exit code is about its cases.
Finish(e) ==
    /\ pc[e] = "renamed"
    /\ Exit(e, IF report[e].failed > 0 THEN 1 ELSE 0)
    /\ UNCHANGED <<runVars, fileVars>>

\* The command is killed, maybe in the middle of a write.  Before, it has left
\* nothing behind.
Kill(e) ==
    /\ pc[e] \in {"write", "rename", "renamed"}
    /\ Goto(e, "killed")
    /\ \/ UNCHANGED text
       \/ pc[e] = "write" /\ text' = [text EXCEPT ![opened[e]] = "garbage"]
    /\ UNCHANGED <<runVars, tmp, latest, opened, overlap>>
-----------------------------------------------------------------------------
NewReport ==
    [cases |-> <<>>, failed |-> 0,
     aggregates |-> [m \in MetricNames |-> [mean |-> Zero, count |-> 0]]]

\* Bound: one command at most has anything to run.
Init ==
    /\ pc = [e \in Commands |-> "start"]
    /\ mode \in [Commands -> Modes]
    /\ \A e, o \in Commands : mode[e].retrieval \/ mode[e].agent =>
          e = o \/ ~(mode[o].retrieval \/ mode[o].agent)
    /\ data \in DataSets
    /\ at = [e \in Commands |-> 0]
    /\ report = [e \in Commands |-> NewReport]
    /\ code = [e \in Commands |-> -1]
    /\ tmp = "none"
    /\ latest = "none"
    /\ text = [e \in Commands |-> "empty"]
    /\ opened = [e \in Commands |-> "none"]
    /\ overlap = FALSE

Over == (\A e \in Commands : pc[e] \in {"exited", "killed"}) /\ UNCHANGED vars

Next ==
    \/ \E e \in Commands :
          \/ Start(e) \/ RunCase(e) \/ Open(e) \/ Write(e) \/ Rename(e) \/ Finish(e) \/ Kill(e)
    \/ Over

Spec == Init /\ [][Next]_vars
-----------------------------------------------------------------------------
Results(e) == {report[e].cases[n].result : n \in DOMAIN report[e].cases}

Item(e, n) == CHOOSE i \in ToSet(data) : i.id = report[e].cases[n].id

\* The scores of one case lie between 0 and 1, also when documents or tokens are
\* repeated, and agree with each other and with what they are to measure: recall is
\* 1 when all relevant documents came back, all three retrieval scores are 0
\* together, NDCG is 1 exactly when the relevant documents come first, which makes
\* MRR 1, and an exact match has full F1 (metrics.go:15-108, judge.go:62-80).
ScoresAgree ==
    \A e \in Commands : \A n \in DOMAIN report[e].cases :
        LET r == report[e].cases[n].result
            s == r.metrics
            relevant == Item(e, n).relevant
            first == ToSet(Top(uniqueStrings(r.order), IdealCount(relevant, TopK)))
        IN /\ \A m \in DOMAIN s : Leq(Zero, s[m]) /\ Leq(s[m], One)
           /\ "mrr" \in DOMAIN s =>
                /\ Equal(s.recall_at_k, One) <=> relevant \subseteq ToSet(r.order)
                /\ \A m \in {"recall_at_k", "mrr", "ndcg_at_k"} :
                      Equal(s[m], Zero) <=> relevant \cap ToSet(r.order) = {}
                /\ Equal(s.ndcg_at_k, One) <=>
                      first \subseteq relevant /\ Cardinality(first) = IdealCount(relevant, TopK)
                /\ Equal(s.ndcg_at_k, One) => Equal(s.mrr, One)
           /\ "token_f1" \in DOMAIN s =>
                /\ Equal(s.exact_match, One) => Equal(s.token_f1, One)
                /\ Equal(s.token_f1, One) <=>
                      tokenCounts(tokenize(r.answer)) = tokenCounts(tokenize(Item(e, n).reference))

\* The documents of a report stand in the order their scores were computed from,
\* unless one came back twice (runner.go:222-240).
OrderReported ==
    \A e \in Commands : \A r \in Results(e) :
        Len(uniqueStrings(r.order)) = Len(r.order) =>
            r.order = [n \in DOMAIN r.retrieved |-> r.retrieved[n].id]

\* The sum of metric m over the cases 1..n of e that have it.
SumTo(e, m) ==
    LET cases == report[e].cases
        sum[n \in 0 .. Len(cases)] ==
            IF n = 0 THEN Zero
            ELSE IF m \in DOMAIN cases[n].result.metrics
                 THEN LET x == sum[n - 1]
                          y == cases[n].result.metrics[m]
                      IN <<x[1] * y[2] + y[1] * x[2], x[2] * y[2]>>
                 ELSE sum[n - 1]
    IN sum[Len(cases)]

\* The running mean of a metric is the mean of the cases that have it
\* (runner.go:165-187).
MeansExact ==
    \A e \in Commands : \A m \in MetricNames :
        LET agg == report[e].aggregates[m] IN
        /\ agg.count = Cardinality({n \in DOMAIN report[e].cases :
                                       m \in DOMAIN report[e].cases[n].result.metrics})
        /\ Equal(<<agg.mean[1] * agg.count, agg.mean[2]>>, SumTo(e, m))

\* The output is a whole report or the one before it, however a command ends, as
\* long as one command at a time writes, and never the report of a command that says
\* with its exit code that it did not write one (cmd/eval/main.go:98-141).
ReportWhole ==
    ~overlap /\ latest # "none" =>
        text[latest] \in Commands /\ code[text[latest]] # 2

\* A command that exits with 0 or 1 has put its own whole report into place before, unless
\* commands overlap; the report is on all cases its tags select, and 0 means that no part of
\* any case failed (cmd/eval/main.go:95-141).
ExitTruthful ==
    [][\A e \in Commands :
          /\ pc[e] # "renamed" /\ pc'[e] = "renamed" /\ ~overlap => text[latest'] = e
          /\ pc[e] # "exited" /\ pc'[e] = "exited" /\ code'[e] \in {0, 1} =>
                /\ pc[e] = "renamed"
                /\ [n \in DOMAIN report[e].cases |-> report[e].cases[n].id]
                      = LET chosen == Ascending({n \in DOMAIN data : matchesTags(data[n])})
                        IN [n \in DOMAIN chosen |-> data[chosen[n]].id]
                /\ code'[e] = 0 <=> \A r \in Results(e) : r.errors = 0]_vars
=============================================================================
