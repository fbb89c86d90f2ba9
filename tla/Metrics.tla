------------------------------- MODULE Metrics -------------------------------
(***************************************************************************)
(* The scores of the evaluation (src/internal/evaluation/metrics.go).      *)
(* A score is a fraction <<numerator, denominator>>, exact where the code  *)
(* rounds; a text is a sequence of characters.                             *)
(***************************************************************************)
EXTENDS Integers, Sequences, FiniteSets, FiniteSetsExt, SequencesExt

CONSTANTS
    Han,      \* Chinese characters
    Word,     \* other letters, and digits
    Lower     \* Lower[c]: the lower case of a character of Word

Zero == <<0, 1>>
One == <<1, 1>>
Leq(x, y) == x[1] * y[2] <= y[1] * x[2]
Equal(x, y) == x[1] * y[2] = y[1] * x[2]

\* The numbers of a finite set, in order.
Ascending(S) ==
    [n \in 1 .. Cardinality(S) |-> CHOOSE i \in S : Cardinality({h \in S : h <= i}) = n]

\* Mutant: nothing is left out.
MutUniqueStrings(s) == s

\* The first occurrence of every element, in order.
uniqueStrings(s) ==
    LET first == Ascending({i \in DOMAIN s : \A h \in 1 .. i - 1 : s[h] # s[i]})
    IN [n \in DOMAIN first |-> s[first[n]]]

\* ranked[:k], when it is longer.
Top(s, k) == IF Len(s) > k THEN SubSeq(s, 1, k) ELSE s

Relevant(s, relevant) == {n \in DOMAIN s : s[n] \in relevant}

RecallAtK(retrieved, relevant, k) ==
    IF relevant = {} \/ k <= 0 THEN Zero
    ELSE <<Cardinality(Relevant(Top(uniqueStrings(retrieved), k), relevant)),
           Cardinality(relevant)>>

\* Mutant: the last relevant document instead of the first.
MutMRR(retrieved, relevant) ==
    LET found == Relevant(uniqueStrings(retrieved), relevant)
    IN IF found = {} THEN Zero ELSE <<1, Max(found)>>

MRR(retrieved, relevant) ==
    LET found == Relevant(uniqueStrings(retrieved), relevant)
    IN IF found = {} THEN Zero ELSE <<1, Min(found)>>

\* 1 / log2(n + 1) for the place n, in tenths; bound: four places.
Gain == <<10, 6, 5, 4>>
GainOf(places) == SumFunctionOnSet(Gain, places)

IdealCount(relevant, k) == IF Cardinality(relevant) > k THEN k ELSE Cardinality(relevant)

NDCGAtK(retrieved, relevant, k) ==
    IF relevant = {} \/ k <= 0 THEN Zero
    ELSE <<GainOf(Relevant(Top(uniqueStrings(retrieved), k), relevant)),
           GainOf(1 .. IdealCount(relevant, k))>>

\* A Chinese character, or a word in lower case.
Token(s, i, j) ==
    [n \in 1 .. j - i + 1 |-> IF s[i + n - 1] \in Han THEN s[i + n - 1] ELSE Lower[s[i + n - 1]]]

\* Every Chinese character and every longest run of other letters and digits.
tokenize(s) ==
    LET InWord(i) == i \in DOMAIN s /\ s[i] \in Word
        starts == Ascending({i \in DOMAIN s : s[i] \in Han \/ (InWord(i) /\ ~InWord(i - 1))})
        End(i) == IF s[i] \in Han THEN i
                  ELSE CHOOSE j \in i .. Len(s) :
                          ~InWord(j + 1) /\ \A h \in i .. j : InWord(h)
    IN [n \in DOMAIN starts |-> Token(s, starts[n], End(starts[n]))]

ExactMatch(answer, reference) == IF tokenize(answer) = tokenize(reference) THEN One ELSE Zero

tokenCounts(s) == [t \in ToSet(s) |-> Cardinality({n \in DOMAIN s : s[n] = t})]

\* How many tokens the two texts have in common.
Overlap(actual, expected) ==
    LET a == tokenCounts(actual)
        e == tokenCounts(expected)
        common == [t \in DOMAIN a \cap DOMAIN e |-> IF e[t] < a[t] THEN e[t] ELSE a[t]]
    IN SumFunctionOnSet(common, DOMAIN common)

\* F1 of precision o / |a| and recall o / |e|, which is 2 * o / (|a| + |e|).
TokenF1(answer, reference) ==
    LET actual == tokenize(answer)
        expected == tokenize(reference)
    IN
    IF actual = <<>> /\ expected = <<>> THEN One
    ELSE IF actual = <<>> \/ expected = <<>> THEN Zero
    ELSE <<2 * Overlap(actual, expected), Len(actual) + Len(expected)>>

ToolSetAccuracy(actual, expected) == IF ToSet(actual) = expected THEN One ELSE Zero
=============================================================================
