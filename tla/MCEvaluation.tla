---------------------------- MODULE MCEvaluation ----------------------------
(* Constants of Evaluation for TLC: a case with labels, one without, one that *)
(* the tags leave out, and a data set that uses an id twice.                  *)
EXTENDS Evaluation

CONSTANTS han, lo, up, dot, d1, d2, t1, t2

MCLower == (lo :> lo) @@ (up :> lo)
Labelled == [id |-> "one", relevant |-> {d1, d2}, reference |-> <<han, lo, lo>>,
             checkTools |-> TRUE, expected |-> {t1}, tags |-> {"smoke"}]
Single == [Labelled EXCEPT !.id = "two", !.relevant = {d1}, !.reference = <<lo, dot, lo>>]
Bare == [id |-> "three", relevant |-> {}, reference |-> <<>>, checkTools |-> FALSE,
         expected |-> {}, tags |-> {"smoke"}]
Other == [Bare EXCEPT !.id = "four", !.tags = {}]

MCDataSets == {<<Labelled, Other, Single>>, <<Single, Bare>>, <<Other>>, <<Bare, Bare>>}
MCTexts == {<<han, up, lo, dot>>, <<lo, dot, up>>}
MCToolCalls == {<<t1, t1>>, <<t1, t2>>}
MCScores == {[wellFormed |-> TRUE, value |-> <<1, 2>>], [wellFormed |-> TRUE, value |-> <<2, 1>>],
             [wellFormed |-> FALSE, value |-> Zero]}
Flags(r, g, j) == [retrieval |-> r, agent |-> g, judge |-> j]
MCModes == {Flags(TRUE, FALSE, FALSE), Flags(FALSE, TRUE, TRUE), Flags(FALSE, FALSE, FALSE),
            Flags(FALSE, FALSE, TRUE), Flags(TRUE, TRUE, FALSE)}
Symmetry == Permutations(Commands)
=============================================================================
