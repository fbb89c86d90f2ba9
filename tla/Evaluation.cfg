CONSTANTS
    han = han
    lo = lo
    up = up
    dot = dot
    d1 = d1
    d2 = d2
    t1 = t1
    t2 = t2
    Han = {han}
    Word = {lo, up}
    Lower <- MCLower
    Commands = {e1, e2}
    DataSets <- MCDataSets
    Docs = {d1, d2}
    TopK = 2
    Tags = {"smoke"}
    Texts <- MCTexts
    ToolCalls <- MCToolCalls
    Scores <- MCScores
    Modes <- MCModes
SPECIFICATION Spec
SYMMETRY Symmetry
INVARIANTS ScoresAgree OrderReported MeansExact ReportWhole
PROPERTY ExitTruthful
