CONSTANTS
    Clients = {c1, c2}
    Keys = {k1}
    IdemKeys = {i1, i2}
    NoIdem = NoIdem
    Turns = {t1, t2}
    Versions <- MCVersions
    Kinds <- MCKinds
    MaxMessages = 3
    NoTurn = NoTurn
    MaxCalls = 3
SPECIFICATION FairSpec
INVARIANTS TypeOK RowsShowLog CommittedOnce LoadShowsCommitted
PROPERTIES AppendsLinearizable CallsReturn
