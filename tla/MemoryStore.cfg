CONSTANTS
    Clients = {c1, c2}
    Keys = {k1}
    IdemKeys = {i1}
    NoIdem = NoIdem
    Turns = {t1, t2}
    Versions <- MCVersions
    Kinds <- MCKinds
    MaxMessages = 3
    NoObject = NoObject
    NoTurn = NoTurn
    MaxCalls = 4
SPECIFICATION FairSpec
INVARIANT TypeOK
INVARIANT EntryShowsLog
INVARIANT CommittedOnce
PROPERTY Linearizable
PROPERTY CallsReturn
