CONSTANTS
    Instances = {i1}
    Keys = {k1}
    Requests = {r1, r2}
    NoSession = NoSession
    MaxSessions = 1
    EventsCap = 4
    Scenarios <- MCLeak
SPECIFICATION FairSpec
PROPERTY TokensReturned
