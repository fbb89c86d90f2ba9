CONSTANTS
    Instances = {i1}
    Keys = {k1}
    Requests = {r1, r2}
    NoSession = NoSession
    MaxSessions = 1
    EventsCap = 4
    Scenarios <- MCAnswers
SPECIFICATION MCFairSpec
CHECK_DEADLOCK FALSE
PROPERTIES RequestsEnd 
