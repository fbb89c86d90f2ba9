CONSTANTS
    Instances = {i1, i2}
    Keys = {k1, k2}
    Requests = {r1, r2, r3}
    NoSession = NoSession
    MaxSessions = 1
    EventsCap = 4
    Scenarios <- MCTurns
SYMMETRY Symmetry
SPECIFICATION Spec
CHECK_DEADLOCK FALSE
INVARIANTS TokensCounted OkCommitted TurnSeesHistory RunsCounted
