CONSTANTS
    Clients = {c1, c2}
    Keys = {k1}
    NoSnapshot = NoSnapshot
    Scenarios <- MCScenarios
    MaxCalls = 5
SPECIFICATION Spec
INVARIANTS SnapshotsCommitted AcknowledgedShown FillsFresh
