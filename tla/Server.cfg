CONSTANTS
    Processes = {p1, p2}
    Roles = {"operator", "admin", "viewer"}
    Scenarios <- MCScenarios
    MaxClock = 2
SPECIFICATION Spec
INVARIANTS CollectionReady TurnsServed ExitClean PrincipalCurrent ToolsPermitted
SYMMETRY Symmetry
