CONSTANTS
    Requests = {r1, r2}
    Keys = {k1}
    NoOwner = NoOwner
    ConfiguredTtl = 2
    Instances = {i1, i2}
    ConfiguredBuffer = 1
    MaxStreams = 1
    MaxChunks = 1
    Answers = {a1, a2}
    Faults = {{"late", "cancel"}, {"redis"}, {"busy", "agent"}}
SPECIFICATION Spec
INVARIANTS LeaseKept SuccessWritten LockedTurnsSerial OkShown
PROPERTY FreedByOwner
SYMMETRY Symmetry
