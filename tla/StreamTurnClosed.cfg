CONSTANTS
    Requests = {r1}
    Keys = {k1}
    NoOwner = NoOwner
    ConfiguredTtl = 2
    Instances = {i1}
    ConfiguredBuffer = 1
    MaxStreams = 1
    MaxChunks = 1
    Answers = {a1}
    Faults = {{"cancel"}, {"redis"}}
SPECIFICATION Spec
INVARIANT SendsBeforeFinish
