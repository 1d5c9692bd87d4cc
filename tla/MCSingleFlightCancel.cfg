\* Every task may be cancelled at any await.
SPECIFICATION Spec
CONSTANTS
    c1 = c1
    c2 = c2
    c3 = c3
    k1 = k1
    k2 = k2
    NoFut = NoFut
    NoKey = NoKey
    Callers = {c1, c2, c3}
    Keys = {k1, k2}
    Cancellable = {c1, c2, c3}
INVARIANTS
    OneComputationPerKey
    NoStaleAnswer
PROPERTY
    EveryCallEnds
