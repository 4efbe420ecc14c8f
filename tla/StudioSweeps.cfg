SPECIFICATION Spec
CONSTANTS
    e1 = e1
    w1 = w1
    w2 = w2
    p1 = p1
    p2 = p2
    NoWorker = NoWorker
    Events = {e1}
    Workflows = {w1}
    Targeted = {}
    Workers = {p1, p2}
    Nodes = 2
    MaxFailures = 1
    Claim = 2
    TimeLimit = 1
    ReviewAfter = 6
INVARIANTS
    TypeOK
    EffectOnce
PROPERTIES
    CancelStopsRun
    ReviewedIsOver
    SettledDelivery
SYMMETRY Sweeps
CHECK_DEADLOCK FALSE
