\* Two workers at most, two callers, one Shutdown; a worker serves twice.
CONSTANTS
    w1 = w1
    w2 = w2
    w3 = w3
    c1 = c1
    c2 = c2
    r1 = r1
    r2 = r2
    k1 = k1
    None = None
    Workers = {w1, w2, w3}
    Callers = {c1, c2}
    Closers = {k1}
    Reapers = {r1, r2}
    MaxProcesses = 2
    MinProcesses = 1
    MaxCheckoutsPerWorker = 2
SPECIFICATION Spec
SYMMETRY Symmetry
INVARIANTS TypeOK OneOwner CountersExact ProcessBound RetireNeverBlocks NoLostWakeup ShutdownIsFinal ServedBound
PROPERTY NeverKillsReleased
