\* Liveness: one worker at most, two callers, one Shutdown, no symmetry.
CONSTANTS
    w1 = w1
    w2 = w2
    w3 = w3
    c1 = c1
    c2 = c2
    r1 = r1
    r2 = r2
    k1 = k1
    None = None
    Workers = {w1, w2}
    Callers = {c1, c2}
    Closers = {k1}
    Reapers = {r1}
    MaxProcesses = 1
    MinProcesses = 1
    MaxCheckoutsPerWorker = 0
SPECIFICATION FairSpec
PROPERTIES RetiredIsReaped CloseFreesWaiters DrainEnds
