\* One session that rotates and fails to bind while its old connections retire.
CONSTANTS
    w1 = w1
    w2 = w2
    w3 = w3
    c1 = c1
    c2 = c2
    r1 = r1
    k1 = k1
    None = None
    Workers = {w1, w2, w3}
    Callers = {c1}
    Closers = {}
    Reapers = {r1}
    MaxProcesses = 1
    MinProcesses = 0
    MaxAttempts = 2
SPECIFICATION Spec
SYMMETRY Symmetry
INVARIANTS RetirementIsAsynchronous
CHECK_DEADLOCK FALSE
