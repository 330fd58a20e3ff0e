\* A failed Bind whose slot another session takes.
CONSTANTS
    w1 = w1
    w2 = w2
    w3 = w3
    c1 = c1
    c2 = c2
    r1 = r1
    k1 = k1
    None = None
    Workers = {w1, w2, w3}
    Callers = {c1, c2}
    Closers = {}
    Reapers = {r1}
    MaxProcesses = 1
    MinProcesses = 0
    MaxAttempts = 2
SPECIFICATION Spec
SYMMETRY Symmetry
INVARIANTS OvershootIsTransient
CHECK_DEADLOCK FALSE
