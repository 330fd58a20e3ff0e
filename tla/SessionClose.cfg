\* A Close whose context ends early, beside a run.
CONSTANTS
  MaxExec = 1
  MaxPause = 1
  Modes = {"run", "snap"}
  k2 = k2
  d1 = d1
  Stoppable = FALSE
  Closers = {k2}
  Controls = {}
  Policies <- AllPolicies
  SessionPolicy <- Abrupt
SPECIFICATION Spec
INVARIANT CloseStopsRun
