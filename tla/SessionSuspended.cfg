\* An answer that cannot be encoded ends the run and leaves the worker suspended.
CONSTANTS
  MaxExec = 1
  MaxPause = 2
  Modes = {"run", "snap"}
  k2 = k2
  d1 = d1
  Stoppable = FALSE
  Closers = {}
  Controls = {}
  Policies <- AllPolicies
  SessionPolicy <- Abrupt
SPECIFICATION Spec
INVARIANT SuspensionIsOwned
