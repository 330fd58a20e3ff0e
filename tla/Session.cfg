\* Every kind of execution, Stops, one closer and one caller of Dump.
CONSTANTS
  MaxExec = 1
  MaxPause = 2
  Modes = {"run", "snap"}
  k2 = k2
  d1 = d1
  Stoppable = TRUE
  Closers = {k2}
  Controls = {d1}
  Policies <- AllPolicies
  SessionPolicy <- Abrupt
SPECIFICATION Spec
INVARIANTS TypeOK OneProtocolOwner AbortsSuspension OneCause CancelOwed StopTellsTruth
PROPERTIES TerminalIsFinal LossIsClassified
