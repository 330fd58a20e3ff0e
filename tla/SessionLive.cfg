\* Liveness: FeedRun and FeedStart with a feed context, a Close and a lost worker.
CONSTANTS
  MaxExec = 1
  MaxPause = 1
  Modes = {"run", "snap"}
  k2 = k2
  d1 = d1
  Stoppable = FALSE
  Closers = {k2}
  Controls = {}
  Policies <- LivePolicies
  SessionPolicy <- Abrupt
SPECIFICATION FairSpec
PROPERTIES StopCompletes CloseSettles LossReported
