\* Two dials with two attempts a round; each may have the server started again.
CONSTANTS
  a = a
  b = b
  Dialers = {a, b}
  Attempts = 2
  RestartServer = TRUE
  MaxStarts = 3
SPECIFICATION FairSpec
INVARIANTS TypeOK SingleFlight OneServer
PROPERTIES NoCollateralRestart DoReturns
