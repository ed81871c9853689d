SPECIFICATION FairSpec
CONSTANTS
  Webhooks = {h1, h2, h3}
  Kickoffs = {k1}
  Instant = {h1, k1}
  NoTask = none
INVARIANTS MonitorInv ExitLosesNothing
PROPERTY WorkEnds
CHECK_DEADLOCK FALSE
