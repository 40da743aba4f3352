CONSTANTS
  Stops = {c1}
  Rpcs = {r1}
SPECIFICATION FairDaemonSpec
INVARIANT NothingLeftBehind
CHECK_DEADLOCK FALSE
