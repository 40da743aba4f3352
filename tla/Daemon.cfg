CONSTANTS
  Stops = {c1, c2}
  Rpcs = {r1, r2}
SPECIFICATION FairDaemonSpec
CHECK_DEADLOCK FALSE
INVARIANTS RuntimeClosedLast
PROPERTIES StopCompletes
