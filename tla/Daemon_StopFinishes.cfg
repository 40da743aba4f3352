CONSTANTS
  Stops = {c1}
  Rpcs = {r1}
SPECIFICATION FairDaemonSpec
PROPERTY StopFinishes
CHECK_DEADLOCK FALSE
