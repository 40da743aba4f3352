CONSTANTS
  Workspaces = {w1}
  Sessions = {s1, s2}
  Executions = {e1}
  None = None
SPECIFICATION FairSpec
CHECK_DEADLOCK FALSE
INVARIANTS ClosesLeaveNothing ResultsJoined
PROPERTIES ClosesComplete
