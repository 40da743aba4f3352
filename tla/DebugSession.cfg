CONSTANTS
  Callers = {c1, c2}
  Watchers = {w1}
  None = None
  watcherBufferSize = 2
  MaxCommands = 3
SPECIFICATION FairSpec
CHECK_DEADLOCK FALSE
INVARIANTS ExclusiveControl WatchComplete
PROPERTIES EndsOnce CloseCompletes
