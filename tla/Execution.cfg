CONSTANTS
  Callers = {c1, c2}
  Watchers = {w1, w2}
  watcherBufferSize = 8
SPECIFICATION FairSpec
CHECK_DEADLOCK FALSE
INVARIANTS RunIsContained WatchComplete
PROPERTIES CloseCompletes
