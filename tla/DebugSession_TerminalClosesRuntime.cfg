CONSTANTS
  Callers = {c1, c2}
  Watchers = {}
  None = None
  watcherBufferSize = 2
  MaxCommands = 3
SPECIFICATION FairSpec
PROPERTY TerminalClosesRuntime
CHECK_DEADLOCK FALSE
