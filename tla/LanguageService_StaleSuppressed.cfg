CONSTANTS
  Requests = {1, 2}
  Versions = {1, 2}
  Workspaces = {1}
  MaxSaves = 0
  None = None
SPECIFICATION FairLanguageSpec
PROPERTY StaleSuppressed
CHECK_DEADLOCK FALSE
