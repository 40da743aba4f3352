CONSTANTS
  Requests = {1, 2}
  Versions = {1, 2}
  Workspaces = {1}
  MaxSaves = 2
  None = None
SPECIFICATION FairLanguageSpec
CHECK_DEADLOCK FALSE
INVARIANTS ServedItsText
PROPERTIES RequestReturns
