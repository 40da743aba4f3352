SPECIFICATION Spec
CONSTANTS
  None = None
  Positions = {p, q}
  AtEntry = {p}
  Requests = {{p}, {q}}
  watcherBufferSize = 3
  MaxStops = 2
  MaxReplaces = 2
CHECK_DEADLOCK FALSE
INVARIANT HandlesNeverAlias
