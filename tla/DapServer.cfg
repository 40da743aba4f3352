SPECIFICATION FairSpec
CONSTANTS
  None = None
  Positions = {p}
  AtEntry = {p}
  Requests = {{p}, {}}
  watcherBufferSize = 3
  MaxStops = 3
  MaxReplaces = 2
INVARIANTS LaunchAnsweredFirst StopsAreExplained HandlesKeepTheirStop StopsAreShown OwnershipOrdered
PROPERTIES RunReturns EndIsReported
CHECK_DEADLOCK FALSE
