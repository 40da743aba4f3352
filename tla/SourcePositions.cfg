SPECIFICATION Spec
CONSTANTS
  Chars = {"letter", "emoji", "cr", "lf", "ls", "bad", "tail"}
  Priorities = {0, 2, 3}
  MaxSize = 5
  UInt = 1024
INVARIANTS PositionsRoundTrip BreakpointsRoundTrip AdaptersAgree TokensDecode
CHECK_DEADLOCK FALSE
