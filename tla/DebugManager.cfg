CONSTANTS
  Creates = {d1, d2}
  None = None
SPECIFICATION FairSpec
CHECK_DEADLOCK FALSE
INVARIANTS CreationsBalanced ClosesSettle
PROPERTIES CallsReturn
