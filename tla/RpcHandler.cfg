CONSTANT MaxMessages = 4
SPECIFICATION FairSpec
CHECK_DEADLOCK FALSE
INVARIANTS OrderedUnlessSkipped
PROPERTIES EveryMessageAnswered
