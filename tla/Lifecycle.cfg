CONSTANTS
  Creators = {c1, c2}
  Closers = {k1, k2}
  Results = {ok, err}
  MaxChannels = 3
SPECIFICATION FairSpec
CHECK_DEADLOCK FALSE
INVARIANTS GateSafe
PROPERTIES ResultBeatsCancellation CloseCompletes ImplementsBarrier
