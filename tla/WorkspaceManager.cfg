CONSTANTS
  Opens = {o1, o2, o3}
  Roots = {r1}
  None = None
  MaxClears = 1
SPECIFICATION FairSpec
CHECK_DEADLOCK FALSE
INVARIANTS RegistrySound
PROPERTIES OpensReturn
