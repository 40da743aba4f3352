SPECIFICATION FairDocumentsSpec
CONSTANTS
  Root = root
  plain = plain
  excluded = excluded
  Dirs <- MCDirs
  Excluded <- MCExcluded
  Sources = {1, 2, 3}
  DirOf <- MCDirOf
  Texts = {1, 2}
  Absent = 0
  Unreadable = 3
  MaxChanges = 2
  MaxRefreshes = 1
INVARIANTS SettledIsCurrent RegistrationsFollow
PROPERTIES GenerationsNameStates CloseCompletes
CHECK_DEADLOCK FALSE
