SPECIFICATION DocumentsSpec
CONSTANTS
  Root = root
  plain = plain
  excluded = excluded
  Dirs <- OneDir
  Excluded <- NoneExcluded
  Sources = {1}
  DirOf <- OneDirOf
  Texts = {1}
  Absent = 0
  Unreadable = 3
  MaxChanges = 5
  MaxRefreshes = 2
CHECK_DEADLOCK FALSE
INVARIANT ConcurrentChangesObserved
