SPECIFICATION DocumentsSpec
CONSTANTS
  Root = root
  plain = plain
  excluded = excluded
  Dirs <- MCDirs
  Excluded <- MCExcluded
  Sources = {1, 2, 3}
  DirOf <- MCDirOf
  Texts = {1, 2}
  Absent = 0
  Unreadable = 3
  MaxChanges = 2
  MaxRefreshes = 1
CHECK_DEADLOCK FALSE
INVARIANT Converges
