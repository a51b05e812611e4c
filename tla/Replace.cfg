SPECIFICATION ReplSpec
CONSTANTS
  s1 = s1
  s2 = s2
  Norm = {s1, s2}
  Entry = {1, 2}
  Tasks = 2
INVARIANTS ReplInv
PROPERTY ReplacementsEnd
CHECK_DEADLOCK FALSE
