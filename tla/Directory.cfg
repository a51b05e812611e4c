SPECIFICATION MCDirSpec
CONSTANTS
  h1 = h1
  h2 = h2
  l1 = l1
  l2 = l2
  l3 = l3
  l4 = l4
  sA = sA
  sB = sB
  l5 = l5
  Line = {l1, l2, l3, l4, l5}
  DirSet = {sA, sB}
  SetOf <- MCSetOf
  TreeSet = {1, 2}
  TreeWays = 4
  Ways = {0, 1, 2}
  Hn = {h1, h2}
SYMMETRY Alike
INVARIANTS DirInv WayKept VictimNotRecent
CHECK_DEADLOCK FALSE
