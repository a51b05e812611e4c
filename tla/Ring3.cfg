SPECIFICATION RingFairSpec
CONSTANTS
  a1 = a1
  a2 = a2
  b1 = b1
  b2 = b2
  c1 = c1
  N = 3
  Flit = {a1, a2, b1, b2, c1}
  Src <- MCSrc
  Tgt <- MCTgt
  Port <- MCPort
  Job <- MCJob
  Tag <- MCTag
  EjD = 2
  TimerMax = 1
INVARIANTS RingInv NothingLost
PROPERTY EveryFlitArrives
