SPECIFICATION QueuesSpec
CONSTANTS
  x = x
  y = y
  Item = {x, y}
  Deepest = 3
  Blank = x
  FqItem = {x, y}
  FqDeepest = 4
  Row = {1, 2}
  Word = {x, y}
  Zero = x
  SramKinds <- MCSramKinds
  Slots = 3
  CM = {c1, c2, c3}
  c1 = c1
  c2 = c2
  c3 = c3
SYMMETRY Machines
INVARIANTS
  PortsAgree FastIsPlainQueue SramIsMemory AdbInv NoticeWhenComplete WFollowsTurns
PROPERTIES IsChannel FastIsChannel
