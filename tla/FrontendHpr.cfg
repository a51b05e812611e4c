SPECIFICATION FrontSpec
CONSTANTS
  a1 = a1
  a2 = a2
  sA = sA
  rd = rd
  wr = wr
  hp = hp
  Addr = {a1, a2}
  Cached = {a1}
  PosSets = {sA}
  SetOf <- MCSetOf
  NWays = 3
  Task = {rd, wr, hp}
  AddrOf <- MCAddrOf
  Kind <- MCKind
  IsHpr = {hp}
  NReq = 1
  NHpr = 1
  RetryMax = 1
  Rdys <- MCRdys
  MaxDue = 1
INVARIANTS NoLostWakeup Agreement InStep
PROPERTY EnteredAlone
