SPECIFICATION FrontFairSpec
CONSTANTS
  a1 = a1
  a2 = a2
  sA = sA
  rd = rd
  wr = wr
  hp = hp
  Addr = {a1, a2}
  Cached = {a1}
  PosSets = {sA}
  SetOf <- MCSetOf
  NWays = 3
  Task = {rd, wr}
  AddrOf <- MCAddrOf
  Kind <- MCKind
  IsHpr = {}
  NReq = 2
  NHpr = 1
  RetryMax = 2
  Rdys <- MCReady
  MaxDue = 1
PROPERTY ReqAccepted
