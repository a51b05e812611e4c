SPECIFICATION PartSpec
CONSTANTS
  a1 = a1
  a2 = a2
  sA = sA
  Addr = {a1, a2}
  Cached = {a1, a2}
  PosSets = {sA}
  SetOf <- MCSetOf
  NWays = 4
  Line = {a1, a2}
  Task = {a1, a2}
  AddrOf <- MCAddrOf
  N = 3
  RetryMax = 2
SYMMETRY Alike
INVARIANTS PosSafe BufSafe NidsDense
PROPERTIES ReleaseWakes LockSpec FifoSpec
