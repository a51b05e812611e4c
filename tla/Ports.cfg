SPECIFICATION PartSpec
CONSTANTS
  N = 3
  Outst <- MCOutst
  Req <- MCReq
  DataOp <- MCDataOp
  t1 = t1
  t2 = t2
  Flit = {t1, t2}
  Tokens = 5
INVARIANTS BridgeInv NobodyForgotten PdcSafe
PROPERTIES PerLineOrder LinkIsChannel TokensReturn
