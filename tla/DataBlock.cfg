SPECIFICATION PartSpec
CONSTANTS
  t1 = t1
  t2 = t2
  Txn = {t1, t2}
  Plans <- MCPlans
  Half = 3
  NrCM = 2
  NrBuf = 4
  Latency = 5
INVARIANTS DbidInv RefusedOnlyWhenShort DataInv RightData
PROPERTY TasksAnswered
