SPECIFICATION CommitSpec
CONSTANTS
  Hn = {0, 1}
  CmEntry = {1, 2}
  Plans <- MCPlans
  Beside <- MCBeside
  Txns = 3
INVARIANTS CommitInv
PROPERTY TransactionsEnd
CHECK_DEADLOCK FALSE
