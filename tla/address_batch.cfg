CONSTANTS
  None = None
  Callers = {c1, c2}
  MaxJobs = 2
  ThreadCap = 1
  ChanCap = 1
  MaxErrors = 2
  MaxAddresses = 4
  Limit <- LimitBatch
  Budget = 2
  w1 = w1
  w2 = w2
  Wallets <- TwoWallets
  Main = w1
  Alias <- OneName
SPECIFICATION FilesSpec
INVARIANT FilesTypeOK
INVARIANT AddressesCounted
INVARIANT KeysComeFirst
INVARIANT BatchNeverStuck
CHECK_DEADLOCK FALSE
PROPERTY BatchEnds
