CONSTANTS
  MaxJobs = 4
  ThreadCap = 2
  ChanCap = 1
  MaxBlocks = 1
  Held <- HeldAll
SPECIFICATION FairSpec
INVARIANT TypeOK
INVARIANT NoSendAfterClose
INVARIANT AllOrError
INVARIANT NeverStuck
PROPERTY StepsRunOut
PROPERTY CallReturns
