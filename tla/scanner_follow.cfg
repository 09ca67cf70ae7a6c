CONSTANTS
  left = left
  right = right
  NoBlock = NoBlock
  Branches = {left, right}
  MaxHeight = 4
  Finalised <- OneFinal
  Limit <- LimitFollow
  Budget = 5
SPECIFICATION FairSpec
INVARIANT TypeOK
INVARIANT AnnouncedIsStored
PROPERTY FollowsChain
PROPERTY RollbackDropsRecords
PROPERTY ScanConverges
