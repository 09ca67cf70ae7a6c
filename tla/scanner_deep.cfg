CONSTANTS
  left = left
  right = right
  NoBlock = NoBlock
  Branches = {left, right}
  MaxHeight = 6
  Finalised <- OneFinal
  Limit <- LimitDeep
  Budget = 2
SPECIFICATION Spec
PROPERTY FollowsChain
