CONSTANTS
  left = left
  right = right
  NoBlock = NoBlock
  Branches = {left, right}
  MaxHeight = 4
  Finalised <- OneFinal
  Limit <- LimitDisturbed
  Budget = 3
SPECIFICATION FairSpec
INVARIANT LocalChainLinked
INVARIANT ExtractedBeforeStored
INVARIANT NoBlockSkipped
INVARIANT MissedCallsBounded
INVARIANT RescanAboveFirstHonoured
PROPERTY ScanConverges
