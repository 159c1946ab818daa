SPECIFICATION Spec
CONSTANTS
  none = none  None = none
  Value = {0, 1}  Initial = 0
  MaxBlock = 3  MaxAnchored = 2  MaxAnchor = 2  MaxRevert = 1
INVARIANTS TypeOK CacheFollowsChain OkMeansDone RecordedIsDeployed AnchorsNest
PROPERTY OperationsEnd
