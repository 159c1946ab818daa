SPECIFICATION Spec
CONSTANTS
  Account = {a1, a2}  BufLen = 3  BodyLen = {2, 3}  MaxCalls = 4  MaxRuns = 3
  WaitFor = 3  Backoff = 1  NumRetries = 3  MaxOps = 4  Sides = {"bridge", "explorer"}
INVARIANTS AnswersAreOwn ReplaysAreIgnored SendersAreCurrent WaitIsHonest
PROPERTIES BridgeCallsEnd ExplorerCallsEnd
CHECK_DEADLOCK FALSE
