SPECIFICATION Spec
CONSTANTS
  p1 = p1  p2 = p2  k1 = k1  k2 = k2  balance = balance  code = code  None = None
  Proc = {p1, p2}  ChainId = {k1}  Query = {balance, code}
  Answer <- MCAnswer  Single = {code}  Payload <- MCPayload  Uses <- SameChain
  Ttl = 1  MaxNow = 2  MaxRetry = 1
INVARIANTS TypeOK AnswersAreRight
PROPERTIES  CallsEnd
