SPECIFICATION MCSpec
CONSTANTS
  f1 = f1  f2 = f2  g = g  test = test
  Fixture = {f1, g}  Ignored = {g}  Test = test
  Dynamic = TRUE  MaxId = 5  MaxWith = 2
  j1 = j1  j2 = j2  k1 = k1  k2 = k2  s1 = s1  s2 = s2  None = None
  Job = {j1, j2}  Key = {k1, k2}  Salt = {s1, s2}
  SaltOf <- MCSaltOf  Wants <- Shared  MaxMishaps = 2
  Topics = {"anchors"}
INVARIANT NoCheckpointLost
