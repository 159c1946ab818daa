SPECIFICATION Spec
CONSTANTS
  Env = {e1, e2}  Home = e1  Account = {a1, a2}  MaxDepth = 2  MaxOps = 3
  StartGas = 24  MaxComps = 3  MaxSteps = 13
  Word = 4  MaxDeals = 2  Name = {"a", "b"}
  NumEnvs = 2  Contracts = {"c", "d"}  Keys = {1, 2}  MaxChanges = 3
  Names = {"x"}  MaxLoads = 2  MaxEdits = 3
  Topics = {"load"}
INVARIANT DependenciesAreSeen
CHECK_DEADLOCK FALSE
