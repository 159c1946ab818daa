SPECIFICATION Spec
CONSTANTS
  a1 = a1  s1 = s1  c1 = c1  empty = empty  none = none
  Addr <- MCAddr  Slot <- MCSlot  Word <- MCWord  Zero = 0
  Balance <- PoorBalance  MaxNonce = 1
  Code <- MCCode  EmptyCode = empty  NoAccount = none
  MaxBlock = 1  Chain <- MCChain  MaxDepth = 2
INVARIANTS TypeOK CacheCoherent LocalCodeNeverMissing MarksMatchStorage
PROPERTIES QuietStepsKeepView ImplementsForkView
