SPECIFICATION Spec
CONSTANTS
  dirty = dirty  DIRTY = dirty
  Byte = {0, 1}  WordSize = 2  MaxWords = 2  ToInt <- BigEndian  ToBytes <- Digits
  UnalignedReads = FALSE  EmptyExtends = FALSE
  Width = 3  MemWords = 3  Calldata <- MCCalldata  Code <- MCCode  ImmSize = 3
  RunPrograms = TRUE  Programs <- MCPrograms
INVARIANTS CacheInStep ExecutorAgrees
PROPERTY ImplementsMemory
CHECK_DEADLOCK FALSE
