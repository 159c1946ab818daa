SPECIFICATION Spec
CONSTANTS
  dirty = dirty  DIRTY = dirty
  Byte = {0, 1}  WordSize = 2  MaxWords = 2  ToInt <- BigEndian  ToBytes <- Digits
  UnalignedReads = TRUE  EmptyExtends = FALSE
  Width = 3  MemWords = 3  Calldata <- MCCalldata  Code <- MCCode  ImmSize = 3
  RunPrograms = FALSE  Programs <- MCPrograms
INVARIANT WordsMatchBytes
CHECK_DEADLOCK FALSE
