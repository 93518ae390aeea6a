SPECIFICATION Spec
CONSTANTS
  b1 = b1
  b2 = b2
  Byte = {b1, b2}
  NoByte = NoByte
  Size = 3
  Base = 2
  Calls = {"begin", "read", "write", "end"}
  Reopen = TRUE
  PromptIsr = FALSE
  MaxRx = 3
  MaxTx = 3
SYMMETRY ByteSymmetry
INVARIANT BytesInOrder
PROPERTY ImplementsFifo
